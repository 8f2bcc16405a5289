------------------------- MODULE SessionInit_proofs -------------------------
(* What a handle of ivsr_init stands for, for every set of models, device   *)
(* strings, shapes and resolutions.                                         *)
EXTENDS SessionInit, SequenceTheorems, TLAPS

Vectors == {ConvertStringToVector(s) : s \in Reshapes} \cup {<<>>}
Sizes == {<<ConvertStringToVector(s)[1], ConvertStringToVector(s)[2]>> : s \in Resolutions} \cup {<<0, 0>>}

Settings ==
  [model : Models \cup {NoModel}, device : Targets \cup {NoTarget}, precision : Precisions \cup {""},
   cldnn : BOOLEAN, reshape : Vectors, res : Sizes, nireq : Nat, input : BOOLEAN, output : BOOLEAN]

SettingsOK ==
  /\ set \in Settings
  /\ set.nireq > 0

Making == {"build", "init", "requests", "executor"}
Stages == {"parse", "returned", "threw", "undefined"} \cup Making

\* What is known of the settings, the later the more.
Known ==
  /\ handle <=> status = "OK"
  /\ handle => stage = "returned"
  /\ stage \in Making \/ handle =>
       set.model # NoModel /\ set.device # NoTarget /\ 0 \notin Elements(set.res)
  /\ stage \in {"init", "requests", "executor"} \/ handle => set.input /\ set.output
  /\ stage = "executor" \/ handle => requests = set.nireq

IInv == SettingsOK /\ Known /\ stage \in Stages

-----------------------------------------------------------------------------
LEMMA Initially == Init => IInv
<1> SUFFICES ASSUME Init
             PROVE  IInv
  OBVIOUS
<1>1. <<>> \in Vectors /\ <<0, 0>> \in Sizes
  BY DEF Vectors, Sizes
<1>2. set \in Settings
  <2>1. set = [model |-> NoModel, device |-> NoTarget, precision |-> "", cldnn |-> FALSE,
               reshape |-> <<>>, res |-> <<0, 0>>, nireq |-> 1, input |-> FALSE, output |-> FALSE]
    BY DEF Init, NoSettings
  <2> HIDE DEF Init
  <2> QED
    BY <1>1, <2>1, Zenon DEF Settings
<1>3. set.nireq > 0
  <2>1. set.nireq = 1
    BY DEF Init, NoSettings
  <2>2. 1 > 0
    OBVIOUS
  <2> QED
    BY <2>1, <2>2, Zenon
<1>4. Known /\ stage \in Stages
  BY DEF Init, Known, Stages, Making
<1>5. SettingsOK
  BY <1>2, <1>3 DEF SettingsOK
<1> QED
  BY <1>4, <1>5 DEF IInv

LEMMA SettingsRead == IInv /\ ReadSetting => IInv'
<1> SUFFICES ASSUME IInv, ReadSetting
             PROVE  IInv'
  OBVIOUS
<1>1. stage = "parse" /\ set \in Settings /\ set.nireq > 0 /\ ~handle /\ status # "OK"
  BY DEF ReadSetting, IInv, SettingsOK, Known
<1>2. handle' = handle /\ requests' = requests
  BY DEF ReadSetting, constructed
<1>3. /\ stage' \in {"parse", "returned", "undefined"}
      /\ status' # "OK"
  BY <1>1 DEF ReadSetting, InputModel, TargetDevice, CldnnConfig, Precision, ReshapeSettings, InputRes,
              InferReqNumber, TensorDescs, Continue, Return, Undefined
<1>4. Known' /\ stage' \in Stages
  BY <1>1, <1>2, <1>3 DEF Known, Stages, Making
<1>5. CASE Precision
  <2>1. PICK p \in Precisions : set' = [set EXCEPT !.precision = p]
    BY <1>5 DEF Precision
  <2>2. SettingsOK'
    BY <1>1, <2>1 DEF SettingsOK, Settings
  <2> QED
    BY <1>4, <2>2 DEF IInv
<1>6. CASE InputModel
  <2>1. SettingsOK'
    BY <1>1, <1>6 DEF InputModel, SettingsOK, Settings
  <2> QED
    BY <1>4, <2>1 DEF IInv
<1>7. CASE TargetDevice
  <2>1. SettingsOK'
    BY <1>1, <1>7 DEF TargetDevice, SettingsOK, Settings
  <2> QED
    BY <1>4, <2>1 DEF IInv
<1>8. CASE CldnnConfig
  <2>1. SettingsOK'
    BY <1>1, <1>8 DEF CldnnConfig, SettingsOK, Settings
  <2> QED
    BY <1>4, <2>1 DEF IInv
<1>9. CASE ReshapeSettings
  <2>1. PICK v \in Vectors : set' = [set EXCEPT !.reshape = v]
    BY <1>9 DEF ReshapeSettings, Vectors
  <2>2. SettingsOK'
    BY <1>1, <2>1 DEF SettingsOK, Settings
  <2> QED
    BY <1>4, <2>2 DEF IInv
<1>10. CASE InputRes
  <2>1. PICK s \in Resolutions :
          set' = [set EXCEPT !.res = IF Len(ConvertStringToVector(s)) < 2 THEN @
                    ELSE <<ConvertStringToVector(s)[1], ConvertStringToVector(s)[2]>>]
    BY <1>10 DEF InputRes
  <2>2. <<ConvertStringToVector(s)[1], ConvertStringToVector(s)[2]>> \in Sizes
    BY DEF Sizes
  <2>3. SettingsOK'
    BY <1>1, <2>1, <2>2 DEF SettingsOK, Settings
  <2> QED
    BY <1>4, <2>3 DEF IInv
<1>11. CASE InferReqNumber
  <2>1. PICK n \in 0 .. MaxRequests : set' = [set EXCEPT !.nireq = IF n > @ THEN n ELSE @]
    BY <1>11 DEF InferReqNumber
  <2>2. n \in Nat
    BY InitAssumption
  <2>3. set.nireq \in Nat
    BY <1>1 DEF Settings
  <2> DEFINE m == IF n > set.nireq THEN n ELSE set.nireq
  <2>4. m \in Nat /\ m > 0
    BY <1>1, <2>2, <2>3
  <2>5. set' = [set EXCEPT !.nireq = m]
    BY <2>1
  <2> HIDE DEF m
  <2>6. SettingsOK'
    BY <1>1, <2>1, <2>4, <2>5 DEF SettingsOK, Settings
  <2> QED
    BY <1>4, <2>6 DEF IInv
<1>12. CASE TensorDescs
  <2>1. SettingsOK'
    BY <1>1, <1>12 DEF TensorDescs, SettingsOK, Settings
  <2> QED
    BY <1>4, <2>1 DEF IInv
<1> QED
  BY <1>5, <1>6, <1>7, <1>8, <1>9, <1>10, <1>11, <1>12 DEF ReadSetting

LEMMA Preserved == IInv /\ [Next]_vars => IInv'
<1> SUFFICES ASSUME IInv, [Next]_vars
             PROVE  IInv'
  OBVIOUS
<1> USE DEF IInv, Known, Stages, Making
<1>s. set' = set => SettingsOK'
  BY DEF SettingsOK
<1>1. CASE ReadSetting
  BY <1>1, SettingsRead DEF IInv
<1>2. CASE EndOfSettings
  BY <1>s, <1>2 DEF EndOfSettings, Return
<1>3. CASE NewEngine
  BY <1>s, <1>3 DEF NewEngine, constructed
<1>4. CASE InitEngine
  BY <1>s, <1>4 DEF InitEngine, Return
<1>5. CASE CreateInferRequests
  BY <1>s, <1>5 DEF CreateInferRequests
<1>6. CASE NewSession
  BY <1>s, <1>6 DEF NewSession, Return
<1>7. CASE Throws
  BY <1>s, <1>7 DEF Throws
<1>8. CASE NullArguments
  BY <1>s, <1>8 DEF NullArguments, constructed, Return
<1>9. CASE UNCHANGED vars
  BY <1>s, <1>9 DEF vars
<1> QED
  BY <1>1, <1>2, <1>3, <1>4, <1>5, <1>6, <1>7, <1>8, <1>9 DEF Next

LEMMA Invariant == Spec => []IInv
BY Initially, Preserved, PTL DEF Spec

-----------------------------------------------------------------------------
(* Whatever the list of settings holds and whatever fails on the way, a     *)
(* handle is given exactly with OK and stands for a complete session.       *)
THEOREM CompleteSession == Spec => []NoHalfSession
<1>1. IInv => NoHalfSession
  BY DEF IInv, Known, SettingsOK, NoHalfSession
<1> QED
  BY <1>1, Invariant, PTL

-----------------------------------------------------------------------------
\* What the reshape has been tested for, and what the model was compiled to.
ReshapeTested ==
  set.reshape # <<>> =>
    /\ stage = "parse" \/ stage \in Making \/ handle =>
         set.reshape[2] % 2 = 0 /\ set.reshape[3] % 2 = 0
    /\ stage \in {"requests", "executor"} \/ handle =>
         /\ compiled = [h |-> set.reshape[2], w |-> set.reshape[3]]
         /\ set.model.dims = 5 => set.reshape[3] % 32 = 0

LEMMA ReshapeInit == Init => ReshapeTested
<1> SUFFICES ASSUME Init
             PROVE  set.reshape = <<>>
  BY DEF ReshapeTested
<1> QED BY DEF Init, NoSettings

LEMMA ReshapeRead == IInv /\ ReshapeTested /\ ReadSetting => ReshapeTested'
<1> SUFFICES ASSUME IInv, ReshapeTested, ReadSetting
             PROVE  ReshapeTested'
  OBVIOUS
<1>1. stage = "parse" /\ set \in Settings /\ ~handle /\ handle' = handle
  BY DEF ReadSetting, IInv, SettingsOK, Known, constructed
<1>2. stage' \in {"parse", "returned", "undefined"}
  BY <1>1 DEF ReadSetting, InputModel, TargetDevice, CldnnConfig, Precision, ReshapeSettings, InputRes,
              InferReqNumber, TensorDescs, Continue, Return, Undefined
<1>3. CASE ReshapeSettings
  <2>1. PICK s \in Reshapes :
          /\ set' = [set EXCEPT !.reshape = ConvertStringToVector(s)]
          /\ IF Len(ConvertStringToVector(s)) < 3 THEN Undefined
             ELSE IF ConvertStringToVector(s)[2] % 2 # 0 \/ ConvertStringToVector(s)[3] % 2 # 0
             THEN Return("UNSUPPORTED_SHAPE") ELSE Continue
    BY <1>3 DEF ReshapeSettings
  <2>2. set'.reshape = ConvertStringToVector(s)
    BY <1>1, <2>1 DEF Settings
  <2>3. stage' = "parse" => ConvertStringToVector(s)[2] % 2 = 0 /\ ConvertStringToVector(s)[3] % 2 = 0
    BY <2>1 DEF Undefined, Return
  <2> QED BY <1>1, <1>2, <2>2, <2>3 DEF ReshapeTested, Making
<1>4. CASE ~ReshapeSettings
  <2>1. set'.reshape = set.reshape
    BY <1>1, <1>4 DEF ReadSetting, InputModel, TargetDevice, CldnnConfig, Precision, InputRes,
              InferReqNumber, TensorDescs, Settings
  <2> QED BY <1>1, <1>2, <2>1 DEF ReshapeTested, Making
<1> QED BY <1>3, <1>4

LEMMA ReshapeKept == IInv /\ ReshapeTested /\ [Next]_vars => ReshapeTested'
<1> SUFFICES ASSUME IInv, ReshapeTested, [Next]_vars
             PROVE  ReshapeTested'
  OBVIOUS
<1>0. /\ handle => stage = "returned"
      /\ stage \in Making => ~handle
  BY DEF IInv, Known, Making
<1>1. CASE ReadSetting
  BY <1>1, ReshapeRead
<1>2. CASE EndOfSettings
  BY <1>0, <1>2 DEF EndOfSettings, Return, ReshapeTested, Making
<1>3. CASE NewEngine
  BY <1>0, <1>3 DEF NewEngine, constructed, ReshapeTested, Making
<1>4. CASE InitEngine
  BY <1>0, <1>4 DEF InitEngine, Return, ReshapeTested, Making
<1>5. CASE CreateInferRequests
  BY <1>0, <1>5 DEF CreateInferRequests, ReshapeTested, Making
<1>6. CASE NewSession
  BY <1>0, <1>6 DEF NewSession, Return, ReshapeTested, Making
<1>7. CASE Throws
  BY <1>0, <1>7 DEF Throws, ReshapeTested, Making
<1>8. CASE NullArguments
  BY <1>0, <1>8 DEF NullArguments, constructed, Return, ReshapeTested, Making
<1>9. CASE UNCHANGED vars
  BY <1>9 DEF vars, ReshapeTested, Making
<1> QED
  BY <1>1, <1>2, <1>3, <1>4, <1>5, <1>6, <1>7, <1>8, <1>9 DEF Next

(* Wherever RESHAPE_SETTINGS stands in the list and however often: a        *)
(* session's model has the last shape, and that shape passed every test.    *)
THEOREM ShapeTested == Spec => []ReshapeHonoured
<1>1. ReshapeTested => ReshapeHonoured
  BY DEF ReshapeTested, ReshapeHonoured
<1> QED
  BY <1>1, ReshapeInit, ReshapeKept, Invariant, PTL DEF Spec

-----------------------------------------------------------------------------
(* The devices of a target whose list is read to its end. *)
LEMMA DevicesRead ==
  ASSUME NEW D, NEW t, t.list \in Seq(D), t.bracket \in {0, Len(t.list)}
  PROVE  /\ Elements(t.list) \subseteq Elements(ParseDevices(t))
         /\ Elements(ParseDevices(t)) \subseteq Elements(t.list) \cup VirtualDevices
<1> DEFINE head == IF Device(t.virtual) \in VirtualDevices THEN <<Device(t.virtual)>> ELSE <<>>
           tail == IF t.bracket = 0 THEN t.list ELSE SubSeq(t.list, 1, t.bracket)
           S == D \cup VirtualDevices
<1>1. tail = t.list
  <2>1. t.bracket # 0 => SubSeq(t.list, 1, Len(t.list)) = t.list
    <3> DEFINE u == SubSeq(t.list, 1, Len(t.list))
    <3>1. u \in Seq(D) /\ Len(u) = Len(t.list) /\ \A i \in 1 .. Len(u) : u[i] = t.list[i]
      OBVIOUS
    <3> HIDE DEF u
    <3>2. u = t.list
      BY <3>1, SeqEqual, Zenon
    <3> QED BY <3>2 DEF u
  <2> QED BY <2>1
<1>2. CASE t.virtual = ""
  BY <1>2 DEF ParseDevices
<1>3. CASE t.virtual # ""
  <2>1. ParseDevices(t) = head \o t.list
    BY <1>1, <1>3 DEF ParseDevices
  <2>2. head \in Seq(S) /\ t.list \in Seq(S) /\ Elements(head) \subseteq VirtualDevices
        /\ Len(head) \in Nat /\ Len(t.list) \in Nat
    <3>1. CASE Device(t.virtual) \in VirtualDevices
      <4>1. head = <<Device(t.virtual)>> /\ Len(head) = 1 /\ head[1] = Device(t.virtual)
        BY <3>1
      <4>2. head \in Seq(S)
        BY <3>1
      <4>3. Elements(head) \subseteq VirtualDevices
        BY <3>1, <4>1 DEF Elements
      <4> QED BY <4>1, <4>2, <4>3
    <3>2. CASE Device(t.virtual) \notin VirtualDevices
      <4>1. head = <<>> /\ Len(head) = 0
        BY <3>2
      <4> QED BY <4>1 DEF Elements
    <3> QED BY <3>1, <3>2
  <2> HIDE DEF head, S
  <2>3. /\ Len(head \o t.list) = Len(head) + Len(t.list)
        /\ \A i \in 1 .. Len(head) + Len(t.list) :
             (head \o t.list)[i] = IF i <= Len(head) THEN head[i] ELSE t.list[i - Len(head)]
    BY <2>2, ConcatProperties, Zenon
  <2> DEFINE c == head \o t.list
  <2> HIDE DEF c
  <2>4. Elements(t.list) \subseteq Elements(c)
    <3> SUFFICES ASSUME NEW i \in 1 .. Len(t.list)
                 PROVE  t.list[i] \in Elements(c)
      BY DEF Elements
    <3>1. i + Len(head) \in 1 .. Len(c) /\ c[i + Len(head)] = t.list[i]
      BY <2>2, <2>3 DEF c
    <3> QED BY <3>1 DEF Elements
  <2>5. Elements(c) \subseteq Elements(head) \cup Elements(t.list)
    <3> SUFFICES ASSUME NEW i \in 1 .. Len(c)
                 PROVE  c[i] \in Elements(head) \cup Elements(t.list)
      BY DEF Elements
    <3>1. CASE i <= Len(head)
      <4>1. i \in 1 .. Len(head) /\ c[i] = head[i]
        BY <2>2, <2>3, <3>1 DEF c
      <4> QED BY <4>1 DEF Elements
    <3>2. CASE ~(i <= Len(head))
      <4>1. i - Len(head) \in 1 .. Len(t.list) /\ c[i] = t.list[i - Len(head)]
        BY <2>2, <2>3, <3>2 DEF c
      <4> QED BY <4>1 DEF Elements
    <3> QED BY <3>1, <3>2
  <2> QED BY <2>1, <2>2, <2>4, <2>5 DEF c
<1> QED BY <1>2, <1>3

\* What parse_engine_config has to have entered for device d of target t.
Configured(c, t, precision, cldnn, d) ==
  LET has(p) == \E e \in c : e.device = d /\ e.property = p IN
    /\ precision # "" => has("precision")
    /\ IsGpu(d) => has("streams")
    /\ IsGpu(d) /\ cldnn /\ ~SharesKernels(t) => has("kernels")

(* The loops of parse_engine_config, on any target whose list is read to    *)
(* its end and has no virtual device in it.                                 *)
LEMMA AllConfigured ==
  ASSUME NEW D, D \cap VirtualDevices = {}, NEW t, t.list \in Seq(D),
         t.bracket \in {0, Len(t.list)}, NEW precision, NEW cldnn, NEW old,
         NEW c, Filled(t, precision, old) \subseteq c,
         HasGpu(t) /\ cldnn => \A k \in KernelSections(t) : Entry(k, k, "kernels") \in c,
         NEW d \in Elements(t.list)
  PROVE  Configured(c, t, precision, cldnn, d)
<1>0. \A s, p : Entry(s, d, p).device = d /\ Entry(s, d, p).property = p
  BY DEF Entry
<1>1. d \notin VirtualDevices /\ d # Device("MULTI") /\ d \in Hardware(t)
  <2>1. d \in D
    BY DEF Elements
  <2> QED BY <2>1, DevicesRead DEF Hardware, VirtualDevices
<1> DEFINE at == IF IsMulti(t) /\ old THEN Device("MULTI") ELSE d
<1>2. IF IsMulti(t) /\ old THEN at \in Sections(t, old) \cap VirtualDevices
                           ELSE at \in Sections(t, old) \ VirtualDevices
  BY <1>1 DEF Sections, VirtualDevices
<1> DEFINE virtual == Sections(t, old) \cap VirtualDevices
           direct == Sections(t, old) \ VirtualDevices
<1>f. /\ Own({e \in direct : IsGpu(e)}, "streams") \subseteq c /\ Under(virtual, t, "streams") \subseteq c
      /\ precision # "" => Own(direct, "precision") \subseteq c /\ Under(virtual, t, "precision") \subseteq c
  <2>1. direct = Sections(t, old) \ virtual
    OBVIOUS
  <2>2. Filled(t, precision, old) \subseteq c
    OBVIOUS
  <2> QED BY <2>1, <2>2 DEF Filled
<1>3. /\ precision # "" => Entry(at, d, "precision") \in c
      /\ IsGpu(d) => Entry(at, d, "streams") \in c
  <2>1. CASE IsMulti(t) /\ old
    <3>1. at \in Sections(t, old) \cap VirtualDevices
      BY <1>2, <2>1
    <3> HIDE DEF at
    <3>2. \A p : Entry(at, d, p) \in Under(virtual, t, p)
      BY <1>1, <3>1 DEF Under
    <3> HIDE DEF virtual, direct
    <3> QED BY <1>f, <3>2
  <2>2. CASE ~(IsMulti(t) /\ old)
    <3>1. at = d /\ d \in Sections(t, old) \ VirtualDevices
      BY <1>2, <2>2
    <3> HIDE DEF at
    <3>2. \A p : Entry(at, d, p) \in Own(direct, p)
      BY <3>1 DEF Own
    <3>3. IsGpu(d) => Entry(at, d, "streams") \in Own({e \in direct : IsGpu(e)}, "streams")
      BY <3>1 DEF Own
    <3> HIDE DEF virtual, direct
    <3> QED BY <1>f, <3>2, <3>3
  <2> QED BY <2>1, <2>2
<1> HIDE DEF at
<1>4. ASSUME IsGpu(d), cldnn, ~SharesKernels(t)
      PROVE  Entry(d, d, "kernels") \in c
  <2> DEFINE heirs == {e \in Elements(ParseDevices(t)) : IsGpu(e) /\ e # Device("GPU")}
  <2>1. HasGpu(t)
    BY <1>4 DEF HasGpu
  <2>2. d \in Elements(ParseDevices(t))
    BY DevicesRead
  <2>3. \A e \in heirs : e \in Elements(t.list)
    <3>1. Device("MULTI")[1] = "MULTI" /\ Device("AUTO")[1] = "AUTO"
      BY DEF Device
    <3>2. \A e \in heirs : e \notin VirtualDevices
      BY <3>1 DEF IsGpu, VirtualDevices
    <3> QED BY <3>2, DevicesRead
  <2>4. d = Device("GPU") => heirs = {}
    BY <1>4, <2>3 DEF SharesKernels
  <2>5. d # Device("GPU") => d \in heirs
    BY <1>4, <2>2
  <2>6. KernelSections(t) = IF heirs = {} THEN {Device("GPU")} ELSE heirs
    BY DEF KernelSections
  <2> HIDE DEF heirs
  <2>7. d \in KernelSections(t)
    BY <2>4, <2>5, <2>6
  <2> QED BY <1>4, <2>1, <2>7
<1>5. ASSUME NEW s, NEW p, Entry(s, d, p) \in c
      PROVE  \E e \in c : e.device = d /\ e.property = p
  BY <1>0, <1>5
<1> QED BY <1>3, <1>4, <1>5 DEF Configured

\* Device strings that list no virtual device.
ProperTargets(D) == D \cap VirtualDevices = {} /\ \A t \in Targets : t.list \in Seq(D)

LEMMA ConfigStep ==
  ASSUME NEW D, ProperTargets(D), IInv, DevicesConfigured, [Next]_vars
  PROVE  DevicesConfigured'
<1>1. ASSUME UNCHANGED <<set, config, swallowed>>, stage' \in {"build", "init"} => stage \in {"build", "init"}
      PROVE  DevicesConfigured'
  BY <1>1 DEF DevicesConfigured
<1>2. ASSUME stage' \notin {"build", "init"}
      PROVE  DevicesConfigured'
  BY <1>2 DEF DevicesConfigured
<1>3. CASE ReadSetting
  <2>1. stage = "parse"
    BY <1>3 DEF ReadSetting
  <2>2. stage' \in {"parse", "returned", "undefined"}
    BY <1>3, <2>1 DEF ReadSetting, InputModel, TargetDevice, CldnnConfig, Precision, ReshapeSettings,
                      InputRes, InferReqNumber, TensorDescs, Continue, Return, Undefined
  <2> QED BY <1>2, <2>2
<1>4. CASE EndOfSettings
  <2>1. CASE stage' = "returned"
    BY <1>2, <2>1
  <2>2. CASE stage' # "returned" /\ ~swallowed' /\ set.device.bracket \in {0, Len(set.device.list)}
    <3>1. set.device # NoTarget /\ ParseEngineConfig /\ set' = set
      BY <1>4, <2>2 DEF EndOfSettings, Return
    <3>2. set.device.list \in Seq(D)
      BY <3>1 DEF IInv, SettingsOK, Settings, ProperTargets
    <3> DEFINE kernels == IF HasGpu(set.device) /\ set.cldnn
                          THEN {Entry(k, k, "kernels") : k \in KernelSections(set.device)} ELSE {}
    <3>3. PICK old \in Versions : config' = kernels \cup Filled(set.device, set.precision, old)
      BY <2>2, <3>1 DEF ParseEngineConfig
    <3>4. /\ Filled(set.device, set.precision, old) \subseteq config'
          /\ HasGpu(set.device) /\ set.cldnn =>
               \A k \in KernelSections(set.device) : Entry(k, k, "kernels") \in config'
      BY <3>3
    <3>5. \A d \in Elements(set.device.list) :
            Configured(config', set.device, set.precision, set.cldnn, d)
      BY <2>2, <3>2, <3>4, AllConfigured DEF ProperTargets
    <3> QED BY <3>1, <3>5 DEF DevicesConfigured, Configured
  <2>3. CASE swallowed' \/ set'.device.bracket \notin {0, Len(set'.device.list)}
    BY <2>3 DEF DevicesConfigured
  <2> QED BY <1>4, <2>1, <2>2, <2>3 DEF EndOfSettings
<1>5. CASE NewEngine
  BY <1>1, <1>5 DEF NewEngine, constructed
<1>6. CASE InitEngine
  BY <1>2, <1>6 DEF InitEngine, Return
<1>7. CASE NullArguments \/ CreateInferRequests \/ NewSession \/ Throws
  BY <1>2, <1>7 DEF NullArguments, CreateInferRequests, NewSession, Throws, Return
<1>8. CASE UNCHANGED vars
  BY <1>1, <1>8 DEF vars
<1> QED
  BY <1>3, <1>4, <1>5, <1>6, <1>7, <1>8 DEF Next

(* For every device string that lists no virtual device in another, in both *)
(* branches of the OpenVINO version: every device gets its settings, unless *)
(* an exception was swallowed or the list is cut at a bracket.              *)
THEOREM AllDevices ==
  ASSUME NEW D, ProperTargets(D)
  PROVE  Spec => []DevicesConfigured
<1>1. Init => DevicesConfigured
  BY DEF Init, DevicesConfigured
<1>2. IInv /\ DevicesConfigured /\ [Next]_vars => DevicesConfigured'
  BY ConfigStep
<1> QED
  BY <1>1, <1>2, Invariant, PTL DEF Spec
=============================================================================
