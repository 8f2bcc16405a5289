---------------------------- MODULE SessionInit ----------------------------
(* ivsr_init: the linked list of settings read one by one, the properties   *)
(* given to each device, and the engine, its requests and the executor made *)
(* in turn until one of them fails. The list is whatever the application    *)
(* linked: any setting may be the next one, in any order, any number of     *)
(* times. BATCH_NUM, VERBOSE_LEVEL, CUSTOM_LIB and unknown keys change      *)
(* nothing that is decided here. A string is modelled by what is read from  *)
(* it: a device by its parts, numbers between commas by a sequence.         *)
EXTENDS Naturals, Sequences

CONSTANTS
  Models,       \* what the model files hold: [dims, h, w]
  NoModel,      \* INPUT_MODEL not given
  Targets,      \* the values of TARGET_DEVICE
  Reshapes,     \* the values of RESHAPE_SETTINGS
  Resolutions,  \* the values of INPUT_RES, <<width, height>>
  Junk,         \* what stands between two commas and is no number
  MaxRequests,  \* the largest INFER_REQ_NUMBER
  Versions      \* the builds: TRUE with OpenVINO 2022.3

ASSUME InitAssumption == MaxRequests \in Nat /\ NoModel \notin Models

VARIABLES
  stage,        \* parse, build, init, requests, executor, returned, threw, undefined
  status,       \* what ivsr_init returned
  set,          \* its local variables, one per setting
  config,       \* engine_configs: a property of a device, in the section of a device
  swallowed,    \* parse_engine_config gave up after an exception
  requests,     \* the length of the engine's requests_
  compiled,     \* height and width of the compiled model's input
  handle        \* *handle has been assigned

vars == <<stage, status, set, config, swallowed, requests, compiled, handle>>

\* "GPU.1" is <<"GPU", ".1">>. A target is a virtual device, a list and the
\* position of the first device of the list followed by "(n)", 0 for none.
NoTarget == [virtual |-> "", list |-> <<>>, bracket |-> 0]
Precisions == {"f32", "f16", "bf16"}

Elements(s) == {s[i] : i \in 1 .. Len(s)}
IsGpu(d) == d[1] = "GPU"
HasGpu(t) == \E d \in Elements(t.list) : IsGpu(d)
Device(name) == <<name, "">>
VirtualDevices == {Device("MULTI"), Device("AUTO")}

\* The local variables before any setting is read.
NoSettings ==
  [model |-> NoModel, device |-> NoTarget, precision |-> "", cldnn |-> FALSE,
   reshape |-> <<>>, res |-> <<0, 0>>, nireq |-> 1, input |-> FALSE, output |-> FALSE]

Init ==
  /\ stage = "parse"
  /\ status = "none"
  /\ set = NoSettings
  /\ config = {}
  /\ swallowed = FALSE
  /\ requests = 0
  /\ compiled = [h |-> 0, w |-> 0]
  /\ handle = FALSE

-----------------------------------------------------------------------------
(* The loop over the settings. *)

constructed == <<config, swallowed, requests, compiled, handle>>

Return(s) == stage' = "returned" /\ status' = s
Undefined == stage' = "undefined" /\ UNCHANGED status
Continue == UNCHANGED <<stage, status>>

\* A missing file is only logged: loading the model will fail.
InputModel ==
  /\ \E m \in Models : set' = [set EXCEPT !.model = m]
  /\ Continue

TargetDevice ==
  /\ \E t \in Targets : set' = [set EXCEPT !.device = t]
  /\ Continue

CldnnConfig ==
  /\ set' = [set EXCEPT !.cldnn = TRUE]
  /\ Continue

Supported(p, t) == p \in IF HasGpu(t) THEN {"f32", "f16"} ELSE {"f32", "bf16"}

\* Compared with the device seen so far.
Precision ==
  \E p \in Precisions :
    /\ set' = [set EXCEPT !.precision = p]
    /\ IF Supported(p, set.device) THEN Continue ELSE Return("UNSUPPORTED_CONFIG")

\* What is no number is dropped, and what follows moves up.
ConvertStringToVector(s) == SelectSeq(s, LAMBDA x : x # Junk)

\* N, H and W; a shorter vector is read past its end.
ReshapeSettings ==
  \E s \in Reshapes :
    LET v == ConvertStringToVector(s) IN
      /\ set' = [set EXCEPT !.reshape = v]
      /\ IF Len(v) < 3 THEN Undefined
         ELSE IF v[2] % 2 # 0 \/ v[3] % 2 # 0 THEN Return("UNSUPPORTED_SHAPE")
         ELSE Continue

InputRes ==
  \E s \in Resolutions :
    LET v == ConvertStringToVector(s) IN
      /\ set' = [set EXCEPT !.res = IF Len(v) < 2 THEN @ ELSE <<v[1], v[2]>>]
      /\ IF Len(v) < 2 THEN Undefined ELSE Continue

\* Never less than before; a value that is no number is ignored.
InferReqNumber ==
  /\ \E n \in 0 .. MaxRequests : set' = [set EXCEPT !.nireq = IF n > @ THEN n ELSE @]
  /\ Continue

TensorDescs ==
  /\ \/ set' = [set EXCEPT !.input = TRUE]
     \/ set' = [set EXCEPT !.output = TRUE]
  /\ Continue

\* A null list of settings, or no place for the handle.
NullArguments ==
  /\ stage = "parse"
  /\ set = NoSettings
  /\ Return("GENERAL_ERROR")
  /\ UNCHANGED <<set, constructed>>

ReadSetting ==
  /\ stage = "parse"
  /\ InputModel \/ TargetDevice \/ CldnnConfig \/ Precision
       \/ ReshapeSettings \/ InputRes \/ InferReqNumber \/ TensorDescs
  /\ UNCHANGED constructed

-----------------------------------------------------------------------------
(* parse_engine_config *)

ParseDevices(t) ==
  IF t.virtual = "" THEN t.list
  ELSE (IF Device(t.virtual) \in VirtualDevices THEN <<Device(t.virtual)>> ELSE <<>>)
         \o (IF t.bracket = 0 THEN t.list ELSE SubSeq(t.list, 1, t.bracket))

Entry(section, d, p) == [section |-> section, device |-> d, property |-> p]

\* Mutated: the file stays with "GPU".
KernelSectionsOfGpu(t) == {Device("GPU")}

\* The sections with the kernels' file: the one of "GPU", unless a "GPU.n"
\* has taken it over.
KernelSections(t) ==
  LET heirs == {d \in Elements(ParseDevices(t)) : IsGpu(d) /\ d # Device("GPU")} IN
    IF heirs = {} THEN {Device("GPU")} ELSE heirs

IsMulti(t) == Device("MULTI") \in Elements(ParseDevices(t))
Hardware(t) == Elements(ParseDevices(t)) \ (IF IsMulti(t) THEN {Device("MULTI")} ELSE {})

\* The devices whose sections the last loop fills.
Sections(t, old) ==
  IF IsMulti(t) /\ old THEN {Device("MULTI")} ELSE Hardware(t)

\* A property of each of some devices in its own section, or of every device in
\* the sections of virtual ones.
Own(ds, p) == {Entry(d, d, p) : d \in ds}
Under(vs, t, p) == {Entry(v, d, p) : v \in vs, d \in Hardware(t)}

Filled(t, precision, old) ==
  LET virtual == Sections(t, old) \cap VirtualDevices
      direct == Sections(t, old) \ virtual
  IN  Own({d \in direct : IsGpu(d)}, "streams") \cup Under(virtual, t, "streams")
        \cup (IF precision = "" THEN {}
              ELSE Own(direct, "precision") \cup Under(virtual, t, "precision"))

\* An exception at the virtual device, which comes first, leaves the last loop;
\* it is logged and forgotten.
ParseEngineConfig ==
  LET kernels == IF HasGpu(set.device) /\ set.cldnn
                 THEN {Entry(d, d, "kernels") : d \in KernelSections(set.device)} ELSE {}
  IN  \E old \in Versions :
        \/ /\ config' = kernels \cup Filled(set.device, set.precision, old)
           /\ UNCHANGED swallowed
        \/ /\ Sections(set.device, old) \cap VirtualDevices # {}
           /\ config' = kernels
           /\ swallowed' = TRUE

\* Mutated: the resolution is not asked for.
EndOfSettingsNoRes ==
  /\ stage = "parse"
  /\ IF set.model = NoModel \/ set.device = NoTarget
     THEN Return("UNSUPPORTED_CONFIG") /\ UNCHANGED <<config, swallowed>>
     ELSE stage' = "build" /\ UNCHANGED status /\ ParseEngineConfig
  /\ UNCHANGED <<set, requests, compiled, handle>>

\* The list ends.
EndOfSettings ==
  /\ stage = "parse"
  /\ IF set.model = NoModel \/ set.device = NoTarget \/ 0 \in Elements(set.res)
     THEN Return("UNSUPPORTED_CONFIG") /\ UNCHANGED <<config, swallowed>>
     ELSE stage' = "build" /\ UNCHANGED status /\ ParseEngineConfig
  /\ UNCHANGED <<set, requests, compiled, handle>>

-----------------------------------------------------------------------------
(* The engine, its requests, the executor, the handle. *)

\* Both tensor descriptions are read through their pointers.
NewEngine ==
  /\ stage = "build"
  /\ stage' = IF set.input /\ set.output THEN "init" ELSE "undefined"
  /\ UNCHANGED <<status, set, constructed>>

\* Mutated: the width of a five-dimensional model is not tested.
InitEngineAnyWidth ==
  /\ stage = "init"
  /\ compiled' = IF set.reshape = <<>> THEN [h |-> set.model.h, w |-> set.model.w]
                 ELSE [h |-> set.reshape[2], w |-> set.reshape[3]]
  /\ stage' = "requests"
  /\ UNCHANGED <<status, set, config, swallowed, requests, handle>>

\* init_impl. Any failure it reports is returned as UNSUPPORTED_SHAPE.
InitEngine ==
  /\ stage = "init"
  /\ IF set.reshape = <<>>
     THEN /\ compiled' = [h |-> set.model.h, w |-> set.model.w]
          /\ stage' = "requests" /\ UNCHANGED status
     ELSE IF set.model.dims = 5 /\ set.reshape[3] % 32 # 0
     THEN Return("UNSUPPORTED_SHAPE") /\ UNCHANGED compiled
     ELSE /\ compiled' = [h |-> set.reshape[2], w |-> set.reshape[3]]
          /\ stage' = "requests" /\ UNCHANGED status
  /\ UNCHANGED <<set, config, swallowed, requests, handle>>

CreateInferRequests ==
  /\ stage = "requests"
  /\ requests' = set.nireq
  /\ stage' = "executor"
  /\ UNCHANGED <<status, set, config, swallowed, compiled, handle>>

\* The executor's eight threads, the patch configuration and the handle.
NewSession ==
  /\ stage = "executor"
  /\ handle' = TRUE
  /\ Return("OK")
  /\ UNCHANGED <<set, config, swallowed, requests, compiled>>

\* OpenVINO (its core, set_property, read_model, reshape, compile_model, a request)
\* or a thread's start throws; ivsr_init has no handler.
Throws ==
  /\ stage \in {"build", "init", "requests", "executor"}
  /\ \E n \in 0 .. MaxRequests :
       /\ (stage = "requests" /\ n < set.nireq) \/ n = requests
       /\ requests' = n
  /\ stage' = "threw"
  /\ UNCHANGED <<status, set, config, swallowed, compiled, handle>>

Next ==
  NullArguments \/ ReadSetting \/ EndOfSettings \/ NewEngine \/ InitEngine
    \/ CreateInferRequests \/ NewSession \/ Throws

Spec == Init /\ [][Next]_vars

-----------------------------------------------------------------------------
(* Properties *)

(* A handle is given exactly when OK is returned, and then nothing of the   *)
(* session is missing: every required setting was read, whatever failed on  *)
(* the way was not skipped, and the engine has the requests asked for.      *)
NoHalfSession ==
  /\ handle <=> status = "OK"
  /\ handle => /\ set.model # NoModel /\ set.device # NoTarget
               /\ set.input /\ set.output
               /\ 0 \notin Elements(set.res)
               /\ requests = set.nireq /\ requests > 0

(* The patches have the size of the last RESHAPE_SETTINGS, which has passed *)
(* every test of its shape.                                                 *)
ReshapeHonoured ==
  handle /\ set.reshape # <<>> =>
    /\ compiled = [h |-> set.reshape[2], w |-> set.reshape[3]]
    /\ compiled.h % 2 = 0 /\ compiled.w % 2 = 0
    /\ set.model.dims = 5 => compiled.w % 32 = 0

\* "GPU" and a "GPU.n" in one list: the file of the first is erased.
SharesKernels(t) == \E d \in Elements(t.list) : IsGpu(d) /\ d # Device("GPU") /\ Device("GPU") \in Elements(t.list)

(* Every device of the target gets its settings, in its own section or in   *)
(* the virtual device's: the precision, one stream and the kernels' file if *)
(* it is a GPU. Not those after a bracket, and not after an exception.      *)
DevicesConfigured ==
  stage \in {"build", "init"} /\ ~swallowed /\ set.device.bracket \in {0, Len(set.device.list)} =>
    \A d \in Elements(set.device.list) :
      LET has(p) == \E c \in config : c.device = d /\ c.property = p IN
        /\ set.precision # "" => has("precision")
        /\ IsGpu(d) => has("streams")
        /\ IsGpu(d) /\ set.cldnn /\ ~SharesKernels(set.device) => has("kernels")
=============================================================================
