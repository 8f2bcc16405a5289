----------------------------- MODULE VsrService -----------------------------
(***************************************************************************)
(* What the ivsr API promises an application (ivsr.h, ivsr.cpp), without   *)
(* the pool, the queue or the threads behind it: frames are submitted in   *)
(* order; a frame is inferred part by part (its patches, or the whole      *)
(* frame as one part); its callback is called once, after all of its parts *)
(* are inferred; a call may fail instead, and then nothing is inferred for *)
(* it; the session is closed only when no frame is open.                   *)
(***************************************************************************)
EXTENDS Naturals

CONSTANTS
  MaxFrames,   \* bound on the number of calls
  NParts       \* parts a frame is inferred in

VARIABLES status, inferred, up

vars == <<status, inferred, up>>

Frames == 1 .. MaxFrames
Parts  == 1 .. NParts

Init ==
  /\ status = [f \in Frames |-> "new"]
  /\ inferred = {}
  /\ up = TRUE

Submit(f) ==
  /\ up
  /\ status[f] = "new"
  /\ \A e \in 1 .. f - 1 : status[e] # "new"
  /\ status' = [status EXCEPT ![f] = "open"]
  /\ UNCHANGED <<inferred, up>>

\* A call with no input is refused at once.
Refuse(f) ==
  /\ up
  /\ status[f] = "new"
  /\ \A e \in 1 .. f - 1 : status[e] # "new"
  /\ status' = [status EXCEPT ![f] = "failed"]
  /\ UNCHANGED <<inferred, up>>

Infer(f, p) ==
  /\ status[f] = "open"
  /\ <<f, p>> \notin inferred
  /\ inferred' = inferred \cup {<<f, p>>}
  /\ UNCHANGED <<status, up>>

Deliver(f) ==
  /\ status[f] = "open"
  /\ {f} \X Parts \subseteq inferred
  /\ status' = [status EXCEPT ![f] = "delivered"]
  /\ UNCHANGED <<inferred, up>>

Fail(f) ==
  /\ status[f] = "open"
  /\ ({f} \X Parts) \cap inferred = {}
  /\ status' = [status EXCEPT ![f] = "failed"]
  /\ UNCHANGED <<inferred, up>>

Close ==
  /\ up
  /\ \A f \in Frames : status[f] # "open"
  /\ up' = FALSE
  /\ UNCHANGED <<status, inferred>>

Next ==
  \/ \E f \in Frames : Submit(f) \/ Refuse(f) \/ Deliver(f) \/ Fail(f) \/ \E p \in Parts : Infer(f, p)
  \/ Close

Spec == Init /\ [][Next]_vars

\* When no inference fails, every part of an open frame is inferred and the
\* frame is delivered.
Progress ==
  \A f \in Frames : WF_vars(Deliver(f)) /\ \A p \in Parts : WF_vars(Infer(f, p))

LiveSpec == Spec /\ Progress
=============================================================================
