---------------------------- MODULE FrameFilter ----------------------------
(***************************************************************************)
(* What the dnn_processing filter with the ivsr backend promises to the    *)
(* filters around it: frames leave in the order they came, none is left    *)
(* out or sent twice, each is made from the frames its kind of model looks *)
(* at, and at the end of the stream every frame has left.                  *)
(***************************************************************************)
EXTENDS Naturals, Sequences

CONSTANTS
  Kinds,      \* the kinds of models, from "frame", "window" and "group"
  GroupSize   \* frames per inference of a "group" model (nif)

VARIABLES
  kind,    \* the kind of the model
  fed,     \* frames received
  ended,   \* the end of the stream was received
  out,     \* frames sent, with the input frames they were made from
  state    \* "open", "complete" (end of stream sent) or "abandoned"

filterVars == <<kind, fed, ended, out, state>>

(* The input frames frame f should be made from: itself, or for a "window" *)
(* model also its neighbours, the first and last frame standing in for the *)
(* neighbour they lack.                                                     *)
Wanted(f) ==
  IF kind = "window"
    THEN <<IF f = 1 THEN 1 ELSE f - 1, f, IF f = fed THEN f ELSE f + 1>>
    ELSE <<f>>

\* Every frame Wanted(f) speaks of has come.
Known(f) == kind = "window" => f < fed \/ ended

\* Frames sent at a time.
Unit == IF kind = "group" THEN GroupSize ELSE 1

Init ==
  /\ kind \in Kinds
  /\ fed = 0
  /\ ended = FALSE
  /\ out = <<>>
  /\ state = "open"

Feed ==
  /\ state = "open"
  /\ ~ended
  /\ fed' = fed + 1
  /\ UNCHANGED <<kind, ended, out, state>>

End ==
  /\ state = "open"
  /\ ended' = TRUE
  /\ UNCHANGED <<kind, fed, out, state>>

\* What a group's frames are made of is left open.
Answer ==
  /\ state = "open"
  /\ Len(out) + Unit <= fed
  /\ Len(out') = Len(out) + Unit
  /\ \A i \in 1 .. Len(out) : out'[i] = out[i]
  /\ \A f \in Len(out) + 1 .. Len(out) + Unit :
       /\ Known(f)
       /\ out'[f].frame = f
       /\ kind # "group" => out'[f].of = Wanted(f)
  /\ UNCHANGED <<kind, fed, ended, state>>

\* Frames of an incomplete last group never leave.
Close ==
  /\ state = "open"
  /\ ended
  /\ fed < Len(out) + Unit
  /\ state' = "complete"
  /\ UNCHANGED <<kind, fed, ended, out>>

\* An error, or the graph was torn down early.
Abandon ==
  /\ state = "open"
  /\ state' = "abandoned"
  /\ UNCHANGED <<kind, fed, ended, out>>

Next == Feed \/ End \/ Answer \/ Close \/ Abandon

Spec == Init /\ [][Next]_filterVars
============================================================================
