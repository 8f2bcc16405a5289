---------------------------- MODULE MCSmartPatch ----------------------------
(* TLC instances of SmartPatch: every frame of up to MaxSize pixels a side *)
(* with every patch size below it, for a few scales and numbers of planes. *)
EXTENDS SmartPatch

CONSTANTS MaxSize, Scales, Planes, Dims

MCFrames ==
  {f \in [h : 2 .. MaxSize, w : 2 .. MaxSize, ph : 1 .. MaxSize, pw : 2 .. MaxSize,
          scale : Scales, planes : Planes, dims : Dims] : f.ph < f.h /\ f.pw < f.w}
=============================================================================
