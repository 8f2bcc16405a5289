---------------------------- MODULE MCVsrSample ----------------------------
(* TLC instance of VsrSample; the constants are set in the .cfg file. *)
EXTENDS VsrSample, TLC

=============================================================================
