---------------------------- MODULE MCDnnSession ----------------------------
(* TLC instance of DnnSession; the constants are set in the .cfg file. *)
EXTENDS DnnSession, TLC

=============================================================================
