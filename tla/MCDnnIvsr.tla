----------------------------- MODULE MCDnnIvsr -----------------------------
(* TLC instance of DnnIvsr; the constants are set in the .cfg files. *)
EXTENDS DnnIvsr, TLC

============================================================================
