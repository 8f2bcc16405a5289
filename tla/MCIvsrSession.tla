--------------------------- MODULE MCIvsrSession ---------------------------
(* TLC instances of IvsrSession.  The runs set the constants in their .cfg *)
(* files: two patches for the patch solution, one for whole frames.        *)
EXTENDS IvsrSession, TLC

=============================================================================
