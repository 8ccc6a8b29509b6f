--------------------------- MODULE MCCwmpChildren ---------------------------
(* CwmpChildren for TLC; the values of the constants are in the .cfg files. *)
EXTENDS CwmpChildren, TLC
=============================================================================
