---------------------------- MODULE MCForeignOpen ----------------------------
(* ForeignOpen on small sets of processes and objects.                       *)
EXTENDS ForeignOpen
==============================================================================
