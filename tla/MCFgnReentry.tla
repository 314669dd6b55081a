---------------------------- MODULE MCFgnReentry ----------------------------
(* FgnReentry with two threads and a table that two files overfill.          *)
EXTENDS FgnReentry
==============================================================================
