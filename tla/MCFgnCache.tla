------------------------------ MODULE MCFgnCache ------------------------------
(* FgnCache on small sets of threads, paths and handles.                     *)
EXTENDS FgnCache
==============================================================================
