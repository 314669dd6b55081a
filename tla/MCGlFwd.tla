------------------------------- MODULE MCGlFwd -------------------------------
(* GlFwd on small sets of threads and entry points.                          *)
EXTENDS GlFwd
==============================================================================
