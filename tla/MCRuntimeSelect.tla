--------------------------- MODULE MCRuntimeSelect ---------------------------
(* RuntimeSelect on hosts with two directories of one class and one of another. *)
EXTENDS RuntimeSelect

CONSTANTS d64, e64, d32

MCClass == [d \in Dirs |-> IF d = d32 THEN "32" ELSE "64"]

All(b) == [m \in Members |-> b]
None == All(Absent)

\* The 32-bit directory holds a whole build; the first 64-bit one a whole build, or
\* one with a member of another build, unreadable or gone; ld.so may be in the
\* second, which may also be a whole one that comes too late.
Host(first, second, b) ==
  [d \in Dirs |-> IF d = d64 THEN first ELSE IF d = e64 THEN second ELSE All(b)]
WholeHosts == {Host(All(b), None, 2) : b \in 2 .. 3}
MixedHosts ==
  {Host([All(b) EXCEPT ![m] = f], None, 2) : b \in Builds, f \in Files, m \in Members}
SplitHosts ==
  {Host([All(b) EXCEPT !["ld.so"] = Absent], [None EXCEPT !["ld.so"] = f], 2) :
     b \in Builds, f \in Builds}
  \cup {Host([All(3) EXCEPT !["libdl"] = Absent], All(b), 2) : b \in Builds}
AllHosts == WholeHosts \cup MixedHosts \cup SplitHosts

Config(bundle, search) ==
  [bundle |-> bundle, search |-> search, forced |-> "auto", probe |-> FALSE,
   self_test |-> TRUE]
Usual == Config(All(1), <<d64, e64>>)
Current == Config(All(2), <<d64, e64>>)

SomeConfigs ==
  {Usual, Current, [Usual EXCEPT !.probe = TRUE],
   [Config([All(2) EXCEPT !["libdl"] = Absent], <<d64, e64>>)
      EXCEPT !.forced = "host", !.self_test = FALSE],
   Config(All(1), <<d32>>)}
OneConfig == {Usual}
==============================================================================
