--------------------------- MODULE MCVersionCompat ---------------------------
(* VersionCompat on libcs that define each name at one, two or no versions.   *)
EXTENDS VersionCompat

CONSTANTS s1, s2

Null0 == [name |-> NoName, defined |-> FALSE, hidden |-> FALSE, ndx |-> 0]
Import(s) == [Null0 EXCEPT !.name = s]
Def(s, h, n) == [name |-> s, defined |-> TRUE, hidden |-> h, ndx |-> n]

\* The symbols of a name: an obsolete base version beside the default, before
\* or after it; two versions younger than the base; one version, or none named;
\* not there.
Shapes(s) == {<<Def(s, TRUE, 2), Def(s, FALSE, 3)>>, <<Def(s, FALSE, 3), Def(s, TRUE, 2)>>,
              <<Def(s, TRUE, 3), Def(s, FALSE, 4)>>,
              <<Def(s, FALSE, 2)>>, <<Def(s, FALSE, 1)>>, <<>>}

VersionNames == <<"base", "v2", "v3", "v4">>
Verdef(cut) == [i \in 1 .. 4 |-> [ndx |-> i, name |-> VersionNames[i], whole |-> i < cut]]

Syms(a, b) == <<Null0, Import(s1)>> \o a \o b

\* Files: as linked, not parsed, without DT_VERSYM, with a table of versions that
\* is cut off, with a symbol table that runs out of the file.
File(new, a, b, faults, vs, cut, short) ==
  LET n == Len(Syms(a, b))
  IN  [newest |-> new, faults |-> faults, nchain |-> 0, room |-> n - short,
       gnu |-> [symoffset |-> 2, starts |-> {0, 2}, ends |-> {n - 1}, words |-> n],
       syms |-> Syms(a, b), versym |-> vs, verdef |-> Verdef(cut)]

Damage == {<<{}, TRUE, 5, 0>>, <<{"not_ours"}, TRUE, 5, 0>>, <<{}, FALSE, 5, 0>>,
           <<{}, TRUE, 3, 0>>, <<{}, TRUE, 5, 1>>}

\* At least one of the names is there: a libc without both has no hashed symbol.
AllLibcs ==
  {File(new, a, b, d[1], d[2], d[3], d[4]) :
     new \in BOOLEAN, a \in Shapes(s1), b \in Shapes(s2) \ {<<>>}, d \in Damage}
==============================================================================
