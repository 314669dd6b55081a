------------------------------ MODULE MCFgnWalk ------------------------------
(* FgnWalk on hosts of three libraries a, b and c (and m, a core one).        *)
EXTENDS FgnWalk

CONSTANTS a, b, c, m

Libs == {a, b, c}
Lists(s) == {<<>>} \cup {<<d>> : d \in Libs \ {s}}
              \cup {<<p[1], p[2]>> : p \in {q \in (Libs \ {s}) \X (Libs \ {s}) : q[1] # q[2]}}

\* What each library needs: c, the third, needs nothing or closes a cycle, and m
\* is named by a alone.
Graphs ==
  {[s \in Sonames |-> CASE s = a -> na [] s = b -> nb [] s = c -> nc [] OTHER -> <<>>] :
     na \in Lists(a) \cup {<<m, b>>}, nb \in Lists(b), nc \in {<<>>, <<a>>}}

Plain(g) ==
  [musl |-> {}, needs |-> g, newer |-> {}, wants |-> [s \in Sonames |-> {}],
   bundled |-> {}, spoiled |-> {}, outdated |-> {}, installed |-> Sonames, searched |-> Sonames,
   home |-> [s \in Sonames |-> "lib"], broken |-> {}, opaque |-> {}, dryrun |-> FALSE]

Wants(g) == [s \in Sonames |-> Range(g[s]) \cap Libs]

\* glibc hosts: which libraries are too new, and what the bundle has.
GlibcWorlds ==
  {[Plain(g) EXCEPT !.newer = n, !.wants = Wants(g), !.bundled = u[1], !.outdated = u[2]] :
     g \in Graphs, n \in SUBSET {b, c}, u \in {<<{}, {}>>, <<{c}, {}>>, <<{c}, {c}>>}}

\* musl hosts: m is part of libc there; ld.so's search may reach the host's libc.
OnMusl(w, libs) ==
  [w EXCEPT !.musl = libs, !.installed = Libs, !.searched = Libs \cup {Musl}]
MuslWorlds ==
  {[OnMusl(Plain(g), Libs) EXCEPT !.bundled = u, !.broken = r, !.home[b] = h] :
     g \in {f \in Graphs : m \notin Range(f[a])},
     u \in {{}, {c}}, r \in {{}, {b}}, h \in {"lib", "drivers"}}

\* The smaller graphs: c needs nothing.
Some == {f \in Graphs : Len(f[c]) = 0 /\ m \notin Range(f[a])}

\* Hosts on which some libraries name musl's libc and others, built against
\* glibc or needing no libc, do not; m is the process's own.
MixedWorlds ==
  {[Plain(g) EXCEPT !.musl = l, !.searched = Sonames \cup {Musl}, !.bundled = u] :
     g \in {f \in Graphs : Len(f[c]) = 0}, l \in SUBSET Libs \ {{}, Libs}, u \in {{}, {c}}}

\* A bundled file that does not load; ld.so's search ends there, or passes it by.
SpoiledWorlds ==
  {[Plain(g) EXCEPT !.newer = n, !.wants = Wants(g), !.bundled = {c}, !.spoiled = {c},
                    !.outdated = o, !.searched = r] :
     g \in Some, n \in {{}, {c}}, o \in {{}, {c}}, r \in {Sonames, Sonames \ {c}}}
  \cup {[OnMusl(Plain(g), Libs) EXCEPT !.bundled = {b, c}, !.spoiled = {c}] : g \in Some}

\* Files out of ld.so's reach, files that do not parse, dry runs, and musl hosts
\* that lack c.
OddWorlds ==
  {[Plain(g) EXCEPT !.newer = n, !.searched = {a}, !.home[c] = h] :
     g \in Some, n \in SUBSET {b, c}, h \in {"lib", "drivers"}}
  \cup {[Plain(g) EXCEPT !.newer = n, !.opaque = {b}] : g \in Some, n \in SUBSET {b, c}}
  \cup {[Plain(g) EXCEPT !.newer = n, !.dryrun = TRUE] : g \in Some, n \in SUBSET {b, c}}
  \cup {[OnMusl(Plain(g), Libs) EXCEPT !.dryrun = TRUE] : g \in Some}
  \cup {[OnMusl(Plain(g), Libs) EXCEPT !.installed = {a, b}, !.searched = {a, b, Musl}] : g \in Some}

AllWorlds == GlibcWorlds \cup MuslWorlds \cup MixedWorlds \cup SpoiledWorlds \cup OddWorlds
==============================================================================
