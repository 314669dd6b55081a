----------------------------- MODULE MCGlSearch -----------------------------
(* GlSearch on hosts of three directories, under conf files that include each  *)
(* other in order, in a cycle, too deep, too many, dangling, or not at all, or *)
(* of which the walk drops something, with a warning or without.               *)
EXTENDS GlSearch, TLC

CONSTANTS a, b, c

D(d) == [kind |-> "directory", dir |-> d, absolute |-> TRUE]
Relative(d) == [D(d) EXCEPT !.absolute = FALSE]
I(ns) == [kind |-> "include", match |-> ns, cut |-> {}, fault |-> "none"]
Cut(ns, cut) == [I(ns) EXCEPT !.cut = cut]
Faulty(ns, fault) == [I(ns) EXCEPT !.fault = fault]

Conf(files, listing) == [files |-> files, listing |-> listing, long |-> {}, closed |-> {}]
F2(f, g) == (0 :> f @@ 1 :> g)
F3(f, g, h) == (0 :> f @@ 1 :> g @@ 2 :> h)

\* Conf files of which the walk drops something without a warning.
Silences == {
  Conf(F2(<<Faulty({1}, "no such directory"), D(b)>>, <<D(a)>>), <<1>>),  \* a relative include
  Conf(F3(<<Cut({1, 2}, {1}), Faulty({1}, "no slash")>>, <<D(a)>>, <<D(b)>>), <<2, 1>>),
  [Conf(F3(<<I({1, 2}), Relative(b)>>, <<D(a)>>, <<D(c)>>), <<1, 2>>) EXCEPT !.closed = {1}]}

\* With a warning: a suffix or a name that is too long.
Warnings == {
  Conf(F2(<<Faulty({1}, "long suffix"), D(b)>>, <<D(a)>>), <<1>>),
  [Conf(F3(<<I({1, 2})>>, <<D(a)>>, <<D(b)>>), <<3, 2, 1>>) EXCEPT !.long = {2}]}

Confs == Silences \cup Warnings \cup {
  Conf(<<>>, <<>>),                                          \* musl: no such file
  Conf(F3(<<I({1, 2}), D(c)>>, <<D(a)>>, <<D(b)>>), <<2, 1>>),  \* readdir's order is not the names'
  Conf(F3(<<D(b), I({1, 2})>>, <<D(a)>>, <<D(b)>>), <<1, 2>>),
  Conf(F2(<<I({1}), D(b)>>, <<D(a), I({1})>>), <<1>>),        \* a file that includes itself
  Conf(F2(<<I({1, 3}), D(b)>>, <<D(a)>>), <<3, 1>>),          \* a name without a file
  Conf(F3(<<I({1}), D(c)>>, <<I({2}), D(b)>>, <<D(a)>>), <<2, 1>>),
  Conf(F3(<<I({1, 2, 3})>>, <<D(a)>>, <<D(b)>>), <<2, 3, 1>>),   \* more names than are kept
  Conf(F3(<<I({1, 2}), D(c)>>, <<I({1, 2}), D(a)>>, <<D(b), I({1, 2})>>), <<1, 2>>)}  \* over the budget

ThreeDirs == {a, b, c}
Sonames == [Dirs -> {"absent", "loads", "broken"}]
Vendors == {[d \in Dirs |-> d = e] : e \in Dirs} \cup {[d \in Dirs |-> FALSE]}

AllHosts ==
  {[conf |-> t, want |-> w, env |-> e, fixed |-> <<c>>, bundled |-> bu[1],
    bundle_vendor |-> bu[2], vendor_dir |-> vd, soname |-> s, vendor |-> v] :
     t \in Confs, w \in {"none", "host", "bundled"}, e \in {<<>>, <<b>>},
     bu \in {<<"absent", FALSE>>, <<"loads", FALSE>>, <<"loads", TRUE>>, <<"broken", FALSE>>},
     vd \in BOOLEAN, s \in Sonames, v \in Vendors}
==============================================================================
