---------------------------- MODULE FgnWalkProofs ----------------------------
(***************************************************************************)
(* fgn_load over a closure, for any libraries, any host (any worlds of     *)
(* WorldType), any depth of the stack and any number of opens: the bundle  *)
(* beats the host, kept answers agree with ld.so, a host without cycles    *)
(* gets no library twice, one refusal is overcome, musl's libc stays out.  *)
(*                                                                         *)
(* What ld.so loads with an object is defined by recursion over the edges. *)
(* A set that holds the root, and whatever answers to a name that one of   *)
(* its members needs, holds all of it (ClosureWithin, by the least number  *)
(* of edges at which that would fail); every fact about a load below is an *)
(* instance with some such set.                                            *)
(***************************************************************************)
EXTENDS FgnWalk, FiniteSetTheorems, WellFoundedInduction, TLAPS

------------------------------------------------------------------------------
(* What ld.so loads with an object, by induction over the edges.           *)

Names == Sonames \cup {Musl}
Objects == Names \X (Where \cup {"missing"})
Deepest == Cardinality(Sonames) + 2

LEMMA Least ==
  ASSUME NEW T \in SUBSET Nat, T # {}
  PROVE  \E x \in T : \A y \in T : x <= y
<1>1. PICK x \in T : \A y \in T : <<y, x>> \notin OpToRel(<, Nat)
  BY NatLessThanWellFounded, WFMin
<1>2. \A y \in T : ~(y < x)
  BY <1>1 DEF OpToRel
<1> QED BY <1>2

LEMMA DeepestIsNat == Deepest \in Nat
BY FS_CardinalityType, SonamesAssumption DEF Deepest

\* The recursion that defines Reach has a solution, so Reach is one.
LEMMA ReachUnfolds ==
  ASSUME NEW root
  PROVE  Reach(root) = [n \in 0 .. Deepest |->
                          IF n = 0 THEN {root} ELSE Spread(root, Reach(root)[n-1])]
<1> DEFINE Is(k, f) == f = [n \in 0 .. k |-> IF n = 0 THEN {root} ELSE Spread(root, f[n-1])]
           Bad == {k \in Nat : ~\E f : Is(k, f)}
<1>1. ASSUME Bad # {} PROVE FALSE
  <2>1. PICK k \in Bad : \A j \in Bad : k <= j
    BY <1>1, Least
  <2>2. CASE k = 0
    <3> DEFINE f == [n \in 0 .. 0 |-> {root}]
    <3>1. f = [n \in 0 .. 0 |-> IF n = 0 THEN {root} ELSE Spread(root, f[n-1])]
      OBVIOUS
    <3>2. Is(k, f)
      BY <3>1, <2>2
    <3> HIDE DEF f, Is
    <3> QED BY <2>1, <3>2
  <2>3. CASE k # 0
    <3>1. k \in Nat
      OBVIOUS
    <3> HIDE DEF Bad
    <3>2. k - 1 \in Nat /\ k - 1 \notin Bad
      BY <2>1, <2>3, <3>1
    <3>3. PICK g : Is(k - 1, g)
      BY <3>2 DEF Bad
    <3> DEFINE f == [n \in 0 .. k |-> IF n = k THEN Spread(root, g[k-1]) ELSE g[n]]
    <3>4. \A n \in 0 .. k : f[n] = IF n = 0 THEN {root} ELSE Spread(root, f[n-1])
      <4> TAKE n \in 0 .. k
      <4>1. CASE n = k
        BY <4>1, <2>3, <3>1, <3>2
      <4>2. CASE n # k
        <5>1. n \in 0 .. k-1
          BY <4>2, <3>1
        <5>2. g[n] = IF n = 0 THEN {root} ELSE Spread(root, g[n-1])
          BY <3>3, <5>1
        <5>3. n # 0 => n - 1 \in 0 .. k /\ n - 1 # k
          BY <5>1, <3>1
        <5> QED BY <5>2, <5>3, <4>2
      <4> QED BY <4>1, <4>2
    <3>5. Is(k, f)
      BY <3>4
    <3> QED BY <2>1, <3>5 DEF Bad
  <2> QED BY <2>2, <2>3
<1>2. PICK f : Is(Deepest, f)
  BY <1>1, DeepestIsNat
<1> QED BY <1>2 DEF Reach, Deepest

\* What holds of the root, and of whatever answers to a name that one of them
\* needs, holds of everything that is loaded with it.
LEMMA ClosureWithin ==
  ASSUME NEW root, NEW S, root \in S,
         \A o \in S \ loaded : \A s \in Needed(o) : Found(s, root) \in S
  PROVE  Closure(root) \subseteq S
<1>1. \A X \in SUBSET S : Spread(root, X) \subseteq S
  BY DEF Spread, Brings
<1> DEFINE Bad == {n \in Nat : n <= Deepest /\ ~(Reach(root)[n] \subseteq S)}
<1>2. ASSUME Bad # {} PROVE FALSE
  <2>1. PICK k \in Bad : \A j \in Bad : k <= j
    BY <1>2, Least
  <2>2. k \in Nat /\ k <= Deepest /\ ~(Reach(root)[k] \subseteq S)
    OBVIOUS
  <2> HIDE DEF Bad
  <2>3. Reach(root)[k] = IF k = 0 THEN {root} ELSE Spread(root, Reach(root)[k-1])
    <3>1. k \in 0 .. Deepest
      BY <2>2, DeepestIsNat
    <3> QED BY <3>1, ReachUnfolds
  <2>4. k # 0
    BY <2>2, <2>3
  <2>5. k - 1 \in Nat /\ k - 1 <= Deepest /\ k - 1 \notin Bad
    BY <2>1, <2>2, <2>4, DeepestIsNat
  <2>6. Reach(root)[k-1] \subseteq S
    BY <2>5 DEF Bad
  <2> QED BY <1>1, <2>2, <2>3, <2>4, <2>6
<1>3. Deepest \in Nat /\ Deepest \notin Bad
  BY <1>2, DeepestIsNat
<1> QED BY <1>3, DeepestIsNat DEF Closure, Deepest

------------------------------------------------------------------------------
(* What answers to a name.                                                 *)

\* Only the bundle has bundled files, and under a name that it can serve there
\* is a file of the host only if the program opened it.
Placed(o) ==
  /\ o[2] = "app" => o[1] \in Bundle
  /\ o[1] \in Bundle /\ o[2] # "app" => o[1] \in opened

Absent(s) == \A o \in loaded : o[1] # s

\* Who has a name that is in the process.
FirstIs ==
  \A s \in Names : IF first[s] = None THEN Absent(s) ELSE <<s, first[s]>> \in loaded

WellPlaced == FirstIs /\ \A o \in loaded : Placed(o)

LEMMA WorldIs ==
  ASSUME TypeOK
  PROVE  /\ \A s \in Sonames : world.needs[s] \in Seq(Sonames)
         /\ \A s \in Sonames : Range(world.needs[s]) \subseteq Sonames
         /\ Bundle \subseteq Sonames /\ Bundle \subseteq world.bundled
         /\ world.outdated \subseteq Sonames /\ world.musl \subseteq Sonames
         /\ Musl \notin Bundle
         /\ \A s \in Sonames : world.wants[s] \subseteq Sonames
<1>1. world \in WorldType
  BY DEF TypeOK
<1>2. world.needs \in [Sonames -> Seq(Sonames)] /\ world.wants \in [Sonames -> SUBSET Sonames]
      /\ world.bundled \subseteq Sonames /\ world.outdated \subseteq Sonames
      /\ world.musl \subseteq Sonames
  BY <1>1 DEF WorldType
<1>3. \A s \in Sonames : Range(world.needs[s]) \subseteq Sonames
  BY <1>2 DEF Range
<1> QED BY <1>2, <1>3, SonamesAssumption DEF Bundle

LEMMA LoadedIs == TypeOK => loaded \subseteq Objects
BY DEF TypeOK, Objects, Names, Where

LEMMA NeededIs ==
  ASSUME TypeOK, NEW o \in Objects
  PROVE  /\ Needed(o) \subseteq Names
         /\ \A s \in Needed(o) : /\ o[1] \in Sonames
                                 /\ s = Musl \/ s \in Range(world.needs[o[1]])
<1>1. o[1] \in Names /\ o[2] \in {"app", "host", "copy", "missing"}
  BY DEF Objects, Where
<1>2. CASE o[1] = Musl \/ o[2] \in {"app", "missing"}
  BY <1>2 DEF Needed
<1>3. CASE o[1] # Musl /\ o[2] = "copy"
  <2>1. Needed(o) = Range(world.needs[o[1]]) /\ o[1] \in Sonames
    BY <1>1, <1>3 DEF Needed, Names
  <2> QED BY <2>1, WorldIs DEF Names
<1>4. CASE o[1] # Musl /\ o[2] = "host"
  <2>1. Needed(o) \subseteq Range(world.needs[o[1]]) \cup {Musl} /\ o[1] \in Sonames
    BY <1>1, <1>4 DEF Needed, Names
  <2> QED BY <2>1, WorldIs DEF Names
<1> QED BY <1>1, <1>2, <1>3, <1>4

LEMMA FoundIs ==
  ASSUME TypeOK, WellPlaced, NEW root, NEW s \in Names
  PROVE  \/ Found(s, root) \in loaded /\ Found(s, root)[1] = s
         \/ Absent(s) /\ s = root[1] /\ Found(s, root) = root
         \/ /\ s # root[1] /\ Absent(s)
            /\ \E w \in {"app", "host", "missing"} : Found(s, root) = <<s, w>>
            /\ Found(s, root) \in Objects /\ Placed(Found(s, root))
            /\ Found(s, root)[1] = s
<1>1. CASE first[s] # None
  BY <1>1 DEF Found, WellPlaced, FirstIs
<1>2. CASE first[s] = None
  <2>1. Absent(s)
    BY <1>2 DEF WellPlaced, FirstIs
  <2>2. CASE s = root[1]
    BY <1>2, <2>1, <2>2 DEF Found
  <2>3. CASE s # root[1]
    <3>1. PICK w \in {"app", "host", "missing"} :
            Found(s, root) = <<s, w>> /\ (w = "app" <=> s \in Bundle)
      BY <1>2, <2>3 DEF Found
    <3> QED BY <2>1, <2>3, <3>1 DEF Placed, Objects, Where
  <2> QED BY <2>2, <2>3
<1> QED BY <1>1, <1>2

LEMMA FoundInObjects ==
  ASSUME TypeOK, WellPlaced, NEW root \in Objects, Placed(root), NEW s \in Names
  PROVE  /\ Found(s, root) \in Objects /\ Found(s, root)[1] = s
         /\ Placed(Found(s, root))
         /\ Found(s, root)[2] # "copy" \/ Found(s, root) \in loaded \cup {root}
<1>1. CASE Found(s, root) \in loaded /\ Found(s, root)[1] = s
  BY <1>1, LoadedIs DEF WellPlaced
<1> QED BY <1>1, FoundIs

\* What ld.so loads with an object: one object for each name, itself aside.
LEMMA ClosureIs ==
  ASSUME TypeOK, WellPlaced, NEW root \in Objects, Placed(root)
  PROVE  \A o \in Closure(root) : /\ o \in Objects /\ Placed(o)
                                  /\ o = root \/ o = Found(o[1], root)
                                  /\ o[2] # "copy" \/ o \in loaded \cup {root}
<1> DEFINE S == {o \in Objects : /\ Placed(o) /\ (o = root \/ o = Found(o[1], root))
                                 /\ o[2] # "copy" \/ o \in loaded \cup {root}}
<1>1. root \in S
  OBVIOUS
<1>2. \A o \in S \ loaded : \A s \in Needed(o) : Found(s, root) \in S
  <2> TAKE o \in S \ loaded
  <2> TAKE s \in Needed(o)
  <2>1. s \in Names
    BY NeededIs
  <2> QED BY <2>1, FoundInObjects
<1> QED BY <1>1, <1>2, ClosureWithin

\* A closure that loads is all there, and stays well placed.
LEMMA LoadedClosure ==
  ASSUME TypeOK, WellPlaced, NEW root \in Objects, Placed(root), Loads(root)
  PROVE  /\ Closure(root) \subseteq Names \X Where
         /\ \A o \in Closure(root) : Placed(o)
<1>1. \A o \in Closure(root) : o \in Objects /\ Placed(o) /\ o[2] # "missing"
  BY ClosureIs DEF Loads, Missing
<1> QED BY <1>1 DEF Objects

------------------------------------------------------------------------------
(* The walk's own state.                                                   *)

Frames == [file : Sonames, next : Nat \ {0}]
Handles == {"host", "copy", None}

\* What may be loaded as the host's: what the bundle cannot serve, or the program
\* has opened.
Walkable == (Sonames \ Bundle) \cup opened

HostsAreWalked ==
  /\ call # None => call \in Walkable
  /\ \A i \in DOMAIN stack : stack[i].file \in Walkable

\* What the provider table says of a bundled library is so.
ProvidedIsTrue ==
  \A d \in DOMAIN provided : provided[d] /\ d \in world.bundled => d \notin world.outdated

WalkInv == TypeOK /\ WellPlaced /\ HostsAreWalked /\ ProvidedIsTrue

LEMMA TopIs ==
  ASSUME TypeOK, stack # <<>>
  PROVE  /\ stack \in Seq(Frames) /\ 1 \in DOMAIN stack /\ Head(stack) = stack[1]
         /\ Head(stack) \in Frames /\ file \in Sonames /\ next \in Nat \ {0}
<1>1. stack \in Seq(Frames)
  BY DEF TypeOK, Frames
<1>2. Head(stack) \in Frames /\ Head(stack) = stack[1] /\ 1 \in DOMAIN stack
  BY <1>1
<1> QED BY <1>1, <1>2 DEF Frames, file, next

LEMMA NeedIs ==
  ASSUME TypeOK, AtNeed
  PROVE  /\ stack # <<>> /\ call = None /\ file \in Sonames
         /\ need \in Sonames /\ need \in Range(world.needs[file])
<1>1. stack # <<>> /\ call = None /\ next <= Len(world.needs[file])
  BY DEF AtNeed
<1>2. file \in Sonames /\ next \in Nat \ {0}
  BY <1>1, TopIs
<1>3. world.needs[file] \in Seq(Sonames)
  BY <1>2, WorldIs
<1>4. next \in DOMAIN world.needs[file]
  BY <1>1, <1>2, <1>3
<1>5. need \in Range(world.needs[file])
  BY <1>4 DEF need, Range
<1> QED BY <1>1, <1>2, <1>5, WorldIs

\* A turn of the loop changes no frame's library.
LEMMA NextNeedIs ==
  ASSUME TypeOK, stack # <<>>, NextNeed
  PROVE  /\ stack' \in Seq(Frames) /\ DOMAIN stack' = DOMAIN stack /\ stack' # <<>>
         /\ \A i \in DOMAIN stack : stack'[i].file = stack[i].file
<1>1. stack \in Seq(Frames) /\ 1 \in DOMAIN stack /\ stack[1] \in Frames
  BY TopIs
<1>2. stack' = [stack EXCEPT ![1] = [stack[1] EXCEPT !.next = @ + 1]]
  BY <1>1 DEF NextNeed
<1>3. [stack[1] EXCEPT !.next = @ + 1] \in Frames
      /\ [stack[1] EXCEPT !.next = @ + 1].file = stack[1].file
  BY <1>1 DEF Frames
<1> QED BY <1>1, <1>2, <1>3

LEMMA FrameEnds ==
  ASSUME TypeOK, stack # <<>>, stack' = Tail(stack)
  PROVE  /\ stack' \in Seq(Frames)
         /\ \A i \in DOMAIN stack' : i + 1 \in DOMAIN stack /\ stack'[i] = stack[i + 1]
<1>1. stack \in Seq(Frames)
  BY TopIs
<1> QED BY <1>1

\* What ld.so's search finds for a dependency that the bundle has not.
LEMMA ByNameIs ==
  ASSUME TypeOK, WellPlaced, AtHostNeed
  PROVE  /\ byName \in Objects /\ byName[1] = need /\ Placed(byName)
         /\ byName \in loaded \/ (Absent(need) /\ byName[2] # "copy")
<1>1. need \in Names /\ need # None
  BY NeedIs, NoneAssumption DEF AtHostNeed, Names
<1>2. <<None, "host">>[1] = None
  OBVIOUS
<1>3. CASE byName \in loaded /\ byName[1] = need
  BY <1>3, LoadedIs DEF WellPlaced
<1>4. CASE /\ Absent(need) /\ byName \in Objects /\ Placed(byName) /\ byName[1] = need
           /\ \E w \in {"app", "host", "missing"} : byName = <<need, w>>
  BY <1>4
<1> QED BY <1>1, <1>2, <1>3, <1>4, FoundIs DEF byName

\* Whom a refusal names: a library of the host in that closure.
LEMMA BlamedIs ==
  ASSUME TypeOK, WellPlaced, AtHostNeed, NEW o \in Blamed(byName)
  PROVE  /\ o \in Closure(byName) /\ o \in Objects /\ Placed(o)
         /\ o[1] \in Walkable /\ o[1] \in Sonames
<1>1. o \in Refusing(byName)
  BY DEF Blamed
<1>2. o \in Closure(byName) /\ o[2] = "host" /\ o[1] # Musl
  BY <1>1 DEF Refusing, Refuses
<1>3. o \in Objects /\ Placed(o)
  BY <1>2, ByNameIs, ClosureIs
<1> QED BY <1>2, <1>3 DEF Placed, Objects, Names, Walkable

LEMMA ProvidesIs ==
  ASSUME WalkInv, NEW d
  PROVE  /\ Provides(d) \in BOOLEAN
         /\ Provides(d) /\ d \in world.bundled => d \notin world.outdated
<1>1. CASE d \in DOMAIN provided
  <2>1. provided[d] \in BOOLEAN
    BY <1>1 DEF WalkInv, TypeOK, Range
  <2> QED BY <1>1, <2>1 DEF Provides, WalkInv, ProvidedIsTrue
<1>2. CASE d \notin DOMAIN provided
  <2>1. CASE d \in world.bundled
    <3>1. Provides(d) = (d \notin world.outdated)
      BY <1>2, <2>1 DEF Provides
    <3>2. (d \notin world.outdated) \in BOOLEAN
      OBVIOUS
    <3> QED BY <3>1, <3>2
  <2>2. CASE d \notin world.bundled
    <3>1. Provides(d) = (<<d, "host">> \in loaded)
      BY <1>2, <2>2 DEF Provides
    <3>2. (<<d, "host">> \in loaded) \in BOOLEAN
      OBVIOUS
    <3> QED BY <2>2, <3>1, <3>2
  <2> QED BY <2>1, <2>2
<1> QED BY <1>1, <1>2

LEMMA AskedIs ==
  ASSUME WalkInv, NEW asked \in SUBSET Sonames, Asked(asked), world' = world
  PROVE  /\ DOMAIN provided' \subseteq Sonames /\ Range(provided)' \subseteq BOOLEAN
         /\ ProvidedIsTrue'
<1>1. DOMAIN provided \subseteq Sonames
  BY DEF WalkInv, TypeOK
<1>2. provided' = [d \in DOMAIN provided \cup asked |-> Provides(d)]
  BY DEF Asked
<1> QED BY <1>1, <1>2, ProvidesIs DEF ProvidedIsTrue, Range

\* How a step changes what is in the process.
Loading ==
  \/ UNCHANGED <<loaded, first>>
  \/ \E S \in SUBSET (Names \X Where) : Add(S) /\ \A o \in S : Placed(o)

LEMMA AddLoads == \A S : Add(S) => loaded' = loaded \cup S
BY DEF Add

LEMMA AddIs ==
  ASSUME TypeOK, FirstIs, NEW S \in SUBSET (Names \X Where), Add(S)
  PROVE  /\ loaded' = loaded \cup S /\ loaded' \subseteq Names \X Where
         /\ first' \in [Names -> Where \cup {None}]
         /\ FirstIs'
<1>1. loaded' = loaded \cup S /\ loaded' \subseteq Names \X Where
  BY DEF Add, TypeOK, Names
<1>2. first \in [Names -> Where \cup {None}]
  BY DEF TypeOK, Names
<1>3. first' = [s \in Names |->
                  IF first[s] = None /\ \E o \in loaded' : o[1] = s
                    THEN (CHOOSE o \in loaded' : o[1] = s)[2] ELSE first[s]]
  BY DEF Add, Names
<1>4. ASSUME NEW s \in Names
      PROVE  /\ first'[s] \in Where \cup {None}
             /\ IF first'[s] = None THEN Absent(s)' ELSE <<s, first'[s]>> \in loaded'
  <2>1. CASE first[s] = None /\ \E o \in loaded' : o[1] = s
    <3> DEFINE p == CHOOSE o \in loaded' : o[1] = s
    <3>1. p \in loaded' /\ p[1] = s
      BY <2>1
    <3>2. first'[s] = p[2]
      BY <1>3, <2>1
    <3> HIDE DEF p
    <3>3. p = <<s, p[2]>> /\ p[2] \in Where
      BY <1>1, <3>1
    <3> QED BY <3>1, <3>2, <3>3, NoneAssumption
  <2>2. CASE first[s] = None /\ ~\E o \in loaded' : o[1] = s
    BY <1>3, <2>2 DEF Absent
  <2>3. CASE first[s] # None
    <3>1. first'[s] = first[s]
      BY <1>3, <2>3
    <3> QED BY <1>1, <1>2, <2>3, <3>1 DEF FirstIs
  <2> QED BY <2>1, <2>2, <2>3
<1>5. first' \in [Names -> Where \cup {None}]
  <2>1. first' = [s \in Names |-> first'[s]]
    BY <1>3
  <2> QED BY <1>4, <2>1
<1> QED BY <1>1, <1>4, <1>5 DEF FirstIs

LEMMA LoadingIs ==
  ASSUME TypeOK, WellPlaced, Loading
  PROVE  /\ loaded' \subseteq Names \X Where /\ loaded \subseteq loaded'
         /\ first' \in [Names -> Where \cup {None}]
         /\ FirstIs' /\ \A o \in loaded' : Placed(o)
<1>1. CASE UNCHANGED <<loaded, first>>
  BY <1>1 DEF TypeOK, Names, WellPlaced, FirstIs, Absent
<1>2. CASE \E S \in SUBSET (Names \X Where) : Add(S) /\ \A o \in S : Placed(o)
  BY <1>2, AddIs DEF WellPlaced
<1> QED BY <1>1, <1>2 DEF Loading

\* What a step must leave as it should be.
LEMMA WalkGoesOn ==
  ASSUME WalkInv, world' = world, Loading, opened \subseteq opened', opened' \subseteq Sonames,
         cache' \in [Sonames -> Handles], result' \in Handles, opens' \in 0 .. MaxOpens,
         provided' = provided
           \/ \E asked \in SUBSET Sonames : Asked(asked),
         call' \in Walkable' \cup {None},
         stack' \in Seq(Frames), \A i \in DOMAIN stack' : stack'[i].file \in Walkable
  PROVE  WalkInv'
<1>1. /\ DOMAIN provided' \subseteq Sonames /\ Range(provided)' \subseteq BOOLEAN
      /\ ProvidedIsTrue'
  <2>1. CASE provided' = provided
    BY <2>1 DEF WalkInv, TypeOK, ProvidedIsTrue, Range
  <2>2. CASE \E asked \in SUBSET Sonames : Asked(asked)
    BY <2>2, AskedIs
  <2> QED BY <2>1, <2>2
<1>2. /\ loaded' \subseteq Names \X Where /\ first' \in [Names -> Where \cup {None}]
      /\ FirstIs' /\ \A o \in loaded' : Placed(o)
  BY LoadingIs DEF WalkInv
<1>3. Bundle' = Bundle /\ Walkable \subseteq Walkable' /\ Walkable' \subseteq Sonames
  BY DEF Bundle, Walkable
<1>4. TypeOK'
  <2>1. call' \in Sonames \cup {None}
    BY <1>3
  <2> QED BY <1>1, <1>2, <2>1 DEF WalkInv, TypeOK, Names, Handles, Frames
<1>5. WellPlaced'
  BY <1>2, <1>3 DEF WellPlaced, Placed
<1>6. HostsAreWalked'
  BY <1>3 DEF HostsAreWalked
<1> QED BY <1>1, <1>4, <1>5, <1>6 DEF WalkInv

LEMMA WalkIs ==
  ASSUME WalkInv
  PROVE  /\ TypeOK /\ WellPlaced /\ FirstIs
         /\ loaded \subseteq Names \X Where /\ \A o \in loaded : Placed(o)
         /\ cache \in [Sonames -> Handles] /\ result \in Handles
         /\ opens \in 0 .. MaxOpens /\ call \in Walkable \cup {None}
         /\ opened \subseteq Sonames /\ Walkable \subseteq Sonames
         /\ stack \in Seq(Frames)
         /\ \A i \in DOMAIN stack : stack[i].file \in Walkable
BY DEF WalkInv, TypeOK, WellPlaced, HostsAreWalked, Names, Handles, Frames, Walkable

\* Objects that a library outside the bundle is loaded from.
LEMMA HostRoot ==
  ASSUME WalkInv, NEW s \in Walkable, NEW w \in {"host", "copy"}
  PROVE  <<s, w>> \in Objects /\ Placed(<<s, w>>)
BY WalkIs DEF Objects, Names, Where, Placed, Walkable

LEMMA ReturnSteps ==
  ASSUME WalkInv, TooDeep \/ Cached \/ AlreadyOpen \/ Cycle
  PROVE  WalkInv'
<1>1. /\ UNCHANGED <<world, loaded, first, cache, provided, stack, opens, opened>>
      /\ call' = None
  BY DEF TooDeep, Cached, AlreadyOpen, Cycle, Return
<1>2. call \in Sonames
  BY WalkIs DEF TooDeep, Cached, AlreadyOpen, Cycle, Unopened
<1>3. result' \in Handles
  BY <1>2, WalkIs DEF TooDeep, Cached, AlreadyOpen, Cycle, Return, Handles
<1> QED BY <1>1, <1>3, WalkIs, WalkGoesOn DEF Loading

LEMMA AsIsSteps ==
  ASSUME WalkInv, OpenCore \/ OpenOpaque
  PROVE  WalkInv'
<1>1. UNCHANGED <<world, cache, provided, stack, opens, opened>> /\ LoadAsIs(call)
  BY DEF OpenCore, OpenOpaque
<1>2. call \in Walkable
  BY WalkIs DEF OpenCore, OpenOpaque, Unopened
<1> DEFINE o == <<call, "host">>
           S == IF Loads(o) THEN Closure(o) ELSE {}
<1>3. o \in Objects /\ Placed(o)
  BY <1>2, HostRoot
<1>4. call' = None /\ result' \in Handles /\ Add(S)
  BY <1>1 DEF LoadAsIs, Return, Handles
<1>5. S \subseteq Names \X Where /\ \A q \in S : Placed(q)
  BY <1>3, WalkIs, LoadedClosure
<1> HIDE DEF S
<1>6. Loading
  BY <1>4, <1>5 DEF Loading
<1> QED BY <1>1, <1>4, <1>6, WalkIs, WalkGoesOn

LEMMA DescendStep ==
  ASSUME WalkInv, Descend
  PROVE  WalkInv'
<1>1. /\ UNCHANGED <<world, loaded, first, cache, provided, result, opens, opened>>
      /\ call' = None /\ stack' = <<[file |-> call, next |-> 1]>> \o stack
  BY DEF Descend
<1>2. call \in Walkable /\ call \in Sonames /\ stack \in Seq(Frames)
  BY WalkIs DEF Descend, Unopened
<1>3. [file |-> call, next |-> 1] \in Frames
  BY <1>2 DEF Frames
<1>4. /\ stack' \in Seq(Frames)
      /\ \A i \in DOMAIN stack' : IF i = 1 THEN stack'[i].file = call
                                  ELSE i - 1 \in DOMAIN stack /\ stack'[i] = stack[i-1]
  BY <1>1, <1>2, <1>3
<1>5. \A i \in DOMAIN stack' : stack'[i].file \in Walkable
  BY <1>2, <1>4, WalkIs
<1> QED BY <1>1, <1>4, <1>5, WalkIs, WalkGoesOn DEF Loading

LEMMA NeedSteps ==
  ASSUME WalkInv, SkipCore \/ TakeBundled \/ Probe \/ Harvest \/ Hunt \/ NotFound
  PROVE  WalkInv'
<1>1. UNCHANGED <<world, cache, provided, result, opens, opened>> /\ NextNeed /\ AtNeed
  BY DEF SkipCore, TakeBundled, Probe, Harvest, Hunt, NotFound, Hunts, AtHostNeed
<1>2. need \in Sonames /\ stack # <<>> /\ call = None
  BY <1>1, WalkIs, NeedIs
<1>3. stack' \in Seq(Frames) /\ \A i \in DOMAIN stack' : stack'[i].file \in Walkable
  BY <1>1, <1>2, WalkIs, NextNeedIs
<1>4. Loading
  <2>1. CASE TakeBundled
    <3>1. <<need, "app">> \in Names \X Where /\ Placed(<<need, "app">>)
      BY <1>2, <2>1 DEF TakeBundled, Names, Where, Placed
    <3> QED BY <2>1, <3>1 DEF TakeBundled, Loading
  <2>2. CASE Probe
    <3>1. Closure(byName) \subseteq Names \X Where /\ \A o \in Closure(byName) : Placed(o)
      BY <2>2, WalkIs, ByNameIs, LoadedClosure DEF Probe
    <3> QED BY <2>2, <3>1 DEF Probe, Loading
  <2>3. CASE SkipCore \/ Harvest \/ Hunt \/ NotFound
    BY <2>3 DEF SkipCore, Harvest, Hunt, NotFound, Loading
  <2> QED BY <2>1, <2>2, <2>3
<1>5. call' \in Walkable \cup {None}
  <2>1. CASE Harvest
    BY <2>1, WalkIs, BlamedIs DEF Harvest
  <2>2. CASE Hunt
    BY <1>2, <2>2 DEF Hunt, Hunts, AtHostNeed, Walkable
  <2>3. CASE SkipCore \/ TakeBundled \/ Probe \/ NotFound
    BY <2>3, <1>2 DEF SkipCore, TakeBundled, Probe, NotFound
  <2> QED BY <2>1, <2>2, <2>3
<1>6. call' \in Walkable' \cup {None}
  BY <1>1, <1>5 DEF Walkable, Bundle
<1> QED BY <1>1, <1>3, <1>4, <1>6, WalkIs, WalkGoesOn

\* How a frame ends: nothing is loaded, or its library or the library's copy is.
LEMMA FrameEndIs ==
  ASSUME WalkInv, Keep \/ Rewrite \/ DryRun
  PROVE  /\ WalkDone /\ LeaveFrame
         /\ provided' = provided \/ \E asked \in SUBSET Sonames : Asked(asked)
         /\ \/ Fail
            \/ \E w \in {"host", "copy"} : Loads(<<file, w>>) /\ Record(<<file, w>>)
<1>1. CASE Keep
  BY <1>1 DEF Keep
<1>2. CASE Rewrite
  BY <1>2 DEF Rewrite
<1>3. CASE DryRun
  BY <1>3 DEF DryRun
<1> QED BY <1>1, <1>2, <1>3

LEMMA EndSteps ==
  ASSUME WalkInv, Keep \/ Rewrite \/ DryRun
  PROVE  WalkInv'
<1>1. /\ stack # <<>> /\ call = None /\ stack' = Tail(stack)
      /\ UNCHANGED <<world, call, opens, opened>>
      /\ provided' = provided \/ \E asked \in SUBSET Sonames : Asked(asked)
  BY FrameEndIs DEF WalkDone, LeaveFrame
<1>2. stack' \in Seq(Frames) /\ \A i \in DOMAIN stack' : stack'[i].file \in Walkable
  BY <1>1, WalkIs, FrameEnds
<1>3. CASE Fail
  <2>1. UNCHANGED <<loaded, first, cache>> /\ result' \in Handles
    BY <1>3 DEF Fail, Handles
  <2> QED BY <1>1, <1>2, <2>1, WalkIs, WalkGoesOn DEF Loading
<1>4. ASSUME NEW w \in {"host", "copy"}, Loads(<<file, w>>), Record(<<file, w>>)
      PROVE  WalkInv'
  <2>1. file \in Walkable
    BY <1>1, WalkIs, TopIs DEF file
  <2>2. <<file, w>> \in Objects /\ Placed(<<file, w>>) /\ <<file, w>>[2] = w
    BY <2>1, HostRoot
  <2>3. /\ Add(Closure(<<file, w>>)) /\ result' = w
        /\ cache' = [cache EXCEPT ![file] = IF @ = None THEN w ELSE @]
    BY <1>4, <2>2 DEF Record
  <2>4. /\ Closure(<<file, w>>) \subseteq Names \X Where
        /\ \A o \in Closure(<<file, w>>) : Placed(o)
    BY <1>4, <2>2, WalkIs, LoadedClosure
  <2>5. cache' \in [Sonames -> Handles] /\ result' \in Handles
    BY <2>3, WalkIs DEF Handles
  <2>6. Loading
    BY <2>3, <2>4 DEF Loading
  <2> QED BY <1>1, <1>2, <2>5, <2>6, WalkIs, WalkGoesOn
<1> QED BY <1>3, <1>4, FrameEndIs

LEMMA OpenStep ==
  ASSUME WalkInv, NEW s \in Sonames, Open(s)
  PROVE  WalkInv'
<1>1. /\ UNCHANGED <<world, loaded, first, cache, provided, stack, result>>
      /\ call' = s /\ opens < MaxOpens /\ opens' = opens + 1 /\ opened' = opened \cup {s}
  BY DEF Open
<1>2. opens' \in 0 .. MaxOpens
  BY <1>1, LimitsAssumption, WalkIs
<1>3. call' \in Walkable' /\ opened' \subseteq Sonames
  BY <1>1, WalkIs DEF Walkable
<1> QED BY <1>1, <1>2, <1>3, WalkIs, WalkGoesOn DEF Loading

LEMMA WalkInit == Init => WalkInv
<1> SUFFICES ASSUME Init PROVE WalkInv
  OBVIOUS
<1> USE DEF Init
<1>1. TypeOK
  <2>1. provided = <<>> /\ DOMAIN provided = {} /\ Range(provided) = {}
    BY DEF Range
  <2>2. opens \in 0 .. MaxOpens
    BY LimitsAssumption
  <2>3. world \in WorldType
    BY WorldsAssumption
  <2> QED BY <2>1, <2>2, <2>3 DEF TypeOK
<1>2. WellPlaced /\ HostsAreWalked /\ ProvidedIsTrue
  BY DEF WellPlaced, FirstIs, Absent, Names, HostsAreWalked, ProvidedIsTrue
<1> QED BY <1>1, <1>2 DEF WalkInv

LEMMA WalkNext == WalkInv /\ [Next]_vars => WalkInv'
<1> SUFFICES ASSUME WalkInv, [Next]_vars PROVE WalkInv'
  OBVIOUS
<1>1. CASE UNCHANGED vars
  BY <1>1 DEF vars, WalkInv, TypeOK, WellPlaced, FirstIs, Absent, Placed, Bundle, Walkable,
              HostsAreWalked, ProvidedIsTrue, Range
<1>2. CASE Load
  BY <1>2, ReturnSteps, AsIsSteps, DescendStep, NeedSteps, EndSteps DEF Load
<1>3. CASE \E s \in Sonames : Open(s)
  BY <1>3, OpenStep
<1> QED BY <1>1, <1>2, <1>3 DEF Next

\* Every variable of the walk keeps its type, on any host: an index into a list
\* of dependencies is one of them, and what a refusal names is a library.
THEOREM WalkTypes == Spec => []TypeOK
<1>1. WalkInv => TypeOK
  BY DEF WalkInv
<1> QED BY <1>1, WalkInit, WalkNext, PTL DEF Spec

\* "bundled libraries must beat host libraries": on any host, whatever depends
\* on what and whichever bundled files do not load, a file of the host is loaded
\* under a name that the bundle can serve only if the program opened it by path.
THEOREM BundleBeatsHost == Spec => []BundledWins
<1>1. WalkInv => BundledWins
  BY DEF WalkInv, WellPlaced, Placed, BundledWins
<1> QED BY <1>1, WalkInit, WalkNext, PTL DEF Spec

LEMMA KeptLoads == WalkInv => KeptObjectsLoad
<1> SUFFICES ASSUME WalkInv, WalkDone, Satisfied(file, world.wants[file]),
                    Refuses(<<file, "host">>, <<file, "host">>)
             PROVE  FALSE
  BY DEF KeptObjectsLoad
<1>1. file \in Walkable /\ file \in Sonames
  BY WalkIs, TopIs DEF WalkDone, file
<1> DEFINE o == <<file, "host">>
<1>2. PICK d \in world.wants[file] : Found(d, o)[2] = "app" /\ d \in world.outdated
  BY DEF Satisfied, Refuses
<1>3. d \in Sonames
  BY <1>1, <1>2, WalkIs, WorldIs
<1>4. o \in Objects /\ Placed(o)
  BY <1>1, HostRoot
<1>5. d \in world.bundled
  <2>1. Found(d, o)[1] = d /\ Placed(Found(d, o))
    BY <1>3, <1>4, WalkIs, FoundInObjects DEF Names
  <2> QED BY <1>2, <2>1, WalkIs, WorldIs DEF Placed
<1>6. Provides(d)
  BY <1>2 DEF Satisfied
<1> QED BY <1>2, <1>5, <1>6, ProvidesIs

\* What the walk finds satisfied from the answers it has kept, ld.so does not
\* refuse over a version.
THEOREM SatisfiedIsNotRefused == Spec => []KeptObjectsLoad
<1> QED BY KeptLoads, WalkInit, WalkNext, PTL DEF Spec

------------------------------------------------------------------------------
(* No library twice, on hosts whose dependencies make no cycle.  A frame's    *)
(* library is not in the process and has no handle on record until the frame  *)
(* ends: everything that is loaded in between lies below it in the layering.  *)

Layering(layer) ==
  \A s \in Sonames : \A d \in Range(world.needs[s]) : layer[d] < layer[s]

\* What the host's libraries have brought in: at most one object for a name.
Once == \A o, p \in loaded : o[1] = p[1] /\ o[2] # "app" /\ p[2] # "app" => o = p

\* Nothing but the bundle's own under a name.
Unhosted(s) == \A o \in loaded : o[1] = s => o[2] = "app"

\* Whoever has a rewritten copy has its handle.
CopyIsRecorded == \A o \in loaded : o[2] = "copy" => cache[o[1]] # None

\* The libraries of the frames are still to come.
FramesAreFresh ==
  \A i \in DOMAIN stack : Unhosted(stack[i].file) /\ cache[stack[i].file] = None

\* An inner frame, and what is about to be loaded, lies below an outer one.
Descends(layer) ==
  /\ \A i, j \in DOMAIN stack : i < j => layer[stack[i].file] < layer[stack[j].file]
  /\ call # None => \A i \in DOMAIN stack : layer[call] < layer[stack[i].file]

OnceInv(layer) == Once /\ CopyIsRecorded /\ FramesAreFresh /\ Descends(layer)

LayeredOnce ==
  \A layer \in [Sonames -> 1 .. MaxDepth] : Layering(layer) => OnceInv(layer)

\* What is loaded with an object lies no higher, musl's libc aside.
LEMMA ClosureIsLower ==
  ASSUME WalkInv, NEW layer \in [Sonames -> 1 .. MaxDepth], Layering(layer),
         NEW root \in Objects, Placed(root), root[1] \in Sonames
  PROVE  \A o \in Closure(root) : o[1] \in Sonames => layer[o[1]] <= layer[root[1]]
<1> DEFINE S == {o \in Objects : o[1] \in Sonames => layer[o[1]] <= layer[root[1]]}
<1>0. \A s \in Sonames : layer[s] \in Int
  BY LimitsAssumption
<1>1. root \in S
  BY <1>0
<1>2. \A o \in S \ loaded : \A s \in Needed(o) : Found(s, root) \in S
  <2> TAKE o \in S \ loaded
  <2> TAKE s \in Needed(o)
  <2>1. s \in Names /\ o[1] \in Sonames /\ (s = Musl \/ s \in Range(world.needs[o[1]]))
    BY WalkIs, NeededIs
  <2>2. Found(s, root) \in Objects /\ Found(s, root)[1] = s
    BY <2>1, WalkIs, FoundInObjects
  <2>3. ASSUME s \in Sonames PROVE layer[s] < layer[o[1]] /\ layer[o[1]] <= layer[root[1]]
    BY <2>1, <2>3, SonamesAssumption DEF Layering
  <2> QED BY <1>0, <2>1, <2>2, <2>3
<1>3. Closure(root) \subseteq S
  BY <1>1, <1>2, ClosureWithin
<1> QED BY <1>3

\* A closure brings no second object under a name, if its root does not.
LEMMA ClosureAddsOnce ==
  ASSUME WalkInv, Once, NEW root \in Objects, Placed(root),
         root \in loaded \/ Unhosted(root[1])
  PROVE  \A o, p \in loaded \cup Closure(root) :
           o[1] = p[1] /\ o[2] # "app" /\ p[2] # "app" => o = p
<1>1. \A o \in Closure(root) : (o = root \/ o = Found(o[1], root)) /\ o[1] \in Names
  BY WalkIs, ClosureIs DEF Objects
<1>2. \A o \in Closure(root), p \in loaded :
        o[1] = p[1] /\ o[2] # "app" /\ p[2] # "app" => o = p
  <2> SUFFICES ASSUME NEW o \in Closure(root), NEW p \in loaded,
                      o[1] = p[1], o[2] # "app", p[2] # "app"
               PROVE  o = p
    OBVIOUS
  <2>1. CASE o = root
    BY <2>1 DEF Once, Unhosted
  <2>2. CASE o \in loaded
    BY <2>2 DEF Once
  <2>3. CASE Absent(o[1])
    BY <2>3 DEF Absent
  <2> QED BY <1>1, <2>1, <2>2, <2>3, WalkIs, FoundIs
<1>3. \A o, p \in Closure(root) : o[1] = p[1] /\ o[2] # "app" /\ p[2] # "app" => o = p
  <2> SUFFICES ASSUME NEW o \in Closure(root), NEW p \in Closure(root),
                      o[1] = p[1], o[2] # "app", p[2] # "app", o = root, p = Found(p[1], root)
               PROVE  o = p
    BY <1>1
  <2>1. CASE p \in loaded
    BY <1>2, <2>1
  <2> QED BY <1>1, <2>1, WalkIs, FoundIs
<1> QED BY <1>2, <1>3 DEF Once

\* What is new in the process, and lies below every frame, disturbs none.
LEMMA LoadBelow ==
  ASSUME WalkInv, NEW layer \in [Sonames -> 1 .. MaxDepth], Layering(layer), OnceInv(layer),
         NEW root \in Objects, Placed(root), root[1] \in Sonames,
         root \in loaded \/ Unhosted(root[1]),
         \A i \in DOMAIN stack : layer[root[1]] < layer[stack[i].file],
         UNCHANGED cache, loaded' = loaded \/ loaded' = loaded \cup Closure(root),
         root \in loaded \/ root[2] # "copy"
  PROVE  /\ Once' /\ CopyIsRecorded'
         /\ \A i \in DOMAIN stack :
              /\ \A o \in loaded' : o[1] = stack[i].file => o[2] = "app"
              /\ cache[stack[i].file] = None
<1>1. Once'
  BY ClosureAddsOnce DEF OnceInv, Once
<1>2. CopyIsRecorded'
  <2>1. \A o \in Closure(root) : o[2] = "copy" => o \in loaded
    BY WalkIs, ClosureIs
  <2> QED BY <2>1 DEF OnceInv, CopyIsRecorded
<1>3. ASSUME NEW i \in DOMAIN stack, NEW o \in Closure(root) PROVE o[1] # stack[i].file
  <2>1. stack[i].file \in Sonames
    <3>1. stack[i] \in Frames
      BY WalkIs
    <3> QED BY <3>1 DEF Frames
  <2>2. o[1] \in Sonames => layer[o[1]] <= layer[root[1]]
    BY ClosureIsLower
  <2>3. layer[root[1]] < layer[stack[i].file]
    OBVIOUS
  <2>4. layer[root[1]] \in Int /\ \A s \in Sonames : layer[s] \in Int
    BY LimitsAssumption
  <2> QED BY <2>1, <2>2, <2>3, <2>4
<1> QED BY <1>1, <1>2, <1>3 DEF OnceInv, FramesAreFresh, Unhosted

\* A library that fgn_load finds neither on record nor open is in the process as the
\* bundle's at most.
LEMMA UnopenedIsUnhosted ==
  ASSUME WalkInv, CopyIsRecorded, Unopened
  PROVE  Unhosted(call) /\ call \in Walkable /\ call \in Sonames /\ cache[call] = None
<1>1. call \in Walkable /\ call \in Sonames /\ cache[call] = None /\ <<call, "host">> \notin loaded
  BY WalkIs DEF Unopened
<1>2. ASSUME NEW o \in loaded, o[1] = call, o[2] # "app" PROVE FALSE
  <2>1. o \in Names \X Where
    BY WalkIs
  <2>2. o[2] = "copy"
    BY <1>1, <1>2, <2>1 DEF Where
  <2> QED BY <1>1, <1>2, <2>2 DEF CopyIsRecorded
<1> QED BY <1>1, <1>2 DEF Unhosted

\* What is below the innermost frame's library is below them all.
LEMMA BelowTop ==
  ASSUME WalkInv, NEW layer \in [Sonames -> 1 .. MaxDepth], Descends(layer), stack # <<>>,
         NEW s \in Sonames, layer[s] < layer[file]
  PROVE  \A i \in DOMAIN stack : layer[s] < layer[stack[i].file]
<1>1. stack \in Seq(Frames) /\ 1 \in DOMAIN stack /\ file = stack[1].file
  BY WalkIs, TopIs DEF file
<1>2. \A i \in DOMAIN stack : stack[i] \in Frames
  BY <1>1
<1>3. \A i \in DOMAIN stack : stack[i].file \in Sonames
  BY <1>2 DEF Frames
<1>4. \A n \in Sonames : layer[n] \in Int
  BY LimitsAssumption
<1>5. \A i \in DOMAIN stack : i # 1 => layer[file] < layer[stack[i].file]
  BY <1>1 DEF Descends
<1> QED BY <1>1, <1>3, <1>4, <1>5

LEMMA NeedIsBelow ==
  ASSUME WalkInv, NEW layer \in [Sonames -> 1 .. MaxDepth], Layering(layer), Descends(layer),
         AtNeed
  PROVE  \A i \in DOMAIN stack : layer[need] < layer[stack[i].file]
<1>1. stack # <<>> /\ file \in Sonames /\ need \in Sonames /\ need \in Range(world.needs[file])
  BY WalkIs, NeedIs
<1> QED BY <1>1, BelowTop DEF Layering

\* The shape that most steps have: the frames keep their libraries.
LEMMA OnceGoesOn ==
  ASSUME WalkInv, NEW layer \in [Sonames -> 1 .. MaxDepth], Layering(layer), OnceInv(layer),
         Once', CopyIsRecorded', UNCHANGED cache,
         \A i \in DOMAIN stack : \A o \in loaded' : o[1] = stack[i].file => o[2] = "app",
         DOMAIN stack' = DOMAIN stack,
         \A i \in DOMAIN stack : stack'[i].file = stack[i].file,
         call' # None => \A i \in DOMAIN stack : layer[call'] < layer[stack[i].file]
  PROVE  OnceInv(layer)'
<1>1. FramesAreFresh'
  BY DEF OnceInv, FramesAreFresh, Unhosted
<1>2. Descends(layer)'
  BY DEF OnceInv, Descends
<1> QED BY <1>1, <1>2 DEF OnceInv

LEMMA OnceReturn ==
  ASSUME WalkInv, NEW layer \in [Sonames -> 1 .. MaxDepth], Layering(layer), OnceInv(layer),
         TooDeep \/ Cached \/ AlreadyOpen \/ Cycle
  PROVE  OnceInv(layer)'
<1>1. UNCHANGED <<loaded, cache, stack>> /\ call' = None
  BY DEF TooDeep, Cached, AlreadyOpen, Cycle, Return
<1> QED BY <1>1 DEF OnceInv, Once, CopyIsRecorded, FramesAreFresh, Unhosted, Descends

LEMMA OnceAsIs ==
  ASSUME WalkInv, NEW layer \in [Sonames -> 1 .. MaxDepth], Layering(layer), OnceInv(layer),
         OpenCore \/ OpenOpaque
  PROVE  OnceInv(layer)'
<1>1. UNCHANGED <<cache, stack>> /\ LoadAsIs(call) /\ Unopened
  BY DEF OpenCore, OpenOpaque
<1>2. Unhosted(call) /\ call \in Walkable /\ call \in Sonames
  BY <1>1, UnopenedIsUnhosted DEF OnceInv
<1>3. call # None
  BY <1>1 DEF Unopened
<1> DEFINE root == <<call, "host">>
<1>4. root \in Objects /\ Placed(root) /\ root[1] = call /\ root[2] # "copy"
  BY <1>2, HostRoot
<1>5. call' = None /\ (loaded' = loaded \/ loaded' = loaded \cup Closure(root))
  BY <1>1, AddLoads DEF LoadAsIs, Return
<1>6. \A i \in DOMAIN stack : layer[root[1]] < layer[stack[i].file]
  BY <1>3, <1>4 DEF OnceInv, Descends
<1> HIDE DEF root
<1>7. /\ Once' /\ CopyIsRecorded'
      /\ \A i \in DOMAIN stack : \A o \in loaded' : o[1] = stack[i].file => o[2] = "app"
  BY <1>1, <1>2, <1>4, <1>5, <1>6, LoadBelow
<1> QED BY <1>1, <1>5, <1>7, OnceGoesOn

LEMMA OnceDescend ==
  ASSUME WalkInv, NEW layer \in [Sonames -> 1 .. MaxDepth], Layering(layer), OnceInv(layer),
         Descend
  PROVE  OnceInv(layer)'
<1>1. /\ UNCHANGED <<loaded, cache>> /\ call' = None /\ Unopened
      /\ stack' = <<[file |-> call, next |-> 1]>> \o stack
  BY DEF Descend
<1>2. Unhosted(call) /\ call \in Sonames /\ cache[call] = None /\ call # None
  BY <1>1, UnopenedIsUnhosted DEF OnceInv, Unopened
<1>3. stack \in Seq(Frames) /\ [file |-> call, next |-> 1] \in Frames
  BY <1>2, WalkIs DEF Frames
<1>4. \A i \in DOMAIN stack' : IF i = 1 THEN stack'[i].file = call
                               ELSE i - 1 \in DOMAIN stack /\ stack'[i] = stack[i-1]
  BY <1>1, <1>3
<1>5. FramesAreFresh'
  BY <1>1, <1>2, <1>4 DEF OnceInv, FramesAreFresh, Unhosted
<1>6. Descends(layer)'
  <2> SUFFICES ASSUME NEW i \in DOMAIN stack', NEW j \in DOMAIN stack', i < j
               PROVE  layer[stack'[i].file] < layer[stack'[j].file]
    BY <1>1 DEF Descends
  <2>1. DOMAIN stack' \subseteq Int
    BY <1>1, <1>3
  <2>2. j # 1 /\ j - 1 \in DOMAIN stack /\ stack'[j] = stack[j-1]
    BY <1>1, <1>3, <1>4, <2>1
  <2>3. CASE i = 1
    BY <1>2, <1>4, <2>2, <2>3 DEF OnceInv, Descends
  <2>4. CASE i # 1
    <3>1. i - 1 \in DOMAIN stack /\ stack'[i] = stack[i-1] /\ i - 1 < j - 1
      BY <1>4, <2>1, <2>4
    <3> QED BY <2>2, <3>1 DEF OnceInv, Descends
  <2> QED BY <2>3, <2>4
<1>7. Once' /\ CopyIsRecorded'
  BY <1>1 DEF OnceInv, Once, CopyIsRecorded
<1> QED BY <1>5, <1>6, <1>7 DEF OnceInv

LEMMA OnceNeed ==
  ASSUME WalkInv, NEW layer \in [Sonames -> 1 .. MaxDepth], Layering(layer), OnceInv(layer),
         SkipCore \/ TakeBundled \/ Probe \/ Harvest \/ Hunt \/ NotFound
  PROVE  OnceInv(layer)'
<1>1. UNCHANGED cache /\ NextNeed /\ AtNeed
  BY DEF SkipCore, TakeBundled, Probe, Harvest, Hunt, NotFound, Hunts, AtHostNeed
<1>2. need \in Sonames /\ stack # <<>> /\ call = None
  BY <1>1, WalkIs, NeedIs
<1>3. DOMAIN stack' = DOMAIN stack /\ \A i \in DOMAIN stack : stack'[i].file = stack[i].file
  BY <1>1, <1>2, WalkIs, NextNeedIs
<1>4. \A i \in DOMAIN stack : layer[need] < layer[stack[i].file]
  BY <1>1, NeedIsBelow DEF OnceInv
<1>5. ASSUME UNCHANGED loaded
      PROVE  /\ Once' /\ CopyIsRecorded'
             /\ \A i \in DOMAIN stack : \A o \in loaded' : o[1] = stack[i].file => o[2] = "app"
  BY <1>1, <1>5 DEF OnceInv, Once, CopyIsRecorded, FramesAreFresh, Unhosted
<1>6. CASE SkipCore \/ NotFound
  <2>1. UNCHANGED loaded /\ call' = None
    BY <1>2, <1>6 DEF SkipCore, NotFound
  <2> QED BY <1>1, <1>3, <1>5, <2>1, OnceGoesOn
<1>7. CASE Hunt
  <2>1. UNCHANGED loaded /\ call' = need
    BY <1>7 DEF Hunt
  <2> QED BY <1>1, <1>3, <1>4, <1>5, <2>1, OnceGoesOn
<1>8. CASE TakeBundled
  <2>1. loaded' = loaded \cup {<<need, "app">>} /\ call' = None
    BY <1>2, <1>8, AddLoads DEF TakeBundled
  <2>3. Once'
    BY <2>1 DEF OnceInv, Once
  <2>4. CopyIsRecorded'
    BY <1>1, <2>1 DEF OnceInv, CopyIsRecorded
  <2>5. \A i \in DOMAIN stack : \A o \in loaded' : o[1] = stack[i].file => o[2] = "app"
    BY <2>1 DEF OnceInv, FramesAreFresh, Unhosted
  <2> QED BY <1>1, <1>3, <2>1, <2>3, <2>4, <2>5, OnceGoesOn
<1>9. CASE Probe
  <2>1. AtHostNeed /\ loaded' = loaded \cup Closure(byName) /\ call' = None
    BY <1>2, <1>9, AddLoads DEF Probe
  <2>2. /\ byName \in Objects /\ byName[1] = need /\ Placed(byName)
        /\ byName \in loaded \/ (Unhosted(byName[1]) /\ byName[2] # "copy")
    BY <2>1, WalkIs, ByNameIs DEF Absent, Unhosted
  <2>3. /\ Once' /\ CopyIsRecorded'
        /\ \A i \in DOMAIN stack : \A o \in loaded' : o[1] = stack[i].file => o[2] = "app"
    BY <1>1, <1>2, <1>4, <2>1, <2>2, LoadBelow
  <2> QED BY <1>1, <1>3, <2>1, <2>3, OnceGoesOn
<1>10. CASE Harvest
  <2>1. AtHostNeed /\ UNCHANGED loaded
    BY <1>10 DEF Harvest
  <2>2. PICK o \in Blamed(byName) : call' = o[1]
    BY <1>10 DEF Harvest
  <2>3. byName \in Objects /\ byName[1] = need /\ Placed(byName)
    BY <2>1, WalkIs, ByNameIs
  <2>4. o \in Closure(byName) /\ o[1] \in Sonames
    BY <2>1, <2>2, WalkIs, BlamedIs
  <2>5. layer[o[1]] <= layer[need]
    BY <1>2, <2>3, <2>4, ClosureIsLower
  <2>6. \A i \in DOMAIN stack : layer[o[1]] < layer[stack[i].file]
    <3> SUFFICES ASSUME NEW i \in DOMAIN stack PROVE layer[o[1]] < layer[stack[i].file]
      OBVIOUS
    <3>1. stack[i] \in Frames
      BY WalkIs
    <3>2. stack[i].file \in Sonames
      BY <3>1 DEF Frames
    <3>3. \A n \in Sonames : layer[n] \in Int
      BY LimitsAssumption
    <3> QED BY <1>2, <1>4, <2>4, <2>5, <3>2, <3>3
  <2> QED BY <1>1, <1>3, <1>5, <2>1, <2>2, <2>6, OnceGoesOn
<1> QED BY <1>6, <1>7, <1>8, <1>9, <1>10

LEMMA OnceEnd ==
  ASSUME WalkInv, NEW layer \in [Sonames -> 1 .. MaxDepth], Layering(layer), OnceInv(layer),
         Keep \/ Rewrite \/ DryRun
  PROVE  OnceInv(layer)'
<1>1. stack # <<>> /\ call' = None /\ stack' = Tail(stack)
  BY FrameEndIs DEF WalkDone, LeaveFrame
<1>2. \A i \in DOMAIN stack' : i + 1 \in DOMAIN stack /\ stack'[i] = stack[i + 1]
  BY <1>1, WalkIs, FrameEnds
<1>3. stack \in Seq(Frames) /\ stack' \in Seq(Frames)
  BY <1>1, WalkIs, FrameEnds
<1>4. 1 \in DOMAIN stack /\ file = stack[1].file /\ file \in Sonames /\ file \in Walkable
  BY <1>1, WalkIs, TopIs DEF file
<1>5. Descends(layer)'
  <2> SUFFICES ASSUME NEW i \in DOMAIN stack', NEW j \in DOMAIN stack', i < j
               PROVE  layer[stack'[i].file] < layer[stack'[j].file]
    BY <1>1 DEF Descends
  <2>1. i + 1 < j + 1
    BY <1>3
  <2> QED BY <1>2, <2>1 DEF OnceInv, Descends
<1>6. CASE Fail
  <2>1. UNCHANGED <<loaded, cache>>
    BY <1>6 DEF Fail
  <2>2. Once' /\ CopyIsRecorded' /\ FramesAreFresh'
    BY <1>2, <2>1 DEF OnceInv, Once, CopyIsRecorded, FramesAreFresh, Unhosted
  <2> QED BY <1>5, <2>2 DEF OnceInv
<1>7. ASSUME NEW w \in {"host", "copy"}, Loads(<<file, w>>), Record(<<file, w>>)
      PROVE  OnceInv(layer)'
  <2> DEFINE root == <<file, w>>
  <2>1. root \in Objects /\ Placed(root) /\ root[1] = file /\ root[2] = w
    BY <1>4, WalkIs, HostRoot
  <2>2. Unhosted(file) /\ cache[file] = None
    BY <1>4 DEF OnceInv, FramesAreFresh
  <2>3. /\ loaded' = loaded \cup Closure(root)
        /\ cache' = [cache EXCEPT ![file] = w]
    BY <1>7, <2>1, <2>2, AddLoads DEF Record
  <2>4. w # None
    BY NoneAssumption DEF Where
  <2> HIDE DEF root
  <2>5. Once'
    BY <2>1, <2>2, <2>3, ClosureAddsOnce DEF OnceInv, Once
  <2>6. CopyIsRecorded'
    <3> SUFFICES ASSUME NEW o \in loaded', o[2] = "copy" PROVE cache'[o[1]] # None
      BY DEF CopyIsRecorded
    <3>0. cache \in [Sonames -> Handles]
      BY WalkIs
    <3>1. o \in loaded \cup {root}
      BY <2>1, <2>3, WalkIs, ClosureIs
    <3>2. CASE o[1] = file
      BY <1>4, <2>3, <2>4, <3>0, <3>2
    <3>3. CASE o[1] # file
      <4>1. o \in loaded
        BY <2>1, <3>1, <3>3
      <4>2. cache'[o[1]] = cache[o[1]]
        BY <2>3, <3>3, <3>0
      <4> QED BY <4>1, <4>2 DEF OnceInv, CopyIsRecorded
    <3> QED BY <3>2, <3>3
  <2>7. FramesAreFresh'
    <3> SUFFICES ASSUME NEW i \in DOMAIN stack'
                 PROVE  /\ \A o \in loaded' : o[1] = stack'[i].file => o[2] = "app"
                        /\ cache'[stack'[i].file] = None
      BY DEF FramesAreFresh, Unhosted
    <3>1. i + 1 \in DOMAIN stack /\ stack'[i] = stack[i + 1] /\ 1 < i + 1
      BY <1>2, <1>3
    <3>2. layer[file] < layer[stack'[i].file]
      BY <1>4, <3>1 DEF OnceInv, Descends
    <3>3. stack'[i] \in Frames
      BY <1>3
    <3>4. stack'[i].file \in Sonames
      BY <3>3 DEF Frames
    <3>5. \A n \in Sonames : layer[n] \in Int
      BY LimitsAssumption
    <3>6. \A o \in Closure(root) : o[1] \in Sonames => layer[o[1]] <= layer[file]
      BY <1>4, <2>1, ClosureIsLower
    <3>7. \A o \in Closure(root) : o[1] # stack'[i].file
      BY <1>4, <3>2, <3>4, <3>5, <3>6
    <3>8. stack'[i].file # file
      BY <3>2, <3>5, <1>4
    <3>9. Unhosted(stack'[i].file) /\ cache[stack'[i].file] = None
      BY <3>1 DEF OnceInv, FramesAreFresh
    <3>10. cache \in [Sonames -> Handles]
      BY WalkIs
    <3> QED BY <2>3, <3>4, <3>7, <3>8, <3>9, <3>10 DEF Unhosted
  <2> QED BY <1>5, <2>5, <2>6, <2>7 DEF OnceInv
<1> QED BY <1>6, <1>7, FrameEndIs

LEMMA OnceOpen ==
  ASSUME WalkInv, NEW layer \in [Sonames -> 1 .. MaxDepth], OnceInv(layer),
         NEW s \in Sonames, Open(s)
  PROVE  OnceInv(layer)'
<1>1. UNCHANGED <<loaded, cache, stack>> /\ stack = <<>>
  BY DEF Open
<1> QED BY <1>1 DEF OnceInv, Once, CopyIsRecorded, FramesAreFresh, Unhosted, Descends

LEMMA WorldStays == [Next]_vars => world' = world
BY DEF Next, Load, Open, TooDeep, Cached, AlreadyOpen, OpenCore, Cycle, OpenOpaque, Descend,
       SkipCore, TakeBundled, Probe, Harvest, Hunt, NotFound, Keep, Rewrite, DryRun,
       LeaveFrame, vars

LEMMA OnceNext == WalkInv /\ LayeredOnce /\ [Next]_vars => LayeredOnce'
<1> SUFFICES ASSUME WalkInv, LayeredOnce, [Next]_vars,
                    NEW layer \in [Sonames -> 1 .. MaxDepth], Layering(layer)'
             PROVE  OnceInv(layer)'
  BY DEF LayeredOnce
<1>1. world' = world
  BY WorldStays
<1>2. Layering(layer) /\ OnceInv(layer)
  BY <1>1 DEF Layering, LayeredOnce
<1>3. CASE UNCHANGED vars
  BY <1>2, <1>3 DEF vars, OnceInv, Once, CopyIsRecorded, FramesAreFresh, Unhosted, Descends
<1>4. CASE Load
  BY <1>2, <1>4, OnceReturn, OnceAsIs, OnceDescend, OnceNeed, OnceEnd DEF Load
<1>5. CASE \E s \in Sonames : Open(s)
  BY <1>2, <1>5, OnceOpen
<1> QED BY <1>3, <1>4, <1>5 DEF Next

LEMMA OnceInit == Init => LayeredOnce
BY DEF Init, LayeredOnce, OnceInv, Once, CopyIsRecorded, FramesAreFresh, Unhosted, Descends

\* "two libstdc++ in one process": on a host whose dependencies make no cycle no
\* library is loaded twice, as the host built it and rewritten, by however many
\* routes it is reached, refused, harvested or hunted; nor does the host's come to
\* lie beside the bundle's, unless the program opened the host's by its path.
THEOREM NoLibraryTwice == Spec => []OneOfEach
<1>1. WalkInv /\ LayeredOnce => OneOfEach
  <2> SUFFICES ASSUME WalkInv, LayeredOnce, Layered,
                      NEW o \in loaded, NEW p \in loaded, o[1] = p[1], o # p,
                      "app" \in {o[2], p[2]} => o[1] \notin opened
               PROVE  FALSE
    BY DEF OneOfEach
  <2>1. Once
    BY DEF Layered, LayeredOnce, Layering, OnceInv
  <2>2. o \in Names \X Where /\ p \in Names \X Where /\ Placed(o) /\ Placed(p)
    BY WalkIs
  <2>3. o[2] # p[2]
    BY <2>2
  <2>4. CASE "app" \notin {o[2], p[2]}
    BY <2>1, <2>4 DEF Once
  <2>5. CASE "app" \in {o[2], p[2]}
    BY <2>2, <2>3, <2>5 DEF Placed
  <2> QED BY <2>4, <2>5
<1> QED BY <1>1, WalkInit, WalkNext, OnceInit, OnceNext, PTL DEF Spec

------------------------------------------------------------------------------
(* What both of the next two invariants rest on: how a walk's passed          *)
(* dependencies fare.                                                         *)

\* Reach grows with the number of edges.
LEMMA ReachGrows ==
  ASSUME NEW root
  PROVE  \A m \in 0 .. Deepest : \A n \in 0 .. m : Reach(root)[n] \subseteq Reach(root)[m]
<1> DEFINE Bad == {m \in Nat : /\ m <= Deepest
                               /\ \E n \in 0 .. m : ~(Reach(root)[n] \subseteq Reach(root)[m])}
<1>1. ASSUME Bad # {} PROVE FALSE
  <2>1. PICK m \in Bad : \A j \in Bad : m <= j
    BY <1>1, Least
  <2>2. m \in Nat /\ m <= Deepest
    OBVIOUS
  <2>3. PICK n \in 0 .. m : ~(Reach(root)[n] \subseteq Reach(root)[m])
    OBVIOUS
  <2> HIDE DEF Bad
  <2>4. n # m /\ m # 0
    BY <2>2, <2>3
  <2>5. m - 1 \in Nat /\ m - 1 \notin Bad /\ m - 1 <= Deepest /\ n \in 0 .. m - 1
    BY <2>1, <2>2, <2>3, <2>4, DeepestIsNat
  <2>6. Reach(root)[n] \subseteq Reach(root)[m-1]
    BY <2>5 DEF Bad
  <2>7. Reach(root)[m] = Spread(root, Reach(root)[m-1])
    <3>1. m \in 0 .. Deepest
      BY <2>2, DeepestIsNat
    <3> QED BY <2>4, <3>1, ReachUnfolds
  <2> QED BY <2>3, <2>6, <2>7 DEF Spread, Brings
<1> QED BY <1>1, DeepestIsNat

LEMMA RootIsLoaded == ASSUME NEW root PROVE root \in Closure(root)
<1>1. Deepest \in 0 .. Deepest /\ 0 \in 0 .. Deepest
  BY DeepestIsNat
<1>2. Reach(root)[0] = {root}
  BY <1>1, ReachUnfolds
<1> QED BY <1>1, <1>2, ReachGrows DEF Closure, Deepest

\* Nothing is unloaded.
LEMMA LoadedGrows == [Next]_vars => loaded \subseteq loaded'
BY DEF Next, Load, Open, TooDeep, Cached, AlreadyOpen, OpenCore, Cycle, OpenOpaque, Descend,
       SkipCore, TakeBundled, Probe, Harvest, Hunt, NotFound, Keep, Rewrite, DryRun,
       LeaveFrame, LoadAsIs, Add, Record, Fail, vars

\* What has a handle on record is in the process.
Recorded == \A s \in Sonames : cache[s] # None => ~Absent(s)

LEMMA RecordedNext == WalkInv /\ Recorded /\ [Next]_vars => Recorded'
<1> SUFFICES ASSUME WalkInv, Recorded, [Next]_vars PROVE Recorded'
  OBVIOUS
<1>1. CASE UNCHANGED cache
  BY <1>1, LoadedGrows DEF Recorded, Absent
<1>2. CASE Keep \/ Rewrite \/ DryRun
  <2>1. CASE Fail
    BY <1>1, <2>1 DEF Fail
  <2>2. ASSUME NEW w \in {"host", "copy"}, Record(<<file, w>>) PROVE Recorded'
    <3> DEFINE root == <<file, w>>
    <3>1. cache' = [cache EXCEPT ![file] = IF @ = None THEN root[2] ELSE @]
          /\ loaded' = loaded \cup Closure(root) /\ root[1] = file
      BY <2>2, AddLoads DEF Record
    <3> HIDE DEF root
    <3>2. root \in loaded'
      BY <3>1, RootIsLoaded
    <3>3. cache \in [Sonames -> Handles]
      BY WalkIs
    <3> SUFFICES ASSUME NEW s \in Sonames, cache'[s] # None PROVE ~Absent(s)'
      BY DEF Recorded
    <3>4. CASE s = file
      BY <3>1, <3>2, <3>4 DEF Absent
    <3>5. CASE s # file
      BY <3>1, <3>3, <3>5, LoadedGrows DEF Recorded, Absent
    <3> QED BY <3>4, <3>5
  <2> QED BY <1>2, <2>1, <2>2, FrameEndIs
<1> QED
  BY <1>1, <1>2 DEF Next, Load, Open, TooDeep, Cached, AlreadyOpen, OpenCore, Cycle, OpenOpaque,
     Descend, SkipCore, TakeBundled, Probe, Harvest, Hunt, NotFound, vars

\* The dependencies a frame has passed, and what it is waiting for.
Passed(i) == {world.needs[stack[i].file][j] : j \in 1 .. stack[i].next - 1}
Awaited(i, s) == IF i = 1 THEN call = s ELSE stack[i-1].file = s

\* Each dependency that a frame has passed is done with, or is waited for: itself
\* or one of the libraries X that stand for all of them.
Settled(X, Done) ==
  \A i \in DOMAIN stack : \A d \in Passed(i) :
    \E s \in Sonames \cap ({d} \cup X) : s \in Done \/ Awaited(i, s)

LEMMA SettledStutter ==
  ASSUME NEW X, NEW D, NEW E, D \subseteq E, Settled(X, D), UNCHANGED <<world, stack, call>>
  PROVE  Settled(X, E)'
<1>1. \A i : Passed(i)' = Passed(i) /\ \A s : Awaited(i, s)' = Awaited(i, s)
  BY DEF Passed, Awaited
<1> QED BY <1>1 DEF Settled

LEMMA SettledReturn ==
  ASSUME NEW X, NEW D, NEW E, D \subseteq E, Settled(X, D), stack \in Seq(Frames),
         UNCHANGED <<world, stack>>, stack # <<>> => call \in E
  PROVE  Settled(X, E)'
<1>0. \A i : Passed(i)' = Passed(i)
  BY DEF Passed
<1> SUFFICES ASSUME NEW i \in DOMAIN stack, NEW d \in Passed(i)
             PROVE  \E s \in Sonames \cap ({d} \cup X) : s \in E \/ Awaited(i, s)'
  BY <1>0 DEF Settled
<1>1. PICK s \in Sonames \cap ({d} \cup X) : s \in D \/ Awaited(i, s)
  BY DEF Settled
<1>2. stack # <<>>
  OBVIOUS
<1> QED BY <1>1, <1>2 DEF Awaited

LEMMA SettledOpen ==
  ASSUME NEW X, NEW E, stack' = <<>>
  PROVE  Settled(X, E)'
BY DEF Settled

LEMMA SettledDescend ==
  ASSUME NEW X, NEW D, NEW E, D \subseteq E, Settled(X, D), stack \in Seq(Frames),
         Descend, call \in Sonames
  PROVE  Settled(X, E)'
<1>1. world' = world /\ stack' = <<[file |-> call, next |-> 1]>> \o stack
  BY DEF Descend
<1>2. [file |-> call, next |-> 1] \in Frames
  BY DEF Frames
<1>3. \A i \in DOMAIN stack' :
        /\ i = 1 => stack'[i] = [file |-> call, next |-> 1]
        /\ i # 1 => i - 1 \in DOMAIN stack /\ stack'[i] = stack[i-1] /\ i - 1 \in Nat
        /\ i # 1 /\ i - 1 # 1 => stack'[i-1] = stack[i-2]
        /\ stack'[1].file = call
  BY <1>1, <1>2
<1> SUFFICES ASSUME NEW i \in DOMAIN stack', NEW d \in Passed(i)'
             PROVE  \E s \in Sonames \cap ({d} \cup X) : s \in E \/ Awaited(i, s)'
  BY DEF Settled
<1>4. CASE i = 1
  BY <1>1, <1>3, <1>4 DEF Passed
<1>5. CASE i # 1
  <2>1. i - 1 \in DOMAIN stack /\ d \in Passed(i-1)
    BY <1>1, <1>3, <1>5 DEF Passed
  <2>2. PICK s \in Sonames \cap ({d} \cup X) : s \in D \/ Awaited(i-1, s)
    BY <2>1 DEF Settled
  <2>3. i - 1 \in Int /\ (i - 1) - 1 = i - 2
    <3>1. i \in Int
      BY <1>1, <1>2
    <3> QED BY <3>1
  <2>4. Awaited(i-1, s) => Awaited(i, s)'
    BY <1>3, <1>5, <2>3 DEF Awaited
  <2> QED BY <2>2, <2>4
<1> QED BY <1>4, <1>5

LEMMA SettledNeed ==
  ASSUME NEW X, NEW D, NEW E, D \subseteq E, Settled(X, D), TypeOK,
         world' = world, AtNeed, NextNeed,
         \E s \in Sonames \cap ({need} \cup X) : s \in E \/ call' = s
  PROVE  Settled(X, E)'
<1>1. stack \in Seq(Frames) /\ 1 \in DOMAIN stack /\ stack[1] \in Frames /\ call = None
      /\ file = stack[1].file /\ next = stack[1].next
  BY TopIs DEF AtNeed, file, next
<1>2. stack' = [stack EXCEPT ![1] = [stack[1] EXCEPT !.next = @ + 1]]
  BY <1>1 DEF NextNeed
<1>3. DOMAIN stack' = DOMAIN stack /\ \A i \in DOMAIN stack : i # 1 => stack'[i] = stack[i]
  BY <1>1, <1>2
<1>4. stack'[1].file = stack[1].file /\ stack'[1].next = stack[1].next + 1 /\ stack[1].next \in Nat
  BY <1>1, <1>2 DEF Frames
<1>5. Passed(1)' \subseteq Passed(1) \cup {need}
  <2>1. \A j \in 1 .. stack[1].next : j # stack[1].next => j \in 1 .. stack[1].next - 1
    BY <1>4
  <2>2. 1 .. stack'[1].next - 1 = 1 .. stack[1].next
    BY <1>4
  <2> QED BY <1>1, <1>4, <2>1, <2>2 DEF Passed, need
<1> SUFFICES ASSUME NEW i \in DOMAIN stack, NEW d \in Passed(i)'
             PROVE  \E s \in Sonames \cap ({d} \cup X) : s \in E \/ Awaited(i, s)'
  BY <1>3 DEF Settled
<1>6. CASE i = 1 /\ d = need
  BY <1>6 DEF Awaited
<1>7. CASE i # 1 \/ d # need
  <2>1. d \in Passed(i)
    <3>1. CASE i = 1
      BY <1>5, <1>7, <3>1
    <3>2. CASE i # 1
      BY <1>3, <3>2 DEF Passed
    <3> QED BY <3>1, <3>2
  <2>2. PICK s \in Sonames \cap ({d} \cup X) : s \in D \/ Awaited(i, s)
    BY <2>1 DEF Settled
  <2>3. ASSUME Awaited(i, s) PROVE Awaited(i, s)'
    <3>1. i # 1
      BY <1>1, <2>3, NoneAssumption DEF Awaited
    <3>2. i - 1 \in DOMAIN stack
      BY <1>1, <3>1
    <3>3. stack'[i-1].file = stack[i-1].file
      BY <1>3, <1>4, <3>2
    <3> QED BY <2>3, <3>1, <3>3 DEF Awaited
  <2> QED BY <2>2, <2>3
<1> QED BY <1>6, <1>7

LEMMA SettledEnd ==
  ASSUME NEW X, NEW D, NEW E, D \subseteq E, Settled(X, D), TypeOK,
         world' = world, WalkDone, stack' = Tail(stack), file \in E
  PROVE  Settled(X, E)'
<1>1. stack \in Seq(Frames) /\ file = stack[1].file /\ stack # <<>>
  BY TopIs DEF WalkDone, file
<1>2. \A i \in DOMAIN stack' : /\ i + 1 \in DOMAIN stack /\ stack'[i] = stack[i + 1]
                               /\ i \in Nat /\ i + 1 # 1 /\ (i + 1) - 1 = i
                               /\ i # 1 => stack'[i-1] = stack[i]
  <2> TAKE i \in DOMAIN stack'
  <2>1. i + 1 \in DOMAIN stack /\ stack'[i] = stack[i + 1] /\ i \in Nat /\ i >= 1
    BY <1>1
  <2>2. i # 1 => i - 1 \in DOMAIN stack' /\ (i - 1) + 1 = i
    BY <1>1, <2>1
  <2>3. i # 1 => stack'[i-1] = stack[i]
    BY <1>1, <2>2
  <2> QED BY <2>1, <2>3
<1> SUFFICES ASSUME NEW i \in DOMAIN stack', NEW d \in Passed(i)'
             PROVE  \E s \in Sonames \cap ({d} \cup X) : s \in E \/ Awaited(i, s)'
  BY DEF Settled
<1>3. i + 1 \in DOMAIN stack /\ d \in Passed(i + 1)
  BY <1>2 DEF Passed
<1>4. PICK s \in Sonames \cap ({d} \cup X) : s \in D \/ Awaited(i + 1, s)
  BY <1>3 DEF Settled
<1>5. Awaited(i + 1, s) => s = stack[i].file
  BY <1>2 DEF Awaited
<1>6. CASE i = 1
  BY <1>1, <1>4, <1>5, <1>6
<1>7. CASE i # 1
  BY <1>2, <1>4, <1>5, <1>7 DEF Awaited
<1> QED BY <1>6, <1>7

\* What a frame has been through when its walk is done.
LEMMA AllPassed ==
  ASSUME TypeOK, WalkDone
  PROVE  Range(world.needs[file]) \subseteq Passed(1) /\ 1 \in DOMAIN stack
         /\ \A s \in Sonames : ~Awaited(1, s)
<1>1. file \in Sonames /\ next \in Nat /\ next > Len(world.needs[file]) /\ 1 \in DOMAIN stack
      /\ file = stack[1].file /\ next = stack[1].next /\ call = None
  BY TopIs DEF WalkDone, file, next
<1>2. world.needs[file] \in Seq(Sonames)
  BY <1>1, WorldIs
<1>3. \A j \in DOMAIN world.needs[file] : j \in 1 .. next - 1
  BY <1>1, <1>2
<1> QED BY <1>1, <1>3, NoneAssumption DEF Range, Passed, Awaited

\* A walk that goes down the layers meets neither a cycle nor the depth limit.
LEMMA NeverTooDeep ==
  ASSUME WalkInv, NEW layer \in [Sonames -> 1 .. MaxDepth], Descends(layer),
         call # None
  PROVE  depth < MaxDepth /\ ~OnStack(call)
<1>0. /\ call \in Sonames /\ stack \in Seq(Frames)
      /\ \A s \in Sonames : layer[s] \in Nat /\ layer[s] <= MaxDepth /\ 1 <= layer[s]
  BY WalkIs, LimitsAssumption
<1>1. \A i \in DOMAIN stack : stack[i].file \in Sonames /\ i \in Nat /\ i >= 1 /\ i <= Len(stack)
  <2>1. \A i \in DOMAIN stack : stack[i] \in Frames
    BY <1>0
  <2> QED BY <1>0, <2>1 DEF Frames
<1>2. \A i \in DOMAIN stack : layer[call] < layer[stack[i].file]
  BY DEF Descends
<1> DEFINE Bad == {i \in Nat : i \in DOMAIN stack /\ layer[stack[i].file] <= i}
<1>3. ASSUME Bad # {} PROVE FALSE
  <2>1. PICK k \in Bad : \A j \in Bad : k <= j
    BY <1>3, Least
  <2>2. k \in DOMAIN stack /\ layer[stack[k].file] <= k /\ k \in Nat
    OBVIOUS
  <2> HIDE DEF Bad
  <2>3. k # 1
    BY <1>0, <1>1, <1>2, <2>2
  <2>4. k - 1 \in DOMAIN stack /\ k - 1 \in Nat /\ k - 1 < k
    BY <1>0, <2>2, <2>3
  <2>5. k - 1 \notin Bad
    <3>1. ~(k <= k - 1)
      BY <2>2
    <3> QED BY <2>1, <3>1
  <2>6. ~(layer[stack[k-1].file] <= k - 1)
    BY <2>4, <2>5 DEF Bad
  <2>7. layer[stack[k-1].file] < layer[stack[k].file]
    BY <2>2, <2>4 DEF Descends
  <2> QED BY <1>0, <1>1, <2>2, <2>4, <2>6, <2>7
<1>4. depth < MaxDepth
  <2>1. CASE Len(stack) = 0
    BY <1>0, <2>1, LimitsAssumption DEF depth
  <2>2. CASE Len(stack) # 0
    <3>1. Len(stack) \in DOMAIN stack /\ Len(stack) \in Nat
      BY <1>0, <2>2
    <3>2. ~(layer[stack[Len(stack)].file] <= Len(stack))
      BY <1>3, <3>1
    <3>3. layer[stack[Len(stack)].file] <= MaxDepth /\ layer[stack[Len(stack)].file] \in Nat
      BY <1>0, <1>1, <3>1
    <3> HIDE DEF Bad
    <3> QED BY <3>1, <3>2, <3>3, LimitsAssumption DEF depth
  <2> QED BY <2>1, <2>2
<1>5. ~OnStack(call)
  BY <1>0, <1>2 DEF OnStack
<1> QED BY <1>4, <1>5

------------------------------------------------------------------------------
(* One refusal at most: every open succeeds.  A dependency that a frame has   *)
(* passed is in the process, or core, or the one library that ld.so refuses   *)
(* is there or being brought; once that one is there nothing is refused, and  *)
(* while it is not, everything that a frame has passed is there itself.       *)

OneRefusal == Orderly /\ Complete /\ Cardinality(Refusable) <= 1

\* The libraries that a frame need not wait for any more.
Done == {s \in Sonames : ~Absent(s) \/ s \in Core}

OpensInv == OneRefusal => Settled(Refusable, Done) /\ (Returned => result # None)

LEMMA DoneGrows == [Next]_vars => Done \subseteq Done'
BY LoadedGrows DEF Done, Absent

LEMMA RefusableIs ==
  ASSUME TypeOK, OneRefusal
  PROVE  /\ Refusable \subseteq Sonames \ Core
         /\ \A x, y \in Refusable : x = y
<1>1. Refusable \subseteq Sonames \ Core
  BY DEF Refusable, OneRefusal, Complete, CoreIsOurs
<1>2. \A x, y \in Refusable : x = y
  <2>1. IsFiniteSet(Refusable)
    BY <1>1, SonamesAssumption, FS_Subset
  <2>2. Cardinality(Refusable) \in Nat /\ Cardinality(Refusable) <= 1
    BY <2>1, FS_CardinalityType DEF OneRefusal
  <2>3. CASE Cardinality(Refusable) = 0
    BY <2>1, <2>3, FS_EmptySet
  <2>4. CASE Cardinality(Refusable) = 1
    BY <2>1, <2>4, FS_Singleton
  <2> QED BY <2>2, <2>3, <2>4
<1> QED BY <1>1, <1>2

\* Where nobody names musl's libc, only the dependencies that are named are needed.
LEMMA NeededByName ==
  ASSUME TypeOK, world.musl = {}, NEW o \in Objects
  PROVE  Needed(o) \subseteq Sonames /\ \A s \in Needed(o) : s \in Range(world.needs[o[1]])
                                                             /\ o[1] \in Sonames
<1>1. Needed(o) \subseteq Range(world.needs[o[1]])
  BY DEF Needed
<1>2. \A s \in Needed(o) : o[1] \in Sonames
  BY NeededIs
<1> QED BY <1>1, <1>2, WorldIs

LEMMA NothingMissing ==
  ASSUME WalkInv, Complete, NEW root \in Objects, Placed(root), root[2] # "missing"
  PROVE  ~Missing(root)
<1> DEFINE S == {o \in Objects : o[2] # "missing"}
<1>1. root \in S
  OBVIOUS
<1>2. \A o \in S \ loaded : \A s \in Needed(o) : Found(s, root) \in S
  <2> TAKE o \in S \ loaded
  <2> TAKE s \in Needed(o)
  <2>1. s \in Sonames /\ s \in Range(world.needs[o[1]]) /\ o[1] \in Sonames
    BY WalkIs, NeededByName DEF Complete
  <2>2. s \in world.searched \cup Bundle
    BY <2>1 DEF Complete, AllNeeded
  <2>3. Found(s, root) \in Objects
    BY <2>1, WalkIs, FoundInObjects DEF Names
  <2>4. \A p \in loaded : p[2] # "missing"
    BY WalkIs DEF Where
  <2>5. Found(s, root)[2] # "missing"
    BY <2>1, <2>2, <2>4, WalkIs DEF Found, FirstIs, Names
  <2> QED BY <2>3, <2>5
<1>3. Closure(root) \subseteq S
  BY <1>1, <1>2, ClosureWithin
<1> QED BY <1>3 DEF Missing

\* Whom ld.so refuses: the one library, as the host built it, and not loaded yet.
LEMMA RefusedIs ==
  ASSUME WalkInv, NEW root \in Objects, Placed(root), NEW o \in Refusing(root)
  PROVE  /\ o[1] \in Refusable /\ o[2] = "host" /\ o \notin loaded
         /\ o \in Closure(root) /\ (o = root \/ o = Found(o[1], root))
<1>1. o \in Closure(root) /\ Refuses(o, root)
  BY DEF Refusing
<1>2. o \in Objects /\ (o = root \/ o = Found(o[1], root))
  BY <1>1, WalkIs, ClosureIs
<1>3. o[2] = "host" /\ o \notin loaded /\ o[1] \in Sonames
  BY <1>1, <1>2 DEF Refuses, Objects, Names
<1>4. o[1] \in world.newer \/ world.wants[o[1]] \cap world.outdated # {}
  BY <1>1 DEF Refuses
<1> QED BY <1>1, <1>2, <1>3, <1>4 DEF Refusable

\* A refusal names somebody: one of those that are nearest.
LEMMA SomebodyIsBlamed ==
  ASSUME NEW root, ~Missing(root), Refusing(root) # {}
  PROVE  Blamed(root) # {}
<1> DEFINE level(o) == CHOOSE n \in DOMAIN Reach(root) :
                         o \in Reach(root)[n] /\ \A m \in 0 .. n - 1 : o \notin Reach(root)[m]
<1>1. ASSUME NEW o \in Closure(root) PROVE level(o) \in Nat
  <2> DEFINE T == {n \in Nat : n <= Deepest /\ o \in Reach(root)[n]}
  <2>1. Deepest \in T
    BY <1>1, DeepestIsNat DEF Closure, Deepest
  <2>2. PICK n \in T : \A m \in T : n <= m
    <3> HIDE DEF T
    <3>1. T \in SUBSET Nat /\ T # {}
      BY <2>1 DEF T
    <3> QED BY <3>1, Least
  <2>3. n \in Nat /\ n <= Deepest /\ o \in Reach(root)[n]
    OBVIOUS
  <2> HIDE DEF T
  <2>4. \A m \in 0 .. n - 1 : m \in Nat /\ m <= Deepest /\ ~(n <= m)
    BY <2>3, DeepestIsNat
  <2>5. \A m \in 0 .. n - 1 : o \notin Reach(root)[m]
    BY <2>2, <2>4 DEF T
  <2>6. DOMAIN Reach(root) = 0 .. Deepest
    BY ReachUnfolds
  <2>7. n \in DOMAIN Reach(root)
    BY <2>3, <2>6, DeepestIsNat
  <2>8. level(o) \in 0 .. Deepest
    BY <2>3, <2>5, <2>6, <2>7
  <2> QED BY <2>8, DeepestIsNat
<1> DEFINE Levels == {level(o) : o \in Refusing(root)}
<1>2. Levels \subseteq Nat /\ Levels # {}
  BY <1>1 DEF Refusing
<1>3. PICK k \in Levels : \A j \in Levels : k <= j
  <2> HIDE DEF Levels
  <2> QED BY <1>2, Least
<1>4. PICK o \in Refusing(root) : k = level(o)
  OBVIOUS
<1>5. \A p \in Refusing(root) : level(o) <= level(p)
  BY <1>3, <1>4
<1> HIDE DEF level
<1>6. Blamed(root) = {q \in Refusing(root) : \A p \in Refusing(root) : level(q) <= level(p)}
  BY DEF Blamed, level
<1> QED BY <1>4, <1>5, <1>6

\* A dependency that is in reach and does not load makes the walk harvest.
LEMMA ReachedOrHarvested ==
  ASSUME WalkInv, OneRefusal, AtHostNeed, ~Loads(byName)
  PROVE  Harvests
<1>1. need \in Sonames /\ need \in Range(world.needs[file]) /\ file \in Sonames
  BY WalkIs, NeedIs DEF AtHostNeed
<1>2. need \in world.searched \cup Bundle
  BY <1>1 DEF OneRefusal, Complete, AllNeeded
<1>3. byName \in Objects /\ Placed(byName)
  BY WalkIs, ByNameIs
<1>4. byName[2] # "missing"
  <2>1. \A p \in loaded : p[2] # "missing"
    BY WalkIs DEF Where
  <2>2. need # None
    BY <1>1, NoneAssumption
  <2> QED BY <1>1, <1>2, <2>1, <2>2, WalkIs DEF byName, Found, FirstIs, Names
<1>5. ~Missing(byName)
  BY <1>3, <1>4, NothingMissing DEF OneRefusal
<1>6. Refusing(byName) # {}
  BY <1>5 DEF Loads, OneRefusal, Orderly
<1> QED BY <1>5, <1>6, SomebodyIsBlamed DEF Harvests, OneRefusal, Complete

\* A library loads if nothing in its closure is refused.
LEMMA UnrefusedLoads ==
  ASSUME WalkInv, OneRefusal, NEW root \in Objects, Placed(root), root[2] # "missing",
         Refusing(root) = {}
  PROVE  Loads(root)
<1>1. ~Missing(root)
  BY NothingMissing DEF OneRefusal
<1> QED BY <1>1 DEF Loads, OneRefusal, Orderly

\* Core libraries need each other only, and none is refused.
LEMMA CoreLoads ==
  ASSUME WalkInv, OneRefusal, NEW s \in Walkable, s \in Core
  PROVE  Loads(<<s, "host">>)
<1> DEFINE root == <<s, "host">>
<1>1. root \in Objects /\ Placed(root) /\ root[1] = s /\ root[2] = "host"
  BY HostRoot
<1> HIDE DEF root
<1>0. s \in Sonames
  BY WalkIs
<1> DEFINE S == loaded \cup {o \in Objects : o[1] \in Core}
<1>2. root \in S
  BY <1>1
<1>3. \A o \in S \ loaded : \A d \in Needed(o) : Found(d, root) \in S
  <2> TAKE o \in S \ loaded
  <2> TAKE d \in Needed(o)
  <2>1. d \in Sonames /\ d \in Range(world.needs[o[1]]) /\ o[1] \in Sonames \cap Core
    BY WalkIs, NeededByName DEF OneRefusal, Complete
  <2>2. d \in Core
    BY <2>1 DEF OneRefusal, Complete, CoreIsOurs
  <2>3. Found(d, root) \in Objects /\ Found(d, root)[1] = d
    BY <1>1, <2>1, WalkIs, FoundInObjects DEF Names
  <2> QED BY <2>2, <2>3
<1>4. Closure(root) \subseteq S
  BY <1>2, <1>3, ClosureWithin
<1>5. Refusing(root) = {}
  <2> SUFFICES ASSUME NEW o \in Refusing(root) PROVE FALSE
    OBVIOUS
  <2>1. o[1] \in Refusable /\ o \notin loaded /\ o \in Closure(root)
    BY <1>1, RefusedIs
  <2>2. o[1] \notin Core
    BY <2>1, WalkIs, RefusableIs
  <2> QED BY <1>4, <2>1, <2>2
<1>6. Loads(root)
  BY <1>1, <1>5, UnrefusedLoads
<1> QED BY <1>6 DEF root

\* When a frame's walk is done, ld.so refuses its library at most.
LEMMA OnlyItselfRefused ==
  ASSUME WalkInv, OneRefusal, Settled(Refusable, Done), WalkDone,
         NEW w \in {"host", "copy"}
  PROVE  Refusing(<<file, w>>) \subseteq {<<file, w>>}
<1> DEFINE root == <<file, w>>
<1>1. file \in Walkable /\ file \in Sonames /\ 1 \in DOMAIN stack
  BY WalkIs, TopIs DEF WalkDone, file
<1>2. root \in Objects /\ Placed(root) /\ root[1] = file /\ root[2] = w
  BY <1>1, HostRoot
<1> HIDE DEF root
<1>3. Range(world.needs[file]) \subseteq Passed(1) /\ \A s \in Sonames : ~Awaited(1, s)
  BY WalkIs, AllPassed
<1>4. Refusable \subseteq Sonames \ Core /\ \A x, y \in Refusable : x = y
  BY WalkIs, RefusableIs
<1> SUFFICES ASSUME NEW q \in Refusing(root) PROVE q = root
  BY DEF root
<1>5. /\ q[1] \in Refusable /\ q \notin loaded /\ q \in Closure(root)
      /\ q = root \/ q = Found(q[1], root)
  BY <1>2, RefusedIs
<1>6. CASE ~Absent(q[1])
  <2>1. q[1] \in Names
    BY <1>4, <1>5 DEF Names
  <2> QED BY <1>5, <1>6, <2>1, WalkIs, FoundIs
<1>7. CASE Absent(q[1])
  <2>1. \A d \in Range(world.needs[file]) : ~Absent(d) \/ d \in Core
    <3> TAKE d \in Range(world.needs[file])
    <3>1. PICK s \in Sonames \cap ({d} \cup Refusable) : s \in Done \/ Awaited(1, s)
      BY <1>1, <1>3 DEF Settled
    <3>2. s \in Done
      BY <1>3, <3>1
    <3>3. CASE s = d
      BY <3>2, <3>3 DEF Done
    <3>4. CASE s \in Refusable
      <4>1. s = q[1] /\ s \notin Core
        BY <1>4, <1>5, <3>4
      <4> QED BY <1>7, <3>2, <4>1 DEF Done
    <3> QED BY <3>1, <3>3, <3>4
  <2> DEFINE S == {root} \cup loaded \cup {o \in Objects : o[1] \in Core}
  <2>2. root \in S
    OBVIOUS
  <2>3. \A o \in S \ loaded : \A d \in Needed(o) : Found(d, root) \in S
    <3> TAKE o \in S \ loaded
    <3> TAKE d \in Needed(o)
    <3>1. d \in Sonames /\ d \in Range(world.needs[o[1]]) /\ o[1] \in Sonames
      BY <1>2, WalkIs, NeededByName DEF OneRefusal, Complete
    <3>2. Found(d, root) \in Objects /\ Found(d, root)[1] = d
      BY <1>2, <3>1, WalkIs, FoundInObjects DEF Names
    <3>3. ~Absent(d) \/ d \in Core
      <4>1. CASE o = root
        BY <1>2, <2>1, <3>1, <4>1
      <4>2. CASE o # root
        <5>1. o[1] \in Sonames \cap Core
          BY <3>1, <4>2
        <5> QED BY <3>1, <5>1 DEF OneRefusal, Complete, CoreIsOurs
      <4> QED BY <4>1, <4>2
    <3>4. CASE d \in Core
      BY <3>2, <3>4
    <3>5. CASE ~Absent(d)
      BY <3>1, <3>5, WalkIs, FoundIs DEF Names
    <3> QED BY <3>3, <3>4, <3>5
  <2>4. Closure(root) \subseteq S
    BY <2>2, <2>3, ClosureWithin
  <2> QED BY <1>4, <1>5, <2>4
<1> QED BY <1>6, <1>7

LEMMA OpensReturn ==
  ASSUME WalkInv, NEW layer \in [Sonames -> 1 .. MaxDepth], OnceInv(layer), Recorded,
         OneRefusal, Settled(Refusable, Done), Refusable' = Refusable,
         world' = world, Done \subseteq Done',
         TooDeep \/ Cached \/ AlreadyOpen \/ OpenCore \/ Cycle \/ OpenOpaque
  PROVE  Settled(Refusable, Done)' /\ result' # None
<1>1. call \in Walkable /\ call \in Sonames /\ stack' = stack /\ stack \in Seq(Frames)
  BY WalkIs DEF TooDeep, Cached, AlreadyOpen, Cycle, OpenCore, OpenOpaque, Unopened
<1>2. depth < MaxDepth /\ ~OnStack(call)
  BY <1>1, NeverTooDeep, NoneAssumption DEF OnceInv
<1>3. depth \in Int /\ MaxDepth \in Int
  BY <1>1, LimitsAssumption DEF depth
<1>4. ~TooDeep /\ ~Cycle /\ ~OpenOpaque
  BY <1>2, <1>3 DEF TooDeep, Cycle, OpenOpaque, OneRefusal, Orderly
<1>5. CASE Cached
  <2>1. cache[call] # None /\ result' = cache[call]
    BY <1>5 DEF Cached, Return
  <2>2. call \in Done
    BY <1>1, <2>1 DEF Recorded, Done
  <2> QED BY <1>1, <2>1, <2>2, SettledReturn
<1>6. CASE AlreadyOpen
  <2>1. result' = "host" /\ <<call, "host">> \in loaded
    BY <1>6 DEF AlreadyOpen, Return
  <2>2. call \in Done
    BY <1>1, <2>1 DEF Absent, Done
  <2> QED BY <1>1, <2>1, <2>2, NoneAssumption, SettledReturn DEF Where
<1>7. CASE OpenCore
  <2>1. call \in Core /\ LoadAsIs(call)
    BY <1>7 DEF OpenCore
  <2>2. Loads(<<call, "host">>)
    BY <1>1, <2>1, CoreLoads
  <2>3. result' = "host"
    BY <2>1, <2>2 DEF LoadAsIs, Return
  <2>4. call \in Done
    BY <1>1, <2>1 DEF Done
  <2> QED BY <1>1, <2>3, <2>4, NoneAssumption, SettledReturn DEF Where
<1> QED BY <1>4, <1>5, <1>6, <1>7

LEMMA OpensNeed ==
  ASSUME WalkInv, OneRefusal, Settled(Refusable, Done), Refusable' = Refusable,
         world' = world, Done \subseteq Done',
         SkipCore \/ TakeBundled \/ Probe \/ Harvest \/ Hunt \/ NotFound
  PROVE  Settled(Refusable, Done)' /\ stack' # <<>>
<1>1. NextNeed /\ AtNeed
  BY DEF SkipCore, TakeBundled, Probe, Harvest, Hunt, NotFound, Hunts, AtHostNeed
<1>2. need \in Sonames /\ stack # <<>>
  BY <1>1, WalkIs, NeedIs
<1>3. stack' # <<>>
  BY <1>1, <1>2, WalkIs, NextNeedIs
<1>4. \E s \in Sonames \cap ({need} \cup Refusable) : s \in Done' \/ call' = s
  <2>1. CASE SkipCore
    <3>1. need \in Done
      BY <1>2, <2>1 DEF SkipCore, Done
    <3> QED BY <1>2, <3>1
  <2>2. CASE TakeBundled
    <3>1. loaded' = loaded \cup {<<need, "app">>} /\ <<need, "app">>[1] = need
      BY <2>2, AddLoads DEF TakeBundled
    <3>2. need \in Done'
      BY <1>2, <3>1 DEF Done, Absent
    <3> QED BY <1>2, <3>2
  <2>3. CASE Probe
    <3>1. AtHostNeed /\ loaded' = loaded \cup Closure(byName)
      BY <2>3, AddLoads DEF Probe
    <3>2. byName[1] = need
      BY <3>1, WalkIs, ByNameIs
    <3>3. byName \in loaded'
      BY <3>1, RootIsLoaded
    <3>4. need \in Done'
      BY <1>2, <3>2, <3>3 DEF Done, Absent
    <3> QED BY <1>2, <3>4
  <2>4. CASE Harvest
    <3>1. AtHostNeed
      BY <2>4 DEF Harvest
    <3>2. PICK o \in Blamed(byName) : call' = o[1]
      BY <2>4 DEF Harvest
    <3>3. byName \in Objects /\ Placed(byName) /\ o \in Refusing(byName)
      BY <3>1, WalkIs, ByNameIs DEF Blamed
    <3>4. o[1] \in Refusable /\ o[1] \in Sonames
      BY <3>3, RefusedIs DEF Refusable
    <3> QED BY <3>2, <3>4
  <2>5. CASE Hunt \/ NotFound
    <3>1. Hunts /\ world.musl = {}
      BY <2>5 DEF Hunt, NotFound, OneRefusal, Complete
    <3> QED BY <3>1, ReachedOrHarvested DEF Hunts
  <2> QED BY <2>1, <2>2, <2>3, <2>4, <2>5
<1> QED BY <1>1, <1>3, <1>4, WalkIs, SettledNeed

LEMMA OpensEnd ==
  ASSUME WalkInv, OneRefusal, Settled(Refusable, Done),
         Refusable' = Refusable, world' = world, Done \subseteq Done',
         Keep \/ Rewrite \/ DryRun
  PROVE  Settled(Refusable, Done)' /\ result' # None
<1>1. WalkDone /\ stack' = Tail(stack)
  BY FrameEndIs DEF LeaveFrame
<1>2. file \in Walkable /\ file \in Sonames
  BY <1>1, WalkIs, TopIs DEF WalkDone, file
<1> DEFINE root(w) == <<file, w>>
<1>3. \A w \in {"host", "copy"} : /\ root(w) \in Objects /\ Placed(root(w)) /\ root(w)[2] = w
                                  /\ Refusing(root(w)) \subseteq {root(w)}
  BY <1>1, <1>2, HostRoot, OnlyItselfRefused
<1>4. PICK w \in {"host", "copy"} : Record(root(w))
  <2>1. CASE Keep
    <3>1. ~Refuses(root("host"), root("host"))
      <4>1. PICK asked \in SUBSET Sonames : Satisfied(file, asked)
        BY <2>1 DEF Keep
      <4>2. Satisfied(file, world.wants[file])
        BY <4>1 DEF Satisfied
      <4>3. file \notin world.musl
        BY <2>1 DEF Keep
      <4> QED BY <1>1, <4>2, <4>3, KeptLoads DEF KeptObjectsLoad
    <3>2. Refusing(root("host")) = {}
      BY <1>3, <3>1 DEF Refusing
    <3>3. Loads(root("host"))
      BY <1>3, <3>2, UnrefusedLoads
    <3> QED BY <2>1, <3>3 DEF Keep
  <2>2. CASE Rewrite
    <3>1. Refusing(root("copy")) = {}
      BY <1>3 DEF Refusing, Refuses
    <3>2. Loads(root("copy"))
      BY <1>3, <3>1, UnrefusedLoads
    <3> QED BY <2>2, <3>2 DEF Rewrite
  <2>3. ~DryRun
    BY DEF DryRun, OneRefusal, Complete
  <2> QED BY <2>1, <2>2, <2>3
<1>5. result' = w /\ loaded' = loaded \cup Closure(root(w)) /\ root(w)[1] = file
  BY <1>4, AddLoads DEF Record
<1>6. file \in Done'
  <2>1. root(w) \in loaded'
    BY <1>5, RootIsLoaded
  <2> QED BY <1>2, <1>5, <2>1 DEF Done, Absent
<1>7. result' # None
  BY <1>5, NoneAssumption DEF Where
<1> QED BY <1>1, <1>6, <1>7, WalkIs, SettledEnd

LEMMA OpensNext ==
  WalkInv /\ LayeredOnce /\ Recorded /\ OpensInv /\ [Next]_vars => OpensInv'
<1> SUFFICES ASSUME WalkInv, LayeredOnce, Recorded, OpensInv, [Next]_vars, OneRefusal'
             PROVE  Settled(Refusable, Done)' /\ (Returned => result # None)'
  BY DEF OpensInv
<1>1. world' = world /\ Done \subseteq Done'
  BY WorldStays, DoneGrows
<1>2. OneRefusal /\ Refusable' = Refusable
  BY <1>1 DEF OneRefusal, Orderly, Layered, Complete, AllNeeded, Refusable, CoreIsOurs, Bundle
<1>3. Settled(Refusable, Done) /\ (Returned => result # None)
  BY <1>2 DEF OpensInv
<1>4. PICK layer \in [Sonames -> 1 .. MaxDepth] : OnceInv(layer)
  BY <1>2 DEF OneRefusal, Orderly, Layered, LayeredOnce, Layering
<1>6. CASE UNCHANGED vars
  <2>1. Settled(Refusable, Done)'
    BY <1>1, <1>2, <1>3, <1>6, SettledStutter DEF vars
  <2> QED BY <1>3, <1>6, <2>1 DEF vars, Returned
<1>7. CASE TooDeep \/ Cached \/ AlreadyOpen \/ OpenCore \/ Cycle \/ OpenOpaque
  BY <1>1, <1>2, <1>3, <1>4, <1>7, OpensReturn
<1>8. CASE Descend
  <2>1. call \in Sonames /\ stack \in Seq(Frames)
    BY <1>8, WalkIs DEF Descend, Unopened
  <2>2. stack' # <<>>
    BY <1>8, <2>1 DEF Descend
  <2> QED BY <1>1, <1>2, <1>3, <1>8, <2>1, <2>2, SettledDescend DEF Returned
<1>9. CASE SkipCore \/ TakeBundled \/ Probe \/ Harvest \/ Hunt \/ NotFound
  BY <1>1, <1>2, <1>3, <1>9, OpensNeed DEF Returned
<1>10. CASE Keep \/ Rewrite \/ DryRun
  BY <1>1, <1>2, <1>3, <1>10, OpensEnd
<1>11. ASSUME NEW s \in Sonames, Open(s) PROVE Settled(Refusable, Done)' /\ ~Returned'
  BY <1>11, SettledOpen, NoneAssumption DEF Open, Returned
<1> QED BY <1>6, <1>7, <1>8, <1>9, <1>10, <1>11 DEF Next, Load

LEMMA OpensInit == Init => Recorded /\ OpensInv
BY DEF Init, Recorded, OpensInv, Settled, Returned

\* Where ld.so would refuse one library at most, anywhere in the closure, the
\* walk brings that one in, rewritten, before anything that needs it is loaded,
\* and every open of every host library returns a handle.
THEOREM OneRefusalIsOvercome == Spec => []OneRefusalOpens
<1>1. OpensInv => OneRefusalOpens
  BY DEF OpensInv, OneRefusal, OneRefusalOpens
<1> QED BY <1>1, WalkInit, WalkNext, OnceInit, OnceNext, OpensInit, RecordedNext, OpensNext,
           PTL DEF Spec

------------------------------------------------------------------------------
(* A closure is closed: each edge brings a name, and there are no more names, *)
(* the root counted apart, than edges that Reach follows.                     *)

Tags == Names \cup {None}

LEMMA TagsAreFinite == IsFiniteSet(Tags) /\ Cardinality(Tags) = Deepest
<1>1. IsFiniteSet(Names) /\ Cardinality(Names) = Cardinality(Sonames) + 1
  BY SonamesAssumption, FS_AddElement DEF Names
<1>2. None \notin Names
  BY NoneAssumption DEF Names
<1>3. IsFiniteSet(Tags) /\ Cardinality(Tags) = (Cardinality(Sonames) + 1) + 1
  BY <1>1, <1>2, FS_AddElement DEF Tags
<1>4. Cardinality(Sonames) \in Nat
  BY SonamesAssumption, FS_CardinalityType
<1> QED BY <1>3, <1>4 DEF Deepest

LEMMA ReachStops ==
  ASSUME TypeOK, WellPlaced, NEW root \in Objects, Placed(root)
  PROVE  \E n \in 0 .. Deepest - 1 : Reach(root)[n + 1] = Reach(root)[n]
<1> DEFINE R == Reach(root)
           Tag(o) == IF o = root THEN None ELSE o[1]
           N(n) == {Tag(o) : o \in R[n]}
<1>1. \A n \in 0 .. Deepest : R[n] \subseteq Closure(root)
  <2>1. Deepest \in 0 .. Deepest
    BY DeepestIsNat
  <2> QED BY <2>1, ReachGrows DEF Closure, Deepest
<1>2. /\ \A o \in Closure(root) : (o = root \/ o = Found(o[1], root)) /\ o[1] \in Names
      /\ None \notin Names
  BY ClosureIs, NoneAssumption DEF Objects, Names
<1>3. \A n \in 0 .. Deepest : N(n) \subseteq Tags /\ IsFiniteSet(N(n))
                              /\ Cardinality(N(n)) \in Nat
  <2> TAKE n \in 0 .. Deepest
  <2>1. N(n) \subseteq Tags
    BY <1>1, <1>2 DEF Tags
  <2> HIDE DEF N
  <2>2. IsFiniteSet(N(n))
    BY <2>1, TagsAreFinite, FS_Subset
  <2> QED BY <2>1, <2>2, FS_CardinalityType
<1>4. ASSUME NEW n \in 0 .. Deepest, NEW m \in 0 .. n, R[m] # R[n]
      PROVE  Cardinality(N(m)) + 1 <= Cardinality(N(n))
  <2>1. R[m] \subseteq R[n] /\ m \in 0 .. Deepest
    BY ReachGrows, DeepestIsNat
  <2>2. PICK o \in R[n] : o \notin R[m]
    BY <1>4, <2>1
  <2>3. ASSUME NEW p \in R[m], Tag(p) = Tag(o) PROVE FALSE
    <3>1. /\ p = root \/ (p = Found(p[1], root) /\ p[1] # None)
          /\ o = root \/ (o = Found(o[1], root) /\ o[1] # None)
      BY <1>1, <1>2, <2>1, <2>2
    <3> QED BY <2>2, <2>3, <3>1
  <2>4. N(m) \subseteq N(n) /\ N(m) # N(n)
    BY <2>1, <2>2, <2>3
  <2> HIDE DEF N
  <2>5. IsFiniteSet(N(n)) /\ Cardinality(N(n)) \in Nat /\ Cardinality(N(m)) \in Nat
    BY <1>3, <2>1
  <2>6. Cardinality(N(m)) <= Cardinality(N(n)) /\ Cardinality(N(n)) # Cardinality(N(m))
    BY <2>4, <2>5, FS_Subset
  <2> QED BY <2>5, <2>6
<1>5. SUFFICES ASSUME \A n \in 0 .. Deepest - 1 : R[n + 1] # R[n]
               PROVE  FALSE
  OBVIOUS
<1> DEFINE Bad == {n \in Nat : n <= Deepest /\ ~(n + 1 <= Cardinality(N(n)))}
<1>6. ASSUME Bad # {} PROVE FALSE
  <2>1. PICK k \in Bad : \A j \in Bad : k <= j
    BY <1>6, Least
  <2>2. k \in Nat /\ k <= Deepest /\ ~(k + 1 <= Cardinality(N(k)))
    OBVIOUS
  <2> HIDE DEF Bad, N, R
  <2>3. CASE k = 0
    <3>1. R[0] = {root}
      BY ReachUnfolds, DeepestIsNat DEF R
    <3>2. N(0) = {None}
      BY <3>1 DEF N
    <3>3. Cardinality(N(0)) = 1
      BY <3>2, FS_Singleton
    <3> QED BY <2>2, <2>3, <3>3
  <2>4. CASE k # 0
    <3>1. /\ k - 1 \in Nat /\ k - 1 <= Deepest /\ ~(k <= k - 1) /\ (k - 1) + 1 = k
          /\ k - 1 \in 0 .. Deepest - 1 /\ k \in 0 .. Deepest /\ k - 1 \in 0 .. k
      BY <2>2, <2>4, DeepestIsNat
    <3>2. (k - 1) + 1 <= Cardinality(N(k-1))
      BY <2>1, <3>1 DEF Bad
    <3>3. R[k] # R[k-1]
      BY <1>5, <3>1
    <3>4. Cardinality(N(k-1)) + 1 <= Cardinality(N(k))
      BY <1>4, <3>1, <3>3
    <3>5. Cardinality(N(k-1)) \in Nat /\ Cardinality(N(k)) \in Nat
      <4>1. k - 1 \in 0 .. Deepest
        BY <3>1
      <4> QED BY <1>3, <3>1, <4>1
    <3> QED BY <2>2, <3>1, <3>2, <3>4, <3>5
  <2> QED BY <2>3, <2>4
<1> HIDE DEF N, R
<1>10. Deepest \in Nat /\ Deepest \in 0 .. Deepest /\ Deepest <= Deepest
  BY DeepestIsNat
<1>7. Deepest + 1 <= Cardinality(N(Deepest))
  BY <1>10, <1>6
<1>8. Cardinality(N(Deepest)) \in Nat /\ N(Deepest) \subseteq Tags
  BY <1>10, <1>3
<1>9. Cardinality(N(Deepest)) <= Deepest
  BY <1>8, TagsAreFinite, FS_Subset
<1> QED BY <1>7, <1>8, <1>9, DeepestIsNat

LEMMA ClosureIsClosed ==
  ASSUME TypeOK, WellPlaced, NEW root \in Objects, Placed(root)
  PROVE  \A o \in Closure(root) \ loaded : \A s \in Needed(o) : Found(s, root) \in Closure(root)
<1> DEFINE R == Reach(root)
<1>1. PICK n \in 0 .. Deepest - 1 : R[n + 1] = R[n]
  BY ReachStops
<1>2. n \in Nat /\ n < Deepest
  BY DeepestIsNat
<1>3. \A m \in 0 .. Deepest : m # 0 => R[m] = Spread(root, R[m-1])
  BY ReachUnfolds
<1>4. Spread(root, R[n]) = R[n]
  <2>1. n + 1 \in 0 .. Deepest /\ n + 1 # 0 /\ (n + 1) - 1 = n
    BY <1>2, DeepestIsNat
  <2> HIDE DEF R
  <2> QED BY <1>1, <1>3, <2>1
<1> DEFINE Bad == {m \in Nat : n <= m /\ m <= Deepest /\ R[m] # R[n]}
<1>5. ASSUME Bad # {} PROVE FALSE
  <2>1. PICK k \in Bad : \A j \in Bad : k <= j
    BY <1>5, Least
  <2>2. k \in Nat /\ n <= k /\ k <= Deepest /\ R[k] # R[n]
    OBVIOUS
  <2> HIDE DEF Bad, R
  <2>3. k # n
    BY <2>2
  <2>4. k - 1 \in Nat /\ n <= k - 1 /\ k - 1 <= Deepest /\ ~(k <= k - 1)
        /\ k \in 0 .. Deepest /\ k # 0
    BY <1>2, <2>2, <2>3, DeepestIsNat
  <2>5. R[k-1] = R[n]
    BY <2>1, <2>4 DEF Bad
  <2>6. R[k] = Spread(root, R[k-1])
    BY <1>3, <2>4
  <2> QED BY <1>4, <2>2, <2>5, <2>6
<1>6. R[Deepest] = R[n]
  BY <1>2, <1>5, DeepestIsNat
<1>7. Spread(root, Closure(root)) = Closure(root)
  BY <1>4, <1>6 DEF Closure, Deepest
<1> QED BY <1>7 DEF Spread, Brings

------------------------------------------------------------------------------
(* Musl's libc stays out of an orderly and unmixed host.  Nothing that names  *)
(* it is ever loaded as it is: a library that can be loaded gets a copy, with *)
(* all that it needs loaded before or free of musl, and one that needs what   *)
(* neither the host nor the bundle has cannot be loaded by any means.         *)

Tidy == Orderly /\ Unmixed

\* The host and the bundle have it, and all that it needs.
Whole(d) ==
  \E S \in SUBSET Sonames :
    /\ d \in S
    /\ \A s \in S : \/ s \in Bundle
                    \/ s \in world.installed /\ Range(world.needs[s]) \subseteq S

\* The host's own file can be loaded.
Loadable(s) == s \in world.installed /\ \A d \in Range(world.needs[s]) : Whole(d)

\* Neither musl's libc nor anything that brings it.
Clean(o) == o[1] # Musl /\ (o[1] \in world.musl => o[2] # "host")

LEMMA WholeNeeds ==
  ASSUME NEW s, Whole(s), s \notin Bundle
  PROVE  Loadable(s)
BY DEF Whole, Loadable

LEMMA WholeIf ==
  ASSUME NEW S \in SUBSET Sonames, NEW d \in S,
         \A s \in S : \/ s \in Bundle \/ Whole(s)
                      \/ s \in world.installed /\ Range(world.needs[s]) \subseteq S
  PROVE  Whole(d)
<1> DEFINE T == S \cup {s \in Sonames : Whole(s)}
<1>1. \A s \in T : s \in Bundle \/ (s \in world.installed /\ Range(world.needs[s]) \subseteq T)
  <2> TAKE s \in T
  <2>1. CASE Whole(s) /\ s \notin Bundle
    <3>1. s \in world.installed /\ \A e \in Range(world.needs[s]) : Whole(e)
      BY <2>1, WholeNeeds DEF Loadable
    <3>2. \A e : Whole(e) => e \in Sonames
      BY DEF Whole
    <3> QED BY <3>1, <3>2
  <2>2. CASE ~Whole(s)
    BY <2>2
  <2> QED BY <2>1, <2>2
<1> QED BY <1>1 DEF Whole

\* The libraries that a frame need not wait for any more: there, passed by, or not
\* to be had.
Fared ==
  {s \in Sonames : world.dryrun \/ s \in Core \/ ~Absent(s) \/ ~Loadable(s)}

\* What a walk has opened and is to open is the host's; what it has loaded is
\* whole, and brings no libc of its own.
MuslInv ==
  Tidy =>
    /\ Settled({}, Fared)
    /\ \A o \in loaded : Clean(o) /\ Whole(o[1])
    /\ call # None => call \in world.installed
    /\ \A i \in DOMAIN stack : stack[i].file \in world.installed

LEMMA FaredGrows == [Next]_vars => Fared \subseteq Fared'
BY LoadedGrows, WorldStays DEF Fared, Absent, Loadable, Whole, Bundle

\* What answers to a name that is not in the process.
LEMMA FreshIs ==
  ASSUME WellPlaced, NEW s \in Names, Absent(s), NEW root, s # root[1]
  PROVE  Found(s, root) = <<s, IF s \in Bundle THEN "app"
                               ELSE IF s \in world.searched THEN "host" ELSE "missing">>
BY DEF Found, WellPlaced, FirstIs, Absent

\* No version check ever fails, so ld.so loads whatever is all there.
LEMMA NoneRefused ==
  ASSUME WalkInv, Tidy, NEW root \in Objects, Placed(root)
  PROVE  Refusing(root) = {} /\ (~Missing(root) => Loads(root))
<1>1. ASSUME NEW o \in Refusing(root) PROVE FALSE
  <2>1. o[1] \in Refusable
    BY RefusedIs
  <2>2. o[1] \notin world.musl
    BY DEF Refusing, Refuses
  <2> QED BY <2>1, <2>2 DEF Tidy, Unmixed
<1> QED BY <1>1 DEF Loads, Tidy, Orderly

\* The needs of what does not name musl's libc do not, unless they are bundled.
LEMMA CleanNeeds ==
  ASSUME WalkInv, Tidy, NEW s \in Sonames, s \notin world.musl, NEW w,
         NEW d \in Needed(<<s, w>>)
  PROVE  d \in Sonames /\ d \in Range(world.needs[s]) /\ (d \in world.musl => d \in Bundle)
<1>1. d \in Range(world.needs[s])
  BY DEF Needed
<1> QED BY <1>1, WalkIs, WorldIs DEF Tidy, Unmixed

\* So whatever ld.so loads with it is clean.
LEMMA ClosureIsClean ==
  ASSUME WalkInv, Tidy, NEW root \in Objects, Placed(root),
         root[1] \notin world.musl \cup {Musl}
  PROVE  \A o \in Closure(root) : o \in loaded \/ Clean(o)
<1> DEFINE S == loaded \cup {o \in Objects : /\ o[1] # Musl
                                             /\ o[1] \in world.musl => o[2] = "app"}
<1>1. root \in S
  OBVIOUS
<1>2. \A o \in S \ loaded : \A d \in Needed(o) : Found(d, root) \in S
  <2> TAKE o \in S \ loaded
  <2> TAKE d \in Needed(o)
  <2>1. o[1] \in Sonames /\ o[2] # "app" /\ o = <<o[1], o[2]>>
    BY DEF Needed, Objects, Names
  <2>2. d \in Sonames /\ (d \in world.musl => d \in Bundle)
    BY <2>1, CleanNeeds
  <2>3. d \in Names /\ d # Musl
    BY <2>2, SonamesAssumption DEF Names
  <2>4. CASE Found(d, root) \in loaded \cup {root}
    BY <1>1, <2>4
  <2>5. CASE Absent(d) /\ d # root[1]
    <3>1. Found(d, root) \in Objects /\ Found(d, root)[1] = d
      BY <2>3, WalkIs, FoundInObjects
    <3>2. d \in Bundle => Found(d, root)[2] = "app"
      BY <2>3, <2>5, WalkIs, FreshIs
    <3> QED BY <2>2, <2>3, <3>1, <3>2
  <2> QED BY <2>3, <2>4, <2>5, WalkIs, FoundIs
<1>3. Closure(root) \subseteq S
  BY <1>1, <1>2, ClosureWithin
<1> QED BY <1>3 DEF Clean

\* What ld.so loads is whole, and what it loads from a file of the host can be loaded.
LEMMA LoadsWhole ==
  ASSUME WalkInv, \A o \in loaded : Whole(o[1]),
         NEW root \in Objects, Placed(root), root[1] \in Sonames, Loads(root),
         root \in loaded \/ root[2] = "app" \/ root[1] \in world.installed
  PROVE  /\ \A o \in Closure(root) : o[1] \in Sonames => Whole(o[1])
         /\ root \notin loaded /\ root[2] # "app" => Loadable(root[1])
<1>1. world.searched \subseteq world.installed \cup {Musl}
  BY WalkIs DEF TypeOK, WorldType
<1>2. \A o \in Closure(root) : /\ o \in Objects /\ Placed(o) /\ o[2] # "missing"
                               /\ o = root \/ o = Found(o[1], root)
  BY WalkIs, ClosureIs DEF Loads, Missing
<1> DEFINE S == {n \in Sonames : \E o \in Closure(root) : o[1] = n}
<1>3. ASSUME NEW o \in Closure(root), o \notin loaded, o[2] # "app", o[1] \in Sonames
      PROVE  Range(world.needs[o[1]]) \subseteq S
  <2>1. o[2] \notin {"app", "missing"} /\ o[1] # Musl
    BY <1>2, <1>3, SonamesAssumption
  <2>2. Range(world.needs[o[1]]) \subseteq Needed(o)
    BY <2>1 DEF Needed
  <2> SUFFICES ASSUME NEW d \in Range(world.needs[o[1]]) PROVE d \in S
    OBVIOUS
  <2>3. d \in Sonames
    BY <1>3, WalkIs, WorldIs
  <2>4. Found(d, root) \in Closure(root)
    BY <1>3, <2>2, WalkIs, ClosureIsClosed
  <2>5. Found(d, root)[1] = d
    BY <2>3, WalkIs, FoundInObjects DEF Names
  <2> QED BY <2>3, <2>4, <2>5
<1>4. ASSUME NEW n \in S
      PROVE  \/ n \in Bundle \/ Whole(n)
             \/ n \in world.installed /\ Range(world.needs[n]) \subseteq S
  <2>1. PICK o \in Closure(root) : o[1] = n
    BY <1>4
  <2>2. CASE o \in loaded
    BY <2>1, <2>2
  <2>3. CASE o \notin loaded /\ o[2] # "app"
    <3>1. Range(world.needs[n]) \subseteq S
      BY <1>3, <2>1, <2>3
    <3>2. CASE o = root
      BY <2>1, <2>3, <3>1, <3>2
    <3>3. CASE o = Found(n, root) /\ Absent(n) /\ n # root[1]
      <4>1. n \in Names /\ n # Musl
        BY SonamesAssumption DEF Names
      <4>2. n \in Bundle \cup world.searched
        BY <1>2, <2>1, <3>3, <4>1, WalkIs, FreshIs
      <4> QED BY <1>1, <3>1, <4>1, <4>2
    <3>4. n \in Names
      BY DEF Names
    <3> QED BY <1>2, <2>1, <2>3, <3>2, <3>3, <3>4, WalkIs, FoundIs
  <2>4. CASE o[2] = "app"
    BY <1>2, <2>1, <2>4 DEF Placed
  <2> QED BY <2>2, <2>3, <2>4
<1>5. \A n \in S : Whole(n)
  <2> HIDE DEF S
  <2>1. S \subseteq Sonames
    BY DEF S
  <2> QED BY <1>4, <2>1, WholeIf
<1>6. root \in Closure(root)
  BY RootIsLoaded
<1>7. root \notin loaded /\ root[2] # "app" => Loadable(root[1])
  <2> SUFFICES ASSUME root \notin loaded, root[2] # "app" PROVE Loadable(root[1])
    OBVIOUS
  <2>1. Range(world.needs[root[1]]) \subseteq S
    BY <1>3, <1>6
  <2> HIDE DEF S
  <2> QED BY <1>5, <2>1 DEF Loadable
<1> QED BY <1>5, <1>7

\* A copy, or a file that does not name musl's libc, loads when each library that it
\* needs is there, bundled or core, and brings nothing but these and itself.
LEMMA AllThereLoads ==
  ASSUME WalkInv, Tidy, \A o \in loaded : Clean(o),
         NEW s \in Walkable, NEW w \in {"host", "copy"}, w = "copy" \/ s \notin world.musl,
         \A d \in Range(world.needs[s]) : ~Absent(d) \/ d \in Bundle \/ d \in Core
  PROVE  Loads(<<s, w>>) /\ \A o \in Closure(<<s, w>>) : Clean(o)
<1> DEFINE root == <<s, w>>
<1>1. root \in Objects /\ Placed(root) /\ root[1] = s /\ root[2] = w /\ s \in Sonames
  BY HostRoot, WalkIs
<1> HIDE DEF root
<1> DEFINE S == loaded \cup {root}
                  \cup {o \in Objects : /\ o[1] \in Sonames
                                        /\ o[2] = "app" \/ (o[2] = "host" /\ o[1] \in Core)}
<1>2. ASSUME NEW o \in S \ loaded, NEW d \in Needed(o)
      PROVE  /\ d \in Sonames
             /\ ~Absent(d) \/ d \in Bundle \/ (d \in Core /\ d \in AllNeeded)
  <2>1. CASE o = root
    <3>1. d \in Range(world.needs[s])
      BY <1>1, <1>2, <2>1 DEF Needed
    <3> QED BY <1>1, <3>1, WalkIs, WorldIs DEF AllNeeded
  <2>2. CASE o # root
    <3>1. o \in Objects /\ o[1] \in Sonames \cap Core /\ o[2] = "host" /\ o = <<o[1], o[2]>>
      BY <1>2, <2>2 DEF Needed, Objects
    <3>2. o[1] \notin world.musl /\ Range(world.needs[o[1]]) \subseteq Core
      BY <3>1 DEF Tidy, Unmixed, CoreIsOurs
    <3>3. d \in Sonames /\ d \in Range(world.needs[o[1]])
      BY <1>2, <3>1, <3>2, CleanNeeds
    <3> QED BY <3>1, <3>2, <3>3 DEF AllNeeded
  <2> QED BY <2>1, <2>2
<1>3. \A o \in S \ loaded : \A d \in Needed(o) : Found(d, root) \in S
  <2> TAKE o \in S \ loaded
  <2> TAKE d \in Needed(o)
  <2>1. d \in Names /\ d \in Sonames
    BY <1>2 DEF Names
  <2>2. CASE Found(d, root) \in loaded \cup {root}
    BY <2>2
  <2>3. CASE Absent(d) /\ d # root[1]
    <3>1. Found(d, root) \in Objects /\ Found(d, root)[1] = d
      BY <1>1, <2>1, WalkIs, FoundInObjects
    <3>2. d \in Bundle \cup world.searched /\ (d \notin Bundle => d \in Core)
      BY <1>2, <2>1, <2>3, SonamesAssumption DEF Tidy, Unmixed, Core
    <3>3. Found(d, root)[2] = "app" \/ (Found(d, root)[2] = "host" /\ d \in Core)
      BY <2>1, <2>3, <3>2, WalkIs, FreshIs
    <3> QED BY <2>1, <3>1, <3>3
  <2> QED BY <2>1, <2>2, <2>3, WalkIs, FoundIs
<1>4. Closure(root) \subseteq S
  <2>1. root \in S
    OBVIOUS
  <2> QED BY <1>3, <2>1, ClosureWithin
<1>5. ~Missing(root)
  <2>1. \A o \in loaded : o[2] # "missing"
    BY WalkIs DEF Where
  <2> QED BY <1>1, <1>4, <2>1 DEF Missing
<1>6. \A o \in S : Clean(o)
  <2>1. \A c \in Sonames \cap Core : c \notin world.musl
    BY DEF Tidy, Unmixed, CoreIsOurs
  <2> QED BY <1>1, <2>1, SonamesAssumption DEF Clean
<1>7. Loads(root)
  BY <1>1, <1>5, NoneRefused
<1> QED BY <1>4, <1>6, <1>7 DEF root

\* What the steps before the walk leave.
LEMMA MuslReturn ==
  ASSUME WalkInv, NEW layer \in [Sonames -> 1 .. MaxDepth], OnceInv(layer), Recorded,
         Tidy, MuslInv, world' = world, Fared \subseteq Fared',
         TooDeep \/ Cached \/ AlreadyOpen \/ OpenCore \/ Cycle \/ OpenOpaque
  PROVE  /\ Settled({}, Fared)' /\ stack' = stack /\ call' = None
         /\ \A o \in loaded' : Clean(o) /\ Whole(o[1])
<1>1. /\ call \in Walkable /\ call \in Sonames /\ stack' = stack /\ stack \in Seq(Frames)
      /\ call \in world.installed /\ call # None
      /\ Settled({}, Fared) /\ \A o \in loaded : Clean(o) /\ Whole(o[1])
  BY WalkIs DEF TooDeep, Cached, AlreadyOpen, Cycle, OpenCore, OpenOpaque, Unopened, MuslInv
<1>2. depth < MaxDepth /\ ~OnStack(call)
  BY <1>1, NeverTooDeep DEF OnceInv
<1>3. depth \in Int /\ MaxDepth \in Int
  BY <1>1, LimitsAssumption DEF depth
<1>4. ~TooDeep /\ ~Cycle /\ ~OpenOpaque
  BY <1>2, <1>3 DEF TooDeep, Cycle, OpenOpaque, Tidy, Orderly
<1>5. CASE Cached \/ AlreadyOpen
  <2>1. loaded' = loaded /\ call' = None
    BY <1>5 DEF Cached, AlreadyOpen, Return
  <2>2. cache[call] # None \/ <<call, "host">> \in loaded
    BY <1>5 DEF Cached, AlreadyOpen
  <2>3. call \in Fared
    BY <1>1, <2>2 DEF Recorded, Fared, Absent
  <2> QED BY <1>1, <2>1, <2>3, SettledReturn
<1>6. CASE OpenCore
  <2> DEFINE root == <<call, "host">>
  <2>1. call \in Core /\ call' = None /\ Add(IF Loads(root) THEN Closure(root) ELSE {})
    BY <1>6 DEF OpenCore, LoadAsIs, Return
  <2>2. call \in Fared
    BY <1>1, <2>1 DEF Fared
  <2>3. Settled({}, Fared)'
    BY <1>1, <2>2, SettledReturn
  <2>4. root \in Objects /\ Placed(root) /\ root[1] = call /\ root[2] = "host"
    BY <1>1, HostRoot
  <2>5. call \notin world.musl /\ call # Musl
    BY <1>1, <2>1, SonamesAssumption DEF Tidy, Unmixed, CoreIsOurs
  <2> HIDE DEF root
  <2>6. CASE Loads(root)
    <3>1. \A o \in Closure(root) : o \in loaded \/ Clean(o)
      BY <2>4, <2>5, ClosureIsClean
    <3>2. \A o \in Closure(root) : o[1] \in Sonames => Whole(o[1])
      BY <1>1, <2>4, <2>6, LoadsWhole
    <3>3. \A o \in Closure(root) : o[1] \in Names
      BY <2>4, WalkIs, ClosureIs DEF Objects
    <3>4. loaded' = loaded \cup Closure(root)
      BY <2>1, <2>6, AddLoads
    <3> QED BY <1>1, <2>1, <2>3, <3>1, <3>2, <3>3, <3>4 DEF Clean, Names
  <2>7. CASE ~Loads(root)
    <3>1. loaded' = loaded \cup {}
      BY <2>1, <2>7, AddLoads
    <3> QED BY <1>1, <2>1, <2>3, <3>1
  <2> QED BY <2>6, <2>7
<1> QED BY <1>4, <1>5, <1>6

\* A host with one directory of libraries: what it has is next to what is loaded.
LEMMA OneHome ==
  ASSUME WalkInv, Orderly, NEW r \in Sonames, NEW s \in Sonames
  PROVE  world.home[r] = world.home[s]
<1>1. world.home \in [Sonames -> {"lib", "drivers"}]
  BY WalkIs DEF TypeOK, WorldType
<1>2. world.home[r] \in Range(world.home) /\ world.home[s] \in Range(world.home)
  BY <1>1 DEF Range
<1>3. IsFiniteSet(Range(world.home))
  <2>1. IsFiniteSet({"lib"} \cup {"drivers"})
    BY FS_Singleton, FS_AddElement
  <2>2. Range(world.home) \subseteq {"lib"} \cup {"drivers"}
    BY <1>1 DEF Range
  <2> QED BY <2>1, <2>2, FS_Subset
<1>4. \E x : Range(world.home) = {x}
  BY <1>3, FS_Singleton DEF Orderly
<1> QED BY <1>2, <1>4

LEMMA MuslNeed ==
  ASSUME WalkInv, Tidy, MuslInv, world' = world, Fared \subseteq Fared',
         SkipCore \/ TakeBundled \/ Probe \/ Harvest \/ Hunt \/ NotFound
  PROVE  /\ Settled({}, Fared)'
         /\ \A o \in loaded' : Clean(o) /\ Whole(o[1])
         /\ call' # None => call' \in world.installed
         /\ DOMAIN stack' = DOMAIN stack
         /\ \A i \in DOMAIN stack : stack'[i].file = stack[i].file
<1>1. NextNeed /\ AtNeed
  BY DEF SkipCore, TakeBundled, Probe, Harvest, Hunt, NotFound, Hunts, AtHostNeed
<1>2. need \in Sonames /\ stack # <<>> /\ call = None /\ file \in Sonames
      /\ need \in Range(world.needs[file])
  BY <1>1, WalkIs, NeedIs
<1>3. DOMAIN stack' = DOMAIN stack /\ \A i \in DOMAIN stack : stack'[i].file = stack[i].file
  BY <1>1, <1>2, WalkIs, NextNeedIs
<1>4. Settled({}, Fared) /\ \A o \in loaded : Clean(o) /\ Whole(o[1])
  BY DEF MuslInv
<1>5. ASSUME need \in Fared' \/ call' = need PROVE Settled({}, Fared)'
  BY <1>1, <1>2, <1>4, <1>5, WalkIs, SettledNeed
<1>6. CASE SkipCore
  <2>1. need \in Fared /\ loaded' = loaded /\ call' = None
    BY <1>2, <1>6 DEF SkipCore, Fared
  <2> QED BY <1>3, <1>4, <1>5, <2>1
<1>7. CASE TakeBundled
  <2>1. /\ loaded' = loaded \cup {<<need, "app">>} /\ need \in Bundle /\ call' = None
        /\ <<need, "app">>[1] = need /\ <<need, "app">>[2] = "app"
    BY <1>2, <1>7, AddLoads DEF TakeBundled
  <2>2. Whole(need)
    <3>1. {need} \in SUBSET Sonames /\ need \in {need}
      BY <1>2
    <3> QED BY <2>1, <3>1, WholeIf
  <2>3. need \in Fared' /\ Clean(<<need, "app">>)
    BY <1>2, <2>1, SonamesAssumption DEF Fared, Absent, Clean
  <2> QED BY <1>3, <1>4, <1>5, <2>1, <2>2, <2>3
<1>8. CASE Probe
  <2>1. /\ AtHostNeed /\ file \notin world.musl /\ Loads(byName) /\ call' = None
        /\ loaded' = loaded \cup Closure(byName)
    BY <1>2, <1>8, AddLoads DEF Probe
  <2>2. /\ byName \in Objects /\ byName[1] = need /\ Placed(byName)
        /\ byName \in loaded \/ Absent(need)
    BY <2>1, WalkIs, ByNameIs
  <2>3. need \notin world.musl \cup {Musl} /\ need \notin Bundle
    BY <1>2, <2>1, SonamesAssumption DEF Tidy, Unmixed, AtHostNeed
  <2>4. byName \in loaded \/ byName[2] = "app" \/ need \in world.installed
    <3>1. CASE Absent(need)
      <4>1. <<None, "host">>[1] = None /\ need # None /\ need \in Names
        BY <1>2, NoneAssumption DEF Names
      <4>2. need \in world.searched \/ byName[2] = "missing"
        BY <2>3, <3>1, <4>1, WalkIs, FreshIs DEF byName
      <4>3. byName[2] # "missing"
        BY <2>1, RootIsLoaded DEF Loads, Missing
      <4>4. world.searched \subseteq world.installed \cup {Musl}
        BY WalkIs DEF TypeOK, WorldType
      <4> QED BY <2>3, <4>2, <4>3, <4>4
    <3> QED BY <2>2, <3>1
  <2>5. \A o \in Closure(byName) : o \in loaded \/ Clean(o)
    BY <2>2, <2>3, ClosureIsClean
  <2>6. \A o \in Closure(byName) : o[1] \in Sonames => Whole(o[1])
    BY <1>2, <1>4, <2>1, <2>2, <2>4, LoadsWhole
  <2>7. \A o \in Closure(byName) : o[1] \in Names
    BY <2>2, WalkIs, ClosureIs DEF Objects
  <2>8. byName \in loaded'
    BY <2>1, RootIsLoaded
  <2>9. need \in Fared'
    BY <1>2, <2>2, <2>8 DEF Fared, Absent
  <2> QED BY <1>3, <1>4, <1>5, <2>1, <2>5, <2>6, <2>7, <2>9 DEF Clean, Names
<1>9. CASE Harvest
  <2>1. Refusing(byName) = {}
    BY <1>9, WalkIs, ByNameIs, NoneRefused DEF Harvest
  <2> QED BY <1>9, <2>1 DEF Harvest, Harvests, Blamed
<1>10. CASE Hunt
  <2>1. call' = need /\ loaded' = loaded /\ need \in world.installed
    BY <1>10 DEF Hunt, NextToChain
  <2> QED BY <1>3, <1>4, <1>5, <2>1
<1>11. CASE NotFound
  <2>1. ~NextToChain(need) /\ loaded' = loaded /\ call' = None
    BY <1>2, <1>11 DEF NotFound
  <2>2. 1 \in DOMAIN stack /\ file = stack[1].file
    BY <1>2, WalkIs, TopIs DEF file
  <2>3. world.home[file] = world.home[need]
    BY <1>2, OneHome DEF Tidy
  <2>4. need \notin world.installed
    BY <2>1, <2>2, <2>3 DEF NextToChain
  <2>5. need \in Fared
    BY <1>2, <2>4 DEF Fared, Loadable
  <2> QED BY <1>3, <1>4, <1>5, <2>1, <2>5
<1> QED BY <1>6, <1>7, <1>8, <1>9, <1>10, <1>11

\* When a walk is done, its library loads if it can be loaded by any means: the
\* copy of it always, the file itself where it does not name musl's libc.
LEMMA FrameLoads ==
  ASSUME WalkInv, CopyIsRecorded, FramesAreFresh, Tidy, MuslInv, WalkDone, ~world.dryrun,
         NEW w \in {"host", "copy"}
  PROVE  /\ Loads(<<file, w>>) => Loadable(file)
         /\ Loadable(file) /\ (w = "copy" \/ file \notin world.musl) =>
              Loads(<<file, w>>) /\ \A o \in Closure(<<file, w>>) : Clean(o)
<1> DEFINE root == <<file, w>>
<1>1. /\ file \in Walkable /\ file \in Sonames /\ 1 \in DOMAIN stack /\ file = stack[1].file
  BY WalkIs, TopIs DEF file, WalkDone
<1>2. /\ Settled({}, Fared) /\ \A o \in loaded : Clean(o) /\ Whole(o[1])
      /\ file \in world.installed
  BY <1>1 DEF MuslInv
<1>3. root \in Objects /\ Placed(root) /\ root[1] = file /\ root[2] = w
  BY <1>1, HostRoot
<1>4. root \notin loaded
  BY <1>1, <1>3 DEF FramesAreFresh, Unhosted
<1>5. Loads(root) => Loadable(file)
  <2> HIDE DEF root
  <2> QED BY <1>1, <1>2, <1>3, <1>4, LoadsWhole
<1>6. ASSUME Loadable(file), NEW d \in Range(world.needs[file])
      PROVE  ~Absent(d) \/ d \in Bundle \/ d \in Core
  <2>1. d \in Passed(1) /\ \A s \in Sonames : ~Awaited(1, s)
    BY WalkIs, AllPassed
  <2>2. d \in Fared
    BY <1>1, <1>2, <2>1 DEF Settled
  <2>3. Whole(d)
    BY <1>6 DEF Loadable
  <2> QED BY <2>2, <2>3, WholeNeeds DEF Fared
<1>7. Loadable(file) /\ (w = "copy" \/ file \notin world.musl) =>
        Loads(root) /\ \A o \in Closure(root) : Clean(o)
  BY <1>1, <1>2, <1>6, AllThereLoads
<1> QED BY <1>5, <1>7

LEMMA MuslEnd ==
  ASSUME WalkInv, CopyIsRecorded, FramesAreFresh, Tidy, MuslInv, world' = world,
         Fared \subseteq Fared', Keep \/ Rewrite \/ DryRun
  PROVE  /\ Settled({}, Fared)' /\ call' = None
         /\ \A o \in loaded' : Clean(o) /\ Whole(o[1])
         /\ \A i \in DOMAIN stack' : i + 1 \in DOMAIN stack /\ stack'[i] = stack[i + 1]
<1>1. WalkDone /\ stack' = Tail(stack) /\ call' = None /\ stack # <<>>
  BY FrameEndIs DEF LeaveFrame, WalkDone
<1>2. file \in Walkable /\ file \in Sonames /\ 1 \in DOMAIN stack /\ file = stack[1].file
  BY <1>1, WalkIs, TopIs DEF file
<1>3. \A i \in DOMAIN stack' : i + 1 \in DOMAIN stack /\ stack'[i] = stack[i + 1]
  BY <1>1, WalkIs, FrameEnds
<1>4. /\ Settled({}, Fared) /\ \A o \in loaded : Clean(o) /\ Whole(o[1])
      /\ file \in world.installed
  BY <1>2 DEF MuslInv
<1>5. ASSUME file \in Fared' PROVE Settled({}, Fared)'
  BY <1>1, <1>4, <1>5, WalkIs, SettledEnd
<1>6. CASE Fail /\ (world.dryrun \/ ~Loadable(file))
  <2>1. file \in Fared /\ loaded' = loaded
    BY <1>2, <1>6 DEF Fared, Fail
  <2> QED BY <1>1, <1>3, <1>4, <1>5, <2>1
<1>7. ASSUME ~world.dryrun, NEW w \in {"host", "copy"}, Loads(<<file, w>>),
             w = "copy" \/ file \notin world.musl, Record(<<file, w>>)
      PROVE  /\ Settled({}, Fared)' /\ \A o \in loaded' : Clean(o) /\ Whole(o[1])
  <2> DEFINE root == <<file, w>>
  <2>1. root \in Objects /\ Placed(root) /\ root[1] = file
    BY <1>2, HostRoot
  <2>2. \A o \in Closure(root) : Clean(o)
    BY <1>1, <1>7, FrameLoads
  <2>3. loaded' = loaded \cup Closure(root) /\ Loads(root)
    BY <1>7, AddLoads DEF Record
  <2> HIDE DEF root
  <2>4. \A o \in Closure(root) : o[1] \in Sonames => Whole(o[1])
    BY <1>2, <1>4, <2>1, <2>3, LoadsWhole
  <2>5. \A o \in Closure(root) : o[1] \in Names
    BY <2>1, WalkIs, ClosureIs DEF Objects
  <2>6. root \in loaded'
    BY <2>3, RootIsLoaded
  <2>7. file \in Fared'
    BY <1>2, <2>1, <2>6 DEF Fared, Absent
  <2> QED BY <1>4, <1>5, <2>2, <2>3, <2>4, <2>5, <2>7 DEF Clean, Names
<1>8. CASE DryRun
  BY <1>1, <1>3, <1>6, <1>8 DEF DryRun
<1>9. CASE Keep
  <2>1. file \notin world.musl /\ ~world.dryrun
    BY <1>9 DEF Keep
  <2>2. Loadable(file) => Loads(<<file, "host">>)
    BY <1>1, <2>1, FrameLoads
  <2>3. CASE Loads(<<file, "host">>)
    <3>1. Record(<<file, "host">>)
      BY <1>9, <2>3 DEF Keep
    <3> QED BY <1>1, <1>3, <1>7, <2>1, <2>3, <3>1
  <2>4. CASE ~Loads(<<file, "host">>)
    <3>1. Fail
      BY <1>9, <2>4 DEF Keep
    <3> QED BY <1>1, <1>3, <1>6, <2>2, <2>4, <3>1
  <2> QED BY <2>3, <2>4
<1>10. CASE Rewrite
  <2>1. ~world.dryrun
    BY <1>10 DEF Rewrite
  <2>2. Loadable(file) => Loads(<<file, "copy">>)
    BY <1>1, <2>1, FrameLoads
  <2>3. CASE Loads(<<file, "copy">>)
    <3>1. Record(<<file, "copy">>)
      BY <1>10, <2>3 DEF Rewrite
    <3> QED BY <1>1, <1>3, <1>7, <2>1, <2>3, <3>1
  <2>4. CASE ~Loads(<<file, "copy">>)
    <3>1. ~Loads(<<file, "host">>)
      BY <1>1, <2>1, <2>2, <2>4, FrameLoads
    <3>2. Fail
      BY <1>10, <2>4, <3>1 DEF Rewrite
    <3> QED BY <1>1, <1>3, <1>6, <2>2, <2>4, <3>2
  <2> QED BY <2>3, <2>4
<1> QED BY <1>8, <1>9, <1>10

LEMMA MuslNext == WalkInv /\ LayeredOnce /\ Recorded /\ MuslInv /\ [Next]_vars => MuslInv'
<1> SUFFICES ASSUME WalkInv, LayeredOnce, Recorded, MuslInv, [Next]_vars, Tidy'
             PROVE  /\ Settled({}, Fared)'
                    /\ \A o \in loaded' : Clean(o)' /\ Whole(o[1])'
                    /\ call' # None => call' \in world'.installed
                    /\ \A i \in DOMAIN stack' : stack'[i].file \in world'.installed
  BY DEF MuslInv
<1>1. /\ world' = world /\ Fared \subseteq Fared'
      /\ \A s : Whole(s)' = Whole(s) /\ \A o : Clean(o)' = Clean(o)
  BY WorldStays, FaredGrows DEF Whole, Clean, Bundle
<1>2. Tidy
  BY <1>1 DEF Tidy, Orderly, Layered, Unmixed, Refusable, CoreIsOurs, AllNeeded, Bundle
<1>3. /\ Settled({}, Fared) /\ \A o \in loaded : Clean(o) /\ Whole(o[1])
      /\ call # None => call \in world.installed
      /\ \A i \in DOMAIN stack : stack[i].file \in world.installed
  BY <1>2 DEF MuslInv
<1>4. PICK layer \in [Sonames -> 1 .. MaxDepth] : OnceInv(layer)
  BY <1>2 DEF Tidy, Orderly, Layered, LayeredOnce, Layering
<1>5. CASE UNCHANGED vars
  <2>1. Settled({}, Fared)'
    BY <1>1, <1>3, <1>5, SettledStutter DEF vars
  <2> QED BY <1>1, <1>3, <1>5, <2>1 DEF vars
<1>6. CASE TooDeep \/ Cached \/ AlreadyOpen \/ OpenCore \/ Cycle \/ OpenOpaque
  <2>1. /\ Settled({}, Fared)' /\ stack' = stack /\ call' = None
        /\ \A o \in loaded' : Clean(o) /\ Whole(o[1])
    BY <1>1, <1>2, <1>4, <1>6, MuslReturn
  <2> QED BY <1>1, <1>3, <2>1
<1>7. CASE Descend
  <2>1. /\ call \in Sonames /\ call # None /\ stack \in Seq(Frames)
        /\ stack' = <<[file |-> call, next |-> 1]>> \o stack /\ call' = None
        /\ loaded' = loaded
    BY <1>7, WalkIs DEF Descend, Unopened
  <2>2. [file |-> call, next |-> 1] \in Frames
    BY <2>1 DEF Frames
  <2>3. \A i \in DOMAIN stack' : IF i = 1 THEN stack'[i].file = call
                                 ELSE i - 1 \in DOMAIN stack /\ stack'[i] = stack[i-1]
    BY <2>1, <2>2
  <2>4. Settled({}, Fared)'
    BY <1>1, <1>3, <1>7, <2>1, SettledDescend
  <2> QED BY <1>1, <1>3, <2>1, <2>3, <2>4
<1>8. CASE SkipCore \/ TakeBundled \/ Probe \/ Harvest \/ Hunt \/ NotFound
  <2>1. /\ Settled({}, Fared)'
        /\ \A o \in loaded' : Clean(o) /\ Whole(o[1])
        /\ call' # None => call' \in world.installed
        /\ DOMAIN stack' = DOMAIN stack
        /\ \A i \in DOMAIN stack : stack'[i].file = stack[i].file
    BY <1>1, <1>2, <1>8, MuslNeed
  <2> QED BY <1>1, <1>3, <2>1
<1>9. CASE Keep \/ Rewrite \/ DryRun
  <2>1. /\ Settled({}, Fared)' /\ call' = None
        /\ \A o \in loaded' : Clean(o) /\ Whole(o[1])
        /\ \A i \in DOMAIN stack' : i + 1 \in DOMAIN stack /\ stack'[i] = stack[i + 1]
    BY <1>1, <1>2, <1>4, <1>9, MuslEnd DEF OnceInv
  <2> QED BY <1>1, <1>3, <2>1
<1>10. ASSUME NEW s \in Sonames, Open(s)
       PROVE  /\ Settled({}, Fared)' /\ loaded' = loaded /\ call' \in world.installed
              /\ DOMAIN stack' = {}
  <2>1. stack' = <<>> /\ loaded' = loaded /\ call' \in world.installed
    BY <1>10 DEF Open
  <2> QED BY <2>1, SettledOpen
<1>11. CASE \E s \in Sonames : Open(s)
  BY <1>1, <1>3, <1>10, <1>11
<1> QED BY <1>5, <1>6, <1>7, <1>8, <1>9, <1>11 DEF Next, Load

LEMMA MuslInit == Init => MuslInv
BY DEF Init, MuslInv, Settled

\* "a second libc may never enter the process": on a host whose libraries are
\* layered, parse, sit in one directory and survive the rewrite, and whose libraries
\* without the edge need none with it, no probe, no parent's load and no fallback to
\* the file as it is brings musl's libc in.
THEOREM MuslNeverEnters == Spec => []MuslStaysOut
<1>1. MuslInv => MuslStaysOut
  BY DEF MuslInv, MuslStaysOut, Tidy, Clean
<1> QED BY <1>1, WalkInit, WalkNext, OnceInit, OnceNext, OpensInit, RecordedNext, MuslInit,
           MuslNext, PTL DEF Spec
==============================================================================
