------------------------------- MODULE FgnWalk -------------------------------
(***************************************************************************)
(* fgn_load of src/foreign-dlopen.c, one thread: the walk over a host      *)
(* library's dependency closure that lets ld.so, the bundle or a hunt find *)
(* each dependency, rewrites what ld.so would refuse, and falls back to    *)
(* the file as the host built it.                                          *)
(*                                                                         *)
(* A library is an object <<soname, where its file is>>: "app" bundled,    *)
(* "host" as the host built it, "copy" rewritten.  What the host has       *)
(* installed is the world, chosen at the start.  ld.so is external: it     *)
(* loads a closure whole or not at all, takes the first object that was    *)
(* loaded under the soname, else the bundle's, else what its search        *)
(* reaches on the host, and checks versions against objects that define    *)
(* some.  A file in the bundle need not load; which do and which do not is *)
(* settled for good, and those that do need nothing from the host.         *)
(* Writing a copy succeeds (ForeignOpen has its failures), constructors    *)
(* open nothing.                                                           *)
(***************************************************************************)
EXTENDS Integers, Sequences, FiniteSets, Functions

CONSTANTS
  Sonames,
  Musl,        \* musl's libc, a soname of its own
  CoreSonames, \* the rest of fgn_never_touch
  Worlds,      \* what may be installed; see WorldType
  MaxDepth,    \* entries of fgn_active_stack
  MaxOpens,    \* bound: opens of the program
  None

Core == CoreSonames \cup {Musl}
Where == {"app", "host", "copy"}

WorldType ==
  {w \in [musl : SUBSET Sonames,            \* those that name musl's libc as DT_NEEDED
          needs : [Sonames -> Seq(Sonames)],
          newer : SUBSET Sonames,           \* wants a libc version ours lacks
          wants : [Sonames -> SUBSET Sonames], \* dependencies it wants a version from
          bundled : SUBSET Sonames,         \* a readable file in $APPDIR/lib ...
          spoiled : SUBSET Sonames,         \* ... that dlopen refuses
          outdated : SUBSET Sonames,        \* bundled without the version hosts want
          installed : SUBSET Sonames,
          searched : SUBSET (Sonames \cup {Musl}), \* host files ld.so's search reaches
          home : [Sonames -> {"lib", "drivers"}],  \* directory of the host's file
          broken : SUBSET Sonames,          \* its copy leaves a symbol unresolved
          opaque : SUBSET Sonames,          \* fgn_parse_elf declines it
          dryrun : BOOLEAN] :               \* ANYLINUX_LIB_FOREIGN_DRYRUN
     /\ w.searched \subseteq w.installed \cup {Musl}
     /\ w.spoiled \subseteq w.bundled}

ASSUME SonamesAssumption == IsFiniteSet(Sonames) /\ Musl \notin Sonames
ASSUME NoneAssumption == None \notin Sonames \cup {Musl} \cup Where
ASSUME WorldsAssumption == Worlds \subseteq WorldType
ASSUME LimitsAssumption == MaxDepth \in Nat /\ MaxOpens \in Nat

VARIABLES
  world,
  loaded,    \* the objects in the process
  first,     \* soname -> where the first object of that name came from, or None
  cache,     \* soname of a host path -> where its recorded handle came from
  provided,  \* the provider table: soname -> does it give the version
  call,      \* the host library fgn_load is entered with, or None
  stack,     \* its frames, innermost first: a library and its next DT_NEEDED
  result,    \* what the last fgn_load returned
  opens,
  opened     \* history, for BundledWins: the sonames the program opened by path

vars == <<world, loaded, first, cache, provided, call, stack, result, opens, opened>>

Init ==
  /\ world \in Worlds
  /\ loaded = {}
  /\ first = [s \in Sonames \cup {Musl} |-> None]
  /\ cache = [s \in Sonames |-> None]
  /\ provided = <<>>
  /\ call = None
  /\ stack = <<>>
  /\ result = None
  /\ opens = 0
  /\ opened = {}

------------------------------------------------------------------------------
\* What the bundle has and dlopen takes.
Bundle == world.bundled \ world.spoiled

\* ld.so: the sonames an object names as DT_NEEDED, its own libc aside.
Needed(o) ==
  IF o[1] = Musl \/ o[2] \in {"app", "missing"} THEN {}
  ELSE Range(world.needs[o[1]])
         \cup (IF o[2] = "host" /\ o[1] \in world.musl THEN {Musl} ELSE {})

\* The object it takes for a soname while it loads `root`.
Found(s, root) ==
  IF first[s] # None THEN <<s, first[s]>>
  ELSE IF s = root[1] THEN root
  ELSE <<s, IF s \in Bundle THEN "app"
            ELSE IF s \in world.searched THEN "host" ELSE "missing">>

\* One edge further from objects S, none of which it looks into twice.
Brings(o, root) ==
  {o} \cup (IF o \in loaded THEN {} ELSE {Found(s, root) : s \in Needed(o)})
Spread(root, S) == UNION {Brings(o, root) : o \in S}

\* Everything within n edges of the object it is asked for.
Reach(root) ==
  LET r[n \in 0 .. Cardinality(Sonames) + 2] ==
        IF n = 0 THEN {root} ELSE Spread(root, r[n-1])
  IN  r
Closure(root) == Reach(root)[Cardinality(Sonames) + 2]

\* A version it wants is not in the object that answers to that name.
Refuses(o, root) ==
  /\ o[2] = "host" /\ o \notin loaded /\ o[1] \notin world.musl \cup {Musl}
  /\ \/ o[1] \in world.newer
     \/ \E d \in world.wants[o[1]] : Found(d, root)[2] = "app" /\ d \in world.outdated

Missing(root) == \E o \in Closure(root) : o[2] = "missing"
Refusing(root) == {o \in Closure(root) : Refuses(o, root)}
Loads(root) ==
  /\ ~Missing(root) /\ Refusing(root) = {}
  /\ ~(root[2] = "copy" /\ root[1] \in world.broken)

\* Whom the error names: versions are checked breadth first.
Blamed(root) ==
  LET level(o) == CHOOSE n \in DOMAIN Reach(root) :
                    o \in Reach(root)[n] /\ \A m \in 0 .. n - 1 : o \notin Reach(root)[m]
  IN  IF Missing(root) THEN {}
      ELSE {o \in Refusing(root) : \A p \in Refusing(root) : level(o) <= level(p)}

------------------------------------------------------------------------------
\* Objects enter the process; whoever has the name keeps it.
Add(S) ==
  /\ loaded' = loaded \cup S
  /\ first' = [s \in Sonames \cup {Musl} |->
                IF first[s] = None /\ \E o \in loaded' : o[1] = s
                  THEN (CHOOSE o \in loaded' : o[1] = s)[2] ELSE first[s]]

Return(h) == result' = h /\ call' = None

\* dlopen_orig on a library's own path, without a rewrite and without a record.
LoadAsIs(s) ==
  LET o == <<s, "host">>
  IN  /\ Add(IF Loads(o) THEN Closure(o) ELSE {})
      /\ Return(IF Loads(o) THEN "host" ELSE None)

\* The program opens a file of the host by its path, whether or not the bundle
\* has a library of that name.
Open(s) ==
  /\ call = None /\ stack = <<>> /\ opens < MaxOpens
  /\ s \in world.installed
  /\ opens' = opens + 1
  /\ opened' = opened \cup {s}
  /\ call' = s
  /\ UNCHANGED <<world, loaded, first, cache, provided, stack, result>>

depth == Len(stack)

TooDeep ==
  /\ call # None /\ depth >= MaxDepth
  /\ Return(None)
  /\ UNCHANGED <<world, loaded, first, cache, provided, stack, opens, opened>>

Cached ==
  /\ call # None /\ depth < MaxDepth
  /\ cache[call] # None
  /\ Return(cache[call])
  /\ UNCHANGED <<world, loaded, first, cache, provided, stack, opens, opened>>

\* RTLD_NOLOAD on the path finds the host's own file, never a copy of it.
AlreadyOpen ==
  /\ call # None /\ depth < MaxDepth /\ cache[call] = None
  /\ <<call, "host">> \in loaded
  /\ Return("host")
  /\ UNCHANGED <<world, loaded, first, cache, provided, stack, opens, opened>>

\* Variant of Unopened: the RTLD_NOLOAD probe is left out.
NotRecorded == call # None /\ depth < MaxDepth /\ cache[call] = None

Unopened ==
  /\ call # None /\ depth < MaxDepth
  /\ cache[call] = None /\ <<call, "host">> \notin loaded

OnStack(s) == \E i \in DOMAIN stack : stack[i].file = s

OpenCore ==
  /\ Unopened /\ call \in Core
  /\ LoadAsIs(call)
  /\ UNCHANGED <<world, cache, provided, stack, opens, opened>>

Cycle ==
  /\ Unopened /\ call \notin Core /\ OnStack(call)
  /\ Return(None)
  /\ UNCHANGED <<world, loaded, first, cache, provided, stack, opens, opened>>

OpenOpaque ==
  /\ Unopened /\ call \notin Core /\ ~OnStack(call)
  /\ call \in world.opaque
  /\ LoadAsIs(call)
  /\ UNCHANGED <<world, cache, provided, stack, opens, opened>>

\* Variant of Descend: the walk starts before the first dependency.
DescendFromZero ==
  /\ Unopened /\ call \notin Core /\ ~OnStack(call)
  /\ call \notin world.opaque
  /\ stack' = <<[file |-> call, next |-> 0]>> \o stack
  /\ call' = None
  /\ UNCHANGED <<world, loaded, first, cache, provided, result, opens, opened>>

Descend ==
  /\ Unopened /\ call \notin Core /\ ~OnStack(call)
  /\ call \notin world.opaque
  /\ stack' = <<[file |-> call, next |-> 1]>> \o stack
  /\ call' = None
  /\ UNCHANGED <<world, loaded, first, cache, provided, result, opens, opened>>

------------------------------------------------------------------------------
\* The walk of the innermost frame.
file == Head(stack).file
next == Head(stack).next
AtNeed == call = None /\ stack # <<>> /\ next <= Len(world.needs[file])
need == world.needs[file][next]
NextNeed == stack' = [stack EXCEPT ![1].next = @ + 1]

SkipCore ==
  /\ AtNeed /\ need \in Core
  /\ NextNeed
  /\ UNCHANGED <<world, loaded, first, cache, provided, call, result, opens, opened>>

TakeBundled ==
  /\ AtNeed /\ need \notin Core /\ need \in Bundle
  /\ Add({<<need, "app">>})
  /\ NextNeed
  /\ UNCHANGED <<world, cache, provided, call, result, opens, opened>>

\* Variant of AtHostNeed: the bundle is not asked first.
AtAnyNeed == AtNeed /\ need \notin Core

\* The bundle has no such file, or its dlopen has failed and changed nothing.
AtHostNeed == AtNeed /\ need \notin Core /\ need \notin Bundle
byName == Found(need, <<None, "host">>)

\* Variant of Probe: every library is probed.
ProbeAnyHost ==
  /\ AtHostNeed
  /\ Loads(byName)
  /\ Add(Closure(byName))
  /\ NextNeed
  /\ UNCHANGED <<world, cache, provided, call, result, opens, opened>>

\* Only libraries that do not themselves name musl's libc are probed.
Probe ==
  /\ AtHostNeed /\ file \notin world.musl
  /\ Loads(byName)
  /\ Add(Closure(byName))
  /\ NextNeed
  /\ UNCHANGED <<world, cache, provided, call, result, opens, opened>>

Harvests == file \notin world.musl /\ Blamed(byName) # {}

\* Variant of Harvest: the library that was refused is left to its parent.
HarvestNothing ==
  /\ AtHostNeed /\ ~Loads(byName) /\ Harvests
  /\ NextNeed
  /\ UNCHANGED <<world, loaded, first, cache, provided, call, result, opens, opened>>

\* Variant of Harvest: the walk asks for the same dependency again.
HarvestAndRetry ==
  /\ AtHostNeed /\ ~Loads(byName) /\ Harvests
  /\ \E o \in Blamed(byName) : call' = o[1]
  /\ UNCHANGED <<world, loaded, first, cache, provided, stack, result, opens, opened>>

\* The library that the refusal says a version was required by.
Harvest ==
  /\ AtHostNeed /\ ~Loads(byName) /\ Harvests
  /\ \E o \in Blamed(byName) : call' = o[1]
  /\ NextNeed
  /\ UNCHANGED <<world, loaded, first, cache, provided, result, opens, opened>>

\* fgn_find_candidate: next to the libraries being loaded.
NextToChain(s) ==
  s \in world.installed /\ \E i \in DOMAIN stack : world.home[stack[i].file] = world.home[s]

Hunts == AtHostNeed /\ (file \in world.musl \/ ~Loads(byName)) /\ ~Harvests

Hunt ==
  /\ Hunts /\ NextToChain(need)
  /\ call' = need
  /\ NextNeed
  /\ UNCHANGED <<world, loaded, first, cache, provided, result, opens, opened>>

NotFound ==
  /\ Hunts /\ ~NextToChain(need)
  /\ NextNeed
  /\ UNCHANGED <<world, loaded, first, cache, provided, call, result, opens, opened>>

------------------------------------------------------------------------------
\* Variant of Provides: a library in the bundle has whatever version is wanted.
ProvidesIfBundled(d) ==
  IF d \in DOMAIN provided THEN provided[d]
  ELSE d \in world.bundled \/ <<d, "host">> \in loaded

\* fgn_provider_for: the first answer for a soname is kept.  A file in the
\* bundle speaks for the name, and is read whether or not it loads.
Provides(d) ==
  IF d \in DOMAIN provided THEN provided[d]
  ELSE IF d \in world.bundled THEN d \notin world.outdated
  ELSE <<d, "host">> \in loaded

\* fgn_requirements_satisfied asks in the order of the version table, any here,
\* and stops at the first version that nobody provides.
Satisfied(s, asked) ==
  /\ s \notin world.newer
  /\ asked = world.wants[s]
  /\ \A d \in asked : Provides(d)
Unsatisfied(s, asked) ==
  /\ asked \subseteq world.wants[s]
  /\ Cardinality({d \in asked : ~Provides(d)}) <= 1
  /\ s \in world.newer \/ \E d \in asked : ~Provides(d)

Asked(asked) ==
  provided' = [d \in DOMAIN provided \cup asked |-> Provides(d)]

\* A frame ends with a handle that came from object o, which is recorded.
Record(o) ==
  /\ Add(Closure(o))
  /\ cache' = [cache EXCEPT ![file] = IF @ = None THEN o[2] ELSE @]
  /\ result' = o[2]
Fail == result' = None /\ UNCHANGED <<loaded, first, cache>>

WalkDone == call = None /\ stack # <<>> /\ next > Len(world.needs[file])
LeaveFrame == stack' = Tail(stack) /\ UNCHANGED <<world, call, opens, opened>>

\* It needs no rewrite: load it unchanged.
Keep ==
  /\ WalkDone /\ file \notin world.musl /\ ~world.dryrun
  /\ \E asked \in SUBSET Sonames : Satisfied(file, asked) /\ Asked(asked)
  /\ IF Loads(<<file, "host">>) THEN Record(<<file, "host">>) ELSE Fail
  /\ LeaveFrame

\* It does: load the copy, else the file as the host built it.
Rewrite ==
  /\ WalkDone /\ ~world.dryrun
  /\ IF file \in world.musl
       THEN UNCHANGED provided
       ELSE \E asked \in SUBSET Sonames : Unsatisfied(file, asked) /\ Asked(asked)
  /\ IF Loads(<<file, "copy">>) THEN Record(<<file, "copy">>)
     ELSE IF Loads(<<file, "host">>) THEN Record(<<file, "host">>)
     ELSE Fail
  /\ LeaveFrame

\* A dry run reports and returns NULL, whatever the answer.
DryRun ==
  /\ WalkDone /\ world.dryrun
  /\ IF file \in world.musl
       THEN UNCHANGED provided
       ELSE \E asked \in SUBSET Sonames :
              (Satisfied(file, asked) \/ Unsatisfied(file, asked)) /\ Asked(asked)
  /\ Fail
  /\ LeaveFrame

Load ==
  \/ TooDeep \/ Cached \/ AlreadyOpen \/ OpenCore \/ Cycle \/ OpenOpaque \/ Descend
  \/ SkipCore \/ TakeBundled \/ Probe \/ Harvest \/ Hunt \/ NotFound
  \/ Keep \/ Rewrite \/ DryRun

Next == Load \/ \E s \in Sonames : Open(s)

Spec == Init /\ [][Next]_vars

\* fgn_load runs on until it returns.
FairSpec == Spec /\ WF_vars(Load)

------------------------------------------------------------------------------
TypeOK ==
  /\ world \in WorldType
  /\ loaded \subseteq (Sonames \cup {Musl}) \X Where
  /\ first \in [Sonames \cup {Musl} -> Where \cup {None}]
  /\ cache \in [Sonames -> {"host", "copy", None}]
  /\ DOMAIN provided \subseteq Sonames /\ Range(provided) \subseteq BOOLEAN
  /\ call \in Sonames \cup {None}
  /\ stack \in Seq([file : Sonames, next : Nat \ {0}])
  /\ result \in {"host", "copy", None}
  /\ opens \in 0 .. MaxOpens
  /\ opened \subseteq Sonames

\* "bundled libraries must beat host libraries": whatever the shape of a host
\* driver's closure, the host's library is in the process under a name that the
\* bundle can serve only where the program opened that very file by its path.  A
\* bundled file that does not load serves nothing: the host's is taken then.
BundledWins == \A o \in loaded : o[1] \in Bundle => o[2] = "app" \/ o[1] \in opened

\* The satisfaction check and ld.so agree where it matters: what the walk finds
\* satisfied, ld.so does not refuse over a version, although the answers it
\* rests on were given earlier, and then kept.
KeptObjectsLoad ==
  WalkDone /\ file \notin world.musl /\ Satisfied(file, world.wants[file]) =>
    ~Refuses(<<file, "host">>, <<file, "host">>)

\* The dependencies of the host's libraries make no cycle and no deep chain.
Layered ==
  \E layer \in [Sonames -> 1 .. MaxDepth] :
    \A s \in Sonames : \A d \in Range(world.needs[s]) : layer[d] < layer[s]

\* "two libstdc++ in one process": no library is in the process twice, although
\* each is reached by several routes: not as the host built it and rewritten, and
\* not the bundle's beside the host's, unless the program opened the host's by path.
OneOfEach ==
  (\E o, p \in loaded : /\ o[1] = p[1] /\ o # p
                        /\ "app" \in {o[2], p[2]} => o[1] \notin opened) => ~Layered

AllNeeded == UNION {Range(world.needs[s]) : s \in Sonames}

\* A host whose libraries are layered, parse, and sit in one directory, and whose
\* copies find their symbols.
Orderly ==
  /\ world.broken = {} /\ world.opaque = {}
  /\ Cardinality(Range(world.home)) = 1
  /\ Layered

\* Those that ld.so could refuse over a version.
Refusable ==
  {s \in Sonames : s \in world.newer \/ world.wants[s] \cap world.outdated # {}}

\* The walk passes core libraries by: they are the process's own libc.
CoreIsOurs ==
  \A s \in Sonames \cap Core :
    s \notin Refusable \cup world.musl /\ Range(world.needs[s]) \subseteq Core

\* A library that does not name musl's libc needs none of the host's that do, and
\* has the versions it wants: ld.so loads it raw, with all that it needs.
Unmixed ==
  /\ \A s \in Sonames \ world.musl : Range(world.needs[s]) \cap world.musl \subseteq Bundle
  /\ Refusable \subseteq world.musl
  /\ CoreIsOurs /\ CoreSonames \cap AllNeeded \subseteq world.searched \cup Bundle

\* "a second libc may never enter the process": on an orderly and unmixed host
\* musl's libc stays out; no probe, no parent's load and no fallback drags in a
\* library that was not rewritten first.  On a mixed host a probe from a library
\* without the edge does.
MuslStaysOut == <<Musl, "host">> \in loaded => ~(Orderly /\ Unmixed)

\* No library names musl's libc, and the host and the bundle have them all.
Complete ==
  /\ world.musl = {} /\ ~world.dryrun
  /\ AllNeeded \subseteq world.searched \cup Bundle
  /\ CoreIsOurs
Returned == call = None /\ stack = <<>> /\ opens > 0

\* Where one library at most would be refused, at any place in the closure, the
\* walk finds it, rewrites it before a parent loads, and every open succeeds.
OneRefusalOpens ==
  Returned /\ result = None /\ Complete /\ Cardinality(Refusable) <= 1 => ~Orderly

\* Every open returns: the walk ends on cyclic graphs and past its depth limit.
EveryOpenReturns == (call # None) ~> (call = None /\ stack = <<>>)
==============================================================================
