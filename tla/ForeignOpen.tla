----------------------------- MODULE ForeignOpen -----------------------------
(***************************************************************************)
(* One host library opened through src/foreign-dlopen.c by the threads of  *)
(* several processes that share a runtime directory: the handle cache, the *)
(* NOLOAD probe, the private copy that fgn_emit_copy places under a name   *)
(* derived from the path, the load of that name, the plain fallback, the   *)
(* record, and the sweep of day-old copies that every process starts with. *)
(*                                                                         *)
(* An object stands for its canonical path: every one here needs the       *)
(* rewrite and has no dependencies (FgnWalk has those).  Lookups and       *)
(* records of the handle cache are atomic: FgnCache shows that.  ld.so is  *)
(* external: a dlopen is atomic because it holds dl_load_lock, matches an  *)
(* open name before it looks at the file, and never unmaps (NODELETE).     *)
(***************************************************************************)
EXTENDS Integers, FiniteSets

CONSTANTS
  Procs,
  ThreadsPerProc,
  Objects,      \* canonical paths, no two of which share a copy's name
  Refused,      \* objects whose unmodified file ld.so refuses
  KeepsTags,    \* processes with ANYLINUX_LIB_FOREIGN_NOSTRIP=1
  CacheMax,     \* FGN_CACHE_MAX
  NoName, NoImage, NoHandle,
  MaxOpens, MaxFaults, MaxDays    \* bounds: opens per thread; faults; days

ASSUME ThreadsAssumption == ThreadsPerProc \in Nat
ASSUME RefusedAssumption == Refused \subseteq Objects
ASSUME CacheMaxAssumption == CacheMax \in Nat
ASSUME NoHandleAssumption == NoHandle \notin {"copy", "plain"}
ASSUME NoImageAssumption ==
  NoImage \notin [object : Objects, tags : BOOLEAN, whole : BOOLEAN]

Threads == Procs \X (1 .. ThreadsPerProc)
Proc(t) == t[1]

VARIABLES
  \* the runtime directory
  dir,        \* the image under each object's name, or NoImage
  temps,      \* mkstemp files, named by the open that made them
  old,        \* names whose file is more than a day old
  \* a process
  phase,      \* "down", "sweep" (its constructor) or "up"
  target,     \* the name the sweep found old and will unlink
  cache, used,
  mapped,     \* the image ld.so has open under each object's copy name
  plain,      \* the objects it has open under their own name
  given,      \* handles its callers were given for each object
  \* a thread
  pc, object, image, handle, opens,
  \* bounds
  faults, days

dirVars == <<dir, temps, old>>
procVars == <<phase, target, cache, used, mapped, plain, given>>
vars == <<dirVars, procVars, pc, object, image, handle, opens, faults, days>>

Nothing == [o \in Objects |-> NoHandle]

Init ==
  /\ dir = [o \in Objects |-> NoImage] /\ old = {} /\ temps = {}
  /\ phase = [p \in Procs |-> "down"]
  /\ target = [p \in Procs |-> NoName]
  /\ cache = [p \in Procs |-> Nothing]
  /\ used = [p \in Procs |-> 0]
  /\ mapped = [p \in Procs |-> [o \in Objects |-> NoImage]]
  /\ plain = [p \in Procs |-> {}]
  /\ given = [p \in Procs |-> [o \in Objects |-> {}]]
  /\ pc = [t \in Threads |-> "idle"]
  /\ object = [t \in Threads |-> NoName]
  /\ image = [t \in Threads |-> NoImage]
  /\ handle = [t \in Threads |-> NoHandle]
  /\ opens = [t \in Threads |-> 0]
  /\ faults = 0 /\ days = 0

\* What fgn_load makes of the file: tags stripped unless told to keep them.
Rewritten(p, o) == [object |-> o, tags |-> p \in KeepsTags, whole |-> TRUE]

\* ld.so takes an image it can read to the end, tags satisfied or gone.
Loads(i) == i.whole /\ ~(i.tags /\ i.object \in Refused)

Goto(t, l) == pc' = [pc EXCEPT ![t] = l]

Return(t, h) ==
  /\ Goto(t, "idle")
  /\ given' = [given EXCEPT ![Proc(t)][object[t]] =
                 IF h = NoHandle THEN @ ELSE @ \cup {h}]

Fault == faults < MaxFaults /\ faults' = faults + 1

------------------------------------------------------------------------------
\* fgn_attempt takes the open; by then this process's sweep is over.
Attempt(t, o) ==
  /\ pc[t] = "idle" /\ phase[Proc(t)] = "up" /\ opens[t] < MaxOpens
  /\ opens' = [opens EXCEPT ![t] = @ + 1]
  /\ object' = [object EXCEPT ![t] = o]
  /\ Goto(t, "get")
  /\ UNCHANGED <<dirVars, procVars, image, handle, faults, days>>

\* Variant of CacheGet: the cache is never asked.
CacheNotAsked(t) ==
  /\ pc[t] = "get"
  /\ Goto(t, "noload")
  /\ UNCHANGED <<dirVars, procVars, object, image, handle, opens, faults, days>>

CacheGet(t) ==
  LET h == cache[Proc(t)][object[t]]
  IN  /\ pc[t] = "get"
      /\ IF h # NoHandle THEN Return(t, h) ELSE Goto(t, "noload") /\ UNCHANGED given
      /\ UNCHANGED <<dirVars, phase, target, cache, used, mapped, plain, object,
                     image, handle, opens, faults, days>>

\* dlopen_orig(canon, RTLD_NOLOAD): only an object open under its own name
\* answers, a rewritten copy is another file.
NoLoad(t) ==
  /\ pc[t] = "noload"
  /\ IF object[t] \in plain[Proc(t)]
       THEN Return(t, "plain")
       ELSE Goto(t, "unlink") /\ UNCHANGED given
  /\ UNCHANGED <<dirVars, phase, target, cache, used, mapped, plain, object,
                 image, handle, opens, faults, days>>

\* fgn_emit_copy starts by removing whatever is under the name.
Unlink(t) ==
  /\ pc[t] = "unlink"
  /\ dir' = [dir EXCEPT ![object[t]] = NoImage]
  /\ old' = old \ {object[t]}
  /\ Goto(t, "tmpfile")
  /\ UNCHANGED <<temps, procVars, object, image, handle, opens, faults, days>>

\* A nameless file, written to the end; or no such file, or a short write.
TmpFile(t) ==
  /\ pc[t] = "tmpfile"
  /\ \/ /\ image' = [image EXCEPT ![t] = Rewritten(Proc(t), object[t])]
        /\ Goto(t, "link")
     \/ Goto(t, "mkstemp") /\ UNCHANGED image
  /\ UNCHANGED <<dirVars, procVars, object, handle, opens, faults, days>>

\* linkat refuses a name that exists.
Link(t) ==
  LET o == object[t]
  IN  /\ pc[t] = "link"
      /\ IF dir[o] = NoImage
           THEN dir' = [dir EXCEPT ![o] = image[t]] /\ Goto(t, "copy")
           ELSE UNCHANGED dir /\ Goto(t, "mkstemp")
      /\ UNCHANGED <<old, temps, procVars, object, image, handle, opens, faults, days>>

Template(t) == <<t, opens[t]>>

MkStemp(t) ==
  /\ pc[t] = "mkstemp"
  /\ \/ temps' = temps \cup {Template(t)} /\ Goto(t, "write")
     \/ UNCHANGED temps /\ Goto(t, "plain")
  /\ UNCHANGED <<dir, old, procVars, object, image, handle, opens, faults, days>>

WriteAll(t) ==
  /\ pc[t] = "write"
  /\ image' = [image EXCEPT ![t] = Rewritten(Proc(t), object[t])]
  /\ Goto(t, "rename")
  /\ UNCHANGED <<dirVars, procVars, object, handle, opens, faults, days>>

\* Variant of WriteFails: the rename does not depend on what write returned.
WriteUnchecked(t) ==
  /\ pc[t] = "write"
  /\ Fault
  /\ image' = [image EXCEPT ![t] = [Rewritten(Proc(t), object[t]) EXCEPT !.whole = FALSE]]
  /\ Goto(t, "rename")
  /\ UNCHANGED <<dirVars, procVars, object, handle, opens, days>>

\* A write that fails closes the template and leaves it where it is.
WriteFails(t) ==
  /\ pc[t] = "write"
  /\ Fault
  /\ Goto(t, "plain")
  /\ UNCHANGED <<dirVars, procVars, object, image, handle, opens, days>>

Rename(t) ==
  /\ pc[t] = "rename"
  /\ dir' = [dir EXCEPT ![object[t]] = image[t]]
  /\ old' = old \ {object[t]}
  /\ temps' = temps \ {Template(t)}
  /\ Goto(t, "copy")
  /\ UNCHANGED <<procVars, object, image, handle, opens, faults, days>>

\* Variant of RenameFails: the template is left where it is.
RenameLeaks(t) ==
  /\ pc[t] = "rename"
  /\ Goto(t, "plain")
  /\ UNCHANGED <<dirVars, procVars, object, image, handle, opens, faults, days>>

RenameFails(t) ==
  /\ pc[t] = "rename"
  /\ temps' = temps \ {Template(t)}
  /\ Goto(t, "plain")
  /\ UNCHANGED <<dir, old, procVars, object, image, handle, opens, faults, days>>

\* dlopen_orig(load_path): the name if it is open, else the file under it.
OpenCopy(t) ==
  LET p == Proc(t)  o == object[t]
      open == mapped[p][o] # NoImage
      found == dir[o] # NoImage /\ Loads(dir[o])
  IN  /\ pc[t] = "copy"
      /\ mapped' = [mapped EXCEPT ![p][o] = IF ~open /\ found THEN dir[o] ELSE @]
      /\ IF open \/ found
           THEN handle' = [handle EXCEPT ![t] = "copy"] /\ Goto(t, "put")
           ELSE UNCHANGED handle /\ Goto(t, "plain")
      /\ UNCHANGED <<dirVars, phase, target, cache, used, plain, given, object,
                     image, opens, faults, days>>

\* The fallback, dlopen_orig(canon): the object as the host built it.
OpenPlain(t) ==
  LET p == Proc(t)  o == object[t]
  IN  /\ pc[t] = "plain"
      /\ IF o \in Refused
           THEN Return(t, NoHandle) /\ UNCHANGED <<plain, handle>>
           ELSE /\ plain' = [plain EXCEPT ![p] = @ \cup {o}]
                /\ handle' = [handle EXCEPT ![t] = "plain"]
                /\ Goto(t, "put") /\ UNCHANGED given
      /\ UNCHANGED <<dirVars, phase, target, cache, used, mapped, object, image,
                     opens, faults, days>>

\* Variant of CachePut: the last slot is never used.
CachePutOneShort(t) ==
  LET p == Proc(t)  o == object[t]
      room == used[p] + 1 < CacheMax
  IN  /\ pc[t] = "put"
      /\ used' = [used EXCEPT ![p] = IF room THEN @ + 1 ELSE @]
      /\ cache' = [cache EXCEPT ![p][o] =
                     IF room /\ @ = NoHandle THEN handle[t] ELSE @]
      /\ Return(t, handle[t])
      /\ UNCHANGED <<dirVars, phase, target, mapped, plain, object, image, handle,
                     opens, faults, days>>

\* The first record of an object answers for it; a full table takes none.
CachePut(t) ==
  LET p == Proc(t)  o == object[t]
      room == used[p] < CacheMax
  IN  /\ pc[t] = "put"
      /\ used' = [used EXCEPT ![p] = IF room THEN @ + 1 ELSE @]
      /\ cache' = [cache EXCEPT ![p][o] =
                     IF room /\ @ = NoHandle THEN handle[t] ELSE @]
      /\ Return(t, handle[t])
      /\ UNCHANGED <<dirVars, phase, target, mapped, plain, object, image, handle,
                     opens, faults, days>>

------------------------------------------------------------------------------
\* A process starts and its constructor sweeps: stat, then unlink by name.
Start(p) ==
  /\ phase[p] = "down"
  /\ phase' = [phase EXCEPT ![p] = "sweep"]
  /\ UNCHANGED <<dirVars, target, cache, used, mapped, plain, given, pc, object,
                 image, handle, opens, faults, days>>

SweepStat(p, n) ==
  /\ phase[p] = "sweep" /\ target[p] = NoName /\ n \in old
  /\ target' = [target EXCEPT ![p] = n]
  /\ UNCHANGED <<dirVars, phase, cache, used, mapped, plain, given, pc, object,
                 image, handle, opens, faults, days>>

SweepUnlink(p) ==
  /\ target[p] # NoName
  /\ IF target[p] \in Objects
       THEN dir' = [dir EXCEPT ![target[p]] = NoImage] /\ UNCHANGED temps
       ELSE temps' = temps \ {target[p]} /\ UNCHANGED dir
  /\ old' = old \ {target[p]}
  /\ target' = [target EXCEPT ![p] = NoName]
  /\ UNCHANGED <<phase, cache, used, mapped, plain, given, pc, object, image,
                 handle, opens, faults, days>>

SweepDone(p) ==
  /\ phase[p] = "sweep" /\ target[p] = NoName /\ old = {}
  /\ phase' = [phase EXCEPT ![p] = "up"]
  /\ UNCHANGED <<dirVars, target, cache, used, mapped, plain, given, pc, object,
                 image, handle, opens, faults, days>>

\* The process ends anywhere, killed or done; its files stay.
Exit(p) ==
  /\ phase[p] # "down"
  /\ Fault
  /\ phase' = [phase EXCEPT ![p] = "down"]
  /\ target' = [target EXCEPT ![p] = NoName]
  /\ cache' = [cache EXCEPT ![p] = Nothing]
  /\ used' = [used EXCEPT ![p] = 0]
  /\ mapped' = [mapped EXCEPT ![p] = [o \in Objects |-> NoImage]]
  /\ plain' = [plain EXCEPT ![p] = {}]
  /\ given' = [given EXCEPT ![p] = [o \in Objects |-> {}]]
  /\ pc' = [t \in Threads |-> IF Proc(t) = p THEN "idle" ELSE pc[t]]
  /\ UNCHANGED <<dirVars, object, image, handle, opens, days>>

\* A day passes, while nobody is placing or about to open a copy.
NewDay ==
  /\ days < MaxDays
  /\ \A p \in Procs : phase[p] # "sweep"
  /\ \A t \in Threads : pc[t] \in {"idle", "get", "noload", "put"}
  /\ days' = days + 1
  /\ old' = {o \in Objects : dir[o] # NoImage} \cup temps
  /\ UNCHANGED <<dir, temps, procVars, pc, object, image, handle, opens, faults>>

Step(t) ==
  \/ CacheGet(t) \/ NoLoad(t) \/ Unlink(t) \/ TmpFile(t) \/ Link(t)
  \/ MkStemp(t) \/ WriteAll(t) \/ WriteFails(t) \/ Rename(t) \/ RenameFails(t)
  \/ OpenCopy(t) \/ OpenPlain(t) \/ CachePut(t)

Next ==
  \/ \E t \in Threads : Step(t) \/ \E o \in Objects : Attempt(t, o)
  \/ \E p \in Procs :
       \/ Start(p) \/ SweepUnlink(p) \/ SweepDone(p) \/ Exit(p)
       \/ \E n \in Objects \cup temps : SweepStat(p, n)
  \/ NewDay

Spec == Init /\ [][Next]_vars

------------------------------------------------------------------------------
\* No name in the runtime directory is ever a half-written image, whoever is
\* killed or runs out of space while writing, so nobody can map one.
WholeImages ==
  /\ \A o \in Objects : dir[o] # NoImage => dir[o].whole
  /\ \A p \in Procs, o \in Objects : mapped[p][o] # NoImage => mapped[p][o].whole

\* "the cache hands the same handle out to everyone": a process is never given
\* both the rewritten copy of a driver and the driver itself.
OneHandle ==
  \A p \in Procs, o \in Objects : Cardinality(given[p][o]) <= 1

\* "repeated runs overwrite instead of filling up the runtime dir": a template
\* that no open is filling was left by a failed write or a killed process.
LeftoversAreFaults ==
  Cardinality({x \in temps : ~(pc[x[1]] \in {"write", "rename"} /\ x = Template(x[1]))})
    <= faults * ThreadsPerProc

\* "One rewritten image per source object": an object whose handle is known is
\* not written out again, however often it is opened.
EmittedOnce ==
  \A t \in Threads :
    pc[t] \in {"unlink", "tmpfile", "link", "mkstemp", "write", "rename", "copy"} =>
      given[Proc(t)][object[t]] = {}
==============================================================================
