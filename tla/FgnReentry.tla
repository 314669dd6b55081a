----------------------------- MODULE FgnReentry -----------------------------
(***************************************************************************)
(* Opens of host libraries by src/foreign-dlopen.c that start inside other *)
(* opens: ld.so runs constructors with its lock held, and a constructor    *)
(* may open a host library through the same interception.  What such an    *)
(* open meets is this code's two spin locks, each held over a call that    *)
(* takes ld.so's lock, the provider table, and fgn_active_stack.           *)
(*                                                                         *)
(* calls[t] is the thread's nest of opens, innermost last: a frame is      *)
(* either an fgn_load or a dlopen_orig inside ld.so, at "ctor" while its   *)
(* constructors run.  What a load decides is left open; FgnWalk has that.  *)
(***************************************************************************)
EXTENDS Integers, Sequences

CONSTANTS
  Threads,
  Files,     \* files that DT_VERNEED records name
  Bundled,   \* those the bundle owns
  FGN_PROV_FILES,
  MaxDepth,  \* entries of fgn_active_stack
  MaxOpens,  \* bound: loads each thread starts
  MaxDeps,   \* bound: dependencies of an object
  NoFile, NoPath, NoThread

ASSUME FilesAssumption == NoFile \notin Files
ASSUME LimitsAssumption == FGN_PROV_FILES \in Nat /\ MaxDepth \in Nat \ {0} /\ MaxDeps \in Nat

VARIABLES
  ld,            \* ld.so's recursive lock: its owner and how often it holds it
  fgn_cache_lock, fgn_provider_lock, fgn_providers_scanned,
  fgn_providers, fgn_provider_files,
  fgn_active_stack,
  calls, opens,
  nested         \* history: threads that began an open inside a load of theirs

vars == <<ld, fgn_cache_lock, fgn_provider_lock, fgn_providers_scanned, fgn_providers,
          fgn_provider_files, fgn_active_stack, calls, opens, nested>>
locks == <<fgn_cache_lock, fgn_provider_lock, fgn_providers_scanned>>
table == <<fgn_providers, fgn_provider_files>>
started == <<opens, nested>>

\* canon is the path's string: each load has one of its own.
Load(t, at, d) == [at |-> at, depth |-> d, canon |-> <<t, opens[t]>>, files |-> {},
                   want |-> NoFile, deps |-> MaxDeps]
Ctor == [at |-> "ctor", depth |-> 0, canon |-> NoPath, files |-> {},
         want |-> NoFile, deps |-> 0]

Init ==
  /\ ld = [owner |-> NoThread, count |-> 0]
  /\ fgn_cache_lock = 0 /\ fgn_provider_lock = 0
  /\ fgn_providers_scanned = FALSE
  /\ fgn_providers = [i \in 1 .. FGN_PROV_FILES |-> NoFile] /\ fgn_provider_files = 0
  /\ fgn_active_stack = [t \in Threads |-> [d \in 0 .. MaxDepth - 1 |-> NoPath]]
  /\ calls = [t \in Threads |-> <<>>]
  /\ opens = [t \in Threads |-> 0]
  /\ nested = {}

------------------------------------------------------------------------------
Top(t) == calls[t][Len(calls[t])]
At(t, l) == calls[t] # <<>> /\ Top(t).at = l
SetTop(t, f) == calls' = [calls EXCEPT ![t] = [@ EXCEPT ![Len(@)] = f]]
\* The innermost frame becomes f and calls g.
Push(t, f, g) == calls' = [calls EXCEPT ![t] = Append([@ EXCEPT ![Len(@)] = f], g)]
Goto(t, l) == SetTop(t, [Top(t) EXCEPT !.at = l])
Return(t) == calls' = [calls EXCEPT ![t] = SubSeq(@, 1, Len(@) - 1)]

\* A call of ld.so that takes the lock and gives it back: dlsym, dladdr, a
\* dlopen with RTLD_NOLOAD.
LoaderFree(t) == ld.owner \in {NoThread, t}

\* dlopen_orig: the constructors run with the lock held.
EnterLoader(t, f) ==
  /\ LoaderFree(t)
  /\ ld' = [owner |-> t, count |-> ld.count + 1]
  /\ Push(t, f, Ctor)

CtorEnds(t) ==
  /\ At(t, "ctor")
  /\ ld' = [owner |-> IF ld.count = 1 THEN NoThread ELSE t, count |-> ld.count - 1]
  /\ Return(t)
  /\ UNCHANGED <<locks, table, fgn_active_stack, started>>

\* The program opens a library of its own, which the hook passes through.
PassThrough(t) ==
  /\ calls[t] = <<>> /\ opens[t] < MaxOpens
  /\ LoaderFree(t)
  /\ ld' = [owner |-> t, count |-> ld.count + 1]
  /\ calls' = [calls EXCEPT ![t] = <<Ctor>>]
  /\ opens' = [opens EXCEPT ![t] = @ + 1]
  /\ UNCHANGED <<locks, table, fgn_active_stack, nested>>

\* The program, or a constructor, opens a host library: dlopen asks dlsym for
\* the original, and fgn_attempt begins with fgn_scan_providers.
Attempt(t) ==
  /\ calls[t] = <<>> \/ At(t, "ctor")
  /\ opens[t] < MaxOpens
  /\ LoaderFree(t)
  /\ calls' = [calls EXCEPT ![t] = Append(@, Load(t, "scan", 0))]
  /\ opens' = [opens EXCEPT ![t] = @ + 1]
  /\ nested' = IF \E i \in DOMAIN calls[t] : calls[t][i].at # "ctor"
                 THEN nested \cup {t} ELSE nested
  /\ UNCHANGED <<ld, locks, table, fgn_active_stack>>

\* fgn_scan_providers: whoever is first goes on with the lock held,
ScanLock(t) ==
  /\ At(t, "scan") /\ fgn_cache_lock = 0
  /\ fgn_providers_scanned' = TRUE
  /\ fgn_cache_lock' = IF fgn_providers_scanned THEN 0 ELSE 1
  /\ Goto(t, IF fgn_providers_scanned THEN "get" ELSE "scan_ask")
  /\ UNCHANGED <<ld, fgn_provider_lock, table, fgn_active_stack, started>>

\* and asks dlsym and dladdr for our libc under it.
ScanAsk(t) ==
  /\ At(t, "scan_ask") /\ LoaderFree(t)
  /\ fgn_cache_lock' = 0
  /\ Goto(t, "get")
  /\ UNCHANGED <<ld, fgn_provider_lock, fgn_providers_scanned, table,
                 fgn_active_stack, started>>

\* fgn_cache_get: the handle is there, or not.
Get(t) ==
  /\ At(t, "get") /\ fgn_cache_lock = 0
  /\ Return(t) \/ Goto(t, "noload")
  /\ UNCHANGED <<ld, locks, table, fgn_active_stack, started>>

\* Variant of NoLoad: the stack is not thread-local.
NoLoadShared(t) ==
  /\ At(t, "noload") /\ LoaderFree(t)
  /\ \/ (Return(t) \/ Goto(t, "plain")) /\ UNCHANGED fgn_active_stack
     \/ /\ fgn_active_stack' = [u \in Threads |->
             [fgn_active_stack[u] EXCEPT ![Top(t).depth] = Top(t).canon]]
        /\ \E l \in {"walk", "plain"} : Goto(t, l)
  /\ UNCHANGED <<ld, locks, table, started>>

\* The fast path finds the library, or it is on the chain already; a core
\* library is opened as it is; any other is entered into the stack and walked,
\* or opened as it is if it cannot be parsed.
NoLoad(t) ==
  /\ At(t, "noload") /\ LoaderFree(t)
  /\ \/ (Return(t) \/ Goto(t, "plain")) /\ UNCHANGED fgn_active_stack
     \/ /\ fgn_active_stack' =
             [fgn_active_stack EXCEPT ![t][Top(t).depth] = Top(t).canon]
        /\ \E l \in {"walk", "plain"} : Goto(t, l)
  /\ UNCHANGED <<ld, locks, table, started>>

\* dlopen_orig of a file that is not walked.
OpenPlain(t) ==
  /\ At(t, "plain")
  /\ EnterLoader(t, [Top(t) EXCEPT !.at = "opened"])
  /\ UNCHANGED <<locks, table, fgn_active_stack, started>>
\* What no handle is recorded of.
Unrecorded(t) ==
  /\ At(t, "opened") /\ Return(t)
  /\ UNCHANGED <<ld, locks, table, fgn_active_stack, started>>

\* A dependency is taken from the bundle or probed.
Probe(t) ==
  /\ At(t, "walk") /\ Top(t).deps > 0
  /\ EnterLoader(t, [Top(t) EXCEPT !.deps = @ - 1])
  /\ UNCHANGED <<locks, table, fgn_active_stack, started>>

\* A dependency is walked itself; a chain that is too deep ends at once.
Recurse(t) ==
  LET f == [Top(t) EXCEPT !.deps = @ - 1]
  IN  /\ At(t, "walk") /\ Top(t).deps > 0
      /\ IF f.depth + 1 >= MaxDepth
           THEN SetTop(t, f) /\ UNCHANGED opens
           ELSE /\ opens[t] < MaxOpens
                /\ opens' = [opens EXCEPT ![t] = @ + 1]
                /\ Push(t, f, Load(t, "get", f.depth + 1))
      /\ UNCHANGED <<ld, locks, table, fgn_active_stack, nested>>

\* The closure is loaded; fgn_requirements_satisfied asks for these files.
EndWalk(t) ==
  /\ At(t, "walk")
  /\ \E fs \in SUBSET Files : SetTop(t, [Top(t) EXCEPT !.at = "require", !.files = fs])
  /\ UNCHANGED <<ld, locks, table, fgn_active_stack, started>>

\* Variant of LockProviders: the table has no lock.
NoProviderLock(t) ==
  /\ At(t, "require")
  /\ \E f \in Top(t).files :
       SetTop(t, [Top(t) EXCEPT !.at = "search", !.want = f, !.files = @ \ {f}])
  /\ UNCHANGED <<ld, locks, table, fgn_active_stack, started>>

LockProviders(t) ==
  /\ At(t, "require") /\ fgn_provider_lock = 0
  /\ \E f \in Top(t).files :
       SetTop(t, [Top(t) EXCEPT !.at = "search", !.want = f, !.files = @ \ {f}])
  /\ fgn_provider_lock' = 1
  /\ UNCHANGED <<ld, fgn_cache_lock, fgn_providers_scanned, table, fgn_active_stack,
                 started>>

Entry(f) == \E i \in 1 .. fgn_provider_files : fgn_providers[i] = f

\* Variant of Search: the early return for a full table keeps the lock.
SearchKeepsLock(t) ==
  /\ At(t, "search")
  /\ \/ /\ Entry(Top(t).want) \/ fgn_provider_files >= FGN_PROV_FILES
        /\ fgn_provider_lock' = IF Entry(Top(t).want) THEN 0 ELSE 1
        /\ Goto(t, "require")
     \/ /\ ~Entry(Top(t).want) /\ fgn_provider_files < FGN_PROV_FILES
        /\ Goto(t, "add") /\ UNCHANGED fgn_provider_lock
  /\ UNCHANGED <<ld, fgn_cache_lock, fgn_providers_scanned, table, fgn_active_stack,
                 started>>

\* fgn_provider_for finds the file's entry, or has no room for another.
Search(t) ==
  /\ At(t, "search")
  /\ \/ /\ Entry(Top(t).want) \/ fgn_provider_files >= FGN_PROV_FILES
        /\ fgn_provider_lock' = 0
        /\ Goto(t, "require")
     \/ /\ ~Entry(Top(t).want) /\ fgn_provider_files < FGN_PROV_FILES
        /\ Goto(t, "add") /\ UNCHANGED fgn_provider_lock
  /\ UNCHANGED <<ld, fgn_cache_lock, fgn_providers_scanned, table, fgn_active_stack,
                 started>>

\* fgn_provider_files++, and the file's name, of which 127 bytes are kept: files
\* here are names that differ in those.
Add(t) ==
  /\ At(t, "add")
  /\ fgn_provider_files' = fgn_provider_files + 1
  /\ fgn_providers' = [i \in DOMAIN fgn_providers \cup {fgn_provider_files + 1} |->
       IF i = fgn_provider_files + 1 THEN Top(t).want ELSE fgn_providers[i]]
  /\ Goto(t, "ask")
  /\ UNCHANGED <<ld, locks, fgn_active_stack, started>>

\* The bundle's file is read, or ld.so is asked for a loaded one, under the lock.
Ask(t) ==
  /\ At(t, "ask")
  /\ Top(t).want \in Bundled \/ LoaderFree(t)
  /\ fgn_provider_lock' = 0
  /\ Goto(t, "require")
  /\ UNCHANGED <<ld, fgn_cache_lock, fgn_providers_scanned, table, fgn_active_stack,
                 started>>

\* The copy, or the file, is opened, and its handle recorded by fgn_cache_put;
\* where ld.so refuses both there is nothing to record.
Open(t) ==
  /\ At(t, "require") /\ Top(t).files = {}
  /\ \/ EnterLoader(t, [Top(t) EXCEPT !.at = "put"])
     \/ LoaderFree(t) /\ Return(t) /\ UNCHANGED ld
  /\ UNCHANGED <<locks, table, fgn_active_stack, started>>
Put(t) ==
  /\ At(t, "put") /\ fgn_cache_lock = 0
  /\ Return(t)
  /\ UNCHANGED <<ld, locks, table, fgn_active_stack, started>>

Step(t) ==
  \/ CtorEnds(t)
  \/ ScanLock(t) \/ ScanAsk(t) \/ Get(t) \/ NoLoad(t)
  \/ OpenPlain(t) \/ Unrecorded(t)
  \/ Probe(t) \/ Recurse(t) \/ EndWalk(t)
  \/ LockProviders(t) \/ Search(t) \/ Add(t) \/ Ask(t)
  \/ Open(t) \/ Put(t)

Next == \E t \in Threads : Step(t) \/ Attempt(t) \/ PassThrough(t)

Spec == Init /\ [][Next]_vars

\* A thread inside an open keeps running: constructors end, both spins yield.
FairSpec == Spec /\ \A t \in Threads : WF_vars(Step(t))

------------------------------------------------------------------------------
\* "two threads can both pass the bounds check and both post-increment
\* fgn_provider_files, which writes one entry past the end of the table": with
\* the lock they cannot, and no file gets two entries, a full table and opens
\* inside opens included.
OneEntryPerFile ==
  /\ fgn_provider_files <= FGN_PROV_FILES
  /\ \A i, j \in 1 .. fgn_provider_files : fgn_providers[i] = fgn_providers[j] => i = j

\* "every thread walks its own chain": the paths that a walk reads, for cycles
\* and for the directories to hunt in, are those of the loads it is inside, so
\* their strings still exist; except on a thread whose constructors have opened
\* a host library in the middle of a walk.  That open begins at depth 0 and
\* leaves entries behind whose strings it frees.
StackIsOwn ==
  \A t \in Threads \ nested : At(t, "walk") =>
    \A j \in 0 .. Top(t).depth :
      fgn_active_stack[t][j] = calls[t][Len(calls[t]) - Top(t).depth + j].canon

\* One thread runs constructors with ld.so's lock held and waits for a lock of
\* this code's; the other holds that one and asks ld.so.  It is the first scan
\* or the provider table: nobody waits for a get or a put of the cache.
Crossed ==
  \E t, u \in Threads :
    /\ t # u /\ ld.owner = t
    /\ \/ /\ At(u, "scan_ask") /\ fgn_cache_lock = 1
          /\ At(t, "scan")
       \/ /\ At(u, "ask") /\ Top(u).want \notin Bundled
          /\ At(t, "require") /\ Top(t).files # {} /\ fgn_provider_lock = 1

\* Every open comes back, from whatever depth it was started: the locks are
\* given back on every path and no thread waits for itself; except where two
\* threads have taken ld.so's lock and one of this code's in opposite orders.
OpensReturn == \A t \in Threads : (calls[t] # <<>>) ~> (calls[t] = <<>> \/ Crossed)
==============================================================================
