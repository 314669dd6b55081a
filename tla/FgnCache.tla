------------------------------- MODULE FgnCache -------------------------------
(***************************************************************************)
(* The handle cache of src/foreign-dlopen.c and the spin lock it shares    *)
(* with the first scan for version providers, as the threads of a process  *)
(* use them: every intercepted dlopen of a host library scans once, then   *)
(* fgn_load looks its path up, loads on a miss (which may recurse into the *)
(* objects it needs) and records the handle.                               *)
(*                                                                         *)
(* The loops over the table advance one slot per step and an entry's two   *)
(* fields are written by two steps, as in the code: what makes lookups     *)
(* atomic is the lock, not the model.  The load itself is any handle.      *)
(***************************************************************************)
EXTENDS Integers, Sequences

CONSTANTS
  Threads, Keys, Handles,
  CacheMax,   \* FGN_CACHE_MAX
  MaxDepth,   \* entries of fgn_active_stack
  MaxOpens,   \* bound: opens each thread starts
  NoKey, NoHandle

ASSUME CacheMaxAssumption == CacheMax \in Nat \ {0}
ASSUME NoKeyAssumption == NoKey \notin Keys
ASSUME NoHandleAssumption == NoHandle \notin Handles

VARIABLES
  fgn_cache_lock,
  fgn_cache,
  fgn_providers_scanned,
  collected,  \* times our libc's versions were appended to the provider table
  pc, idx,
  chain,      \* paths the thread is loading, innermost first (fgn_active_stack)
  handle,     \* `handle` of the function the thread is in, then its result
  opens

vars == <<fgn_cache_lock, fgn_cache, fgn_providers_scanned, collected,
          pc, idx, chain, handle, opens>>

Slots == 1 .. CacheMax
Entry == [key : Keys \cup {NoKey}, handle : Handles \cup {NoHandle}]

Waiting == {"wait_scan", "wait_get", "wait_put"}
Holding == {"scan", "collect", "unlock_scan", "get", "unlock_get",
            "put", "put_handle", "unlock_put"}
Locations == Waiting \cup Holding \cup {"idle", "load"}

Init ==
  /\ fgn_cache_lock = 0
  /\ fgn_cache = [i \in Slots |-> [key |-> NoKey, handle |-> NoHandle]]
  /\ fgn_providers_scanned = FALSE
  /\ collected = 0
  /\ pc = [t \in Threads |-> "idle"]
  /\ idx = [t \in Threads |-> 1]
  /\ chain = [t \in Threads |-> <<>>]
  /\ handle = [t \in Threads |-> NoHandle]
  /\ opens = [t \in Threads |-> 0]

Goto(t, l) == pc' = [pc EXCEPT ![t] = l]

\* fgn_load returns: to the program from depth 0, else into its parent's walk.
Return(t) ==
  /\ chain' = [chain EXCEPT ![t] = Tail(@)]
  /\ Goto(t, IF Tail(chain[t]) = <<>> THEN "idle" ELSE "load")

table == <<fgn_cache, fgn_providers_scanned, collected>>

\* fgn_attempt accepts a host library and starts with fgn_scan_providers.
Attempt(t, k) ==
  /\ pc[t] = "idle" /\ opens[t] < MaxOpens
  /\ opens' = [opens EXCEPT ![t] = @ + 1]
  /\ chain' = [chain EXCEPT ![t] = <<k>> \o @]
  /\ Goto(t, "wait_scan")
  /\ UNCHANGED <<fgn_cache_lock, table, idx, handle>>

\* Variant of LockCache: a plain store that does not look at what it replaces.
LockIgnoringHolder(t) ==
  /\ fgn_cache_lock' = 1
  /\ \/ pc[t] = "wait_scan" /\ Goto(t, "scan")
     \/ pc[t] = "wait_get" /\ Goto(t, "get")
     \/ pc[t] = "wait_put" /\ Goto(t, "put")
  /\ idx' = [idx EXCEPT ![t] = 1]
  /\ UNCHANGED <<table, chain, handle, opens>>

\* __sync_lock_test_and_set finds 0; while it finds 1 the thread only yields.
LockCache(t) ==
  /\ fgn_cache_lock = 0
  /\ fgn_cache_lock' = 1
  /\ \/ pc[t] = "wait_scan" /\ Goto(t, "scan")
     \/ pc[t] = "wait_get" /\ Goto(t, "get")
     \/ pc[t] = "wait_put" /\ Goto(t, "put")
  /\ idx' = [idx EXCEPT ![t] = 1]
  /\ UNCHANGED <<table, chain, handle, opens>>

\* Variant of ScanTest: the flag is set and never looked at.
ScanAgain(t) ==
  /\ pc[t] = "scan"
  /\ fgn_providers_scanned' = TRUE
  /\ Goto(t, "collect")
  /\ UNCHANGED <<fgn_cache_lock, fgn_cache, collected, idx, chain, handle, opens>>

\* Variant of ScanTest: the lock guards the flag alone and not the collecting.
ScanUnlocked(t) ==
  /\ pc[t] = "scan"
  /\ fgn_providers_scanned' = TRUE
  /\ fgn_cache_lock' = 0
  /\ Goto(t, IF fgn_providers_scanned THEN "wait_get" ELSE "collect")
  /\ UNCHANGED <<fgn_cache, collected, idx, chain, handle, opens>>

ScanTest(t) ==
  /\ pc[t] = "scan"
  /\ fgn_providers_scanned' = TRUE
  /\ Goto(t, IF fgn_providers_scanned THEN "unlock_scan" ELSE "collect")
  /\ UNCHANGED <<fgn_cache_lock, fgn_cache, collected, idx, chain, handle, opens>>

ScanCollect(t) ==
  /\ pc[t] = "collect"
  /\ collected' = collected + 1
  /\ Goto(t, "unlock_scan")
  /\ UNCHANGED <<fgn_cache_lock, fgn_cache, fgn_providers_scanned, idx, chain,
                 handle, opens>>

ScanUnlock(t) ==
  /\ pc[t] = "unlock_scan"
  /\ fgn_cache_lock' = 0
  /\ Goto(t, "wait_get")
  /\ UNCHANGED <<table, idx, chain, handle, opens>>

\* Variant of GetStep: any entry that is taken matches.
GetAnyEntry(t) ==
  LET i == idx[t]
      found == fgn_cache[i].key # NoKey
  IN  /\ pc[t] = "get"
      /\ IF found \/ i = CacheMax
           THEN /\ handle' = [handle EXCEPT ![t] =
                                IF found THEN fgn_cache[i].handle ELSE NoHandle]
                /\ Goto(t, "unlock_get") /\ UNCHANGED idx
           ELSE idx' = [idx EXCEPT ![t] = i + 1] /\ UNCHANGED <<pc, handle>>
      /\ UNCHANGED <<fgn_cache_lock, table, chain, opens>>

\* One turn of fgn_cache_get's loop.
GetStep(t) ==
  LET i == idx[t]
      found == fgn_cache[i].key = Head(chain[t])
  IN  /\ pc[t] = "get"
      /\ IF found \/ i = CacheMax
           THEN /\ handle' = [handle EXCEPT ![t] =
                                IF found THEN fgn_cache[i].handle ELSE NoHandle]
                /\ Goto(t, "unlock_get") /\ UNCHANGED idx
           ELSE idx' = [idx EXCEPT ![t] = i + 1] /\ UNCHANGED <<pc, handle>>
      /\ UNCHANGED <<fgn_cache_lock, table, chain, opens>>

\* Variant of GetUnlock: the early return of a hit keeps the lock.
GetKeepsLock(t) ==
  /\ pc[t] = "unlock_get"
  /\ IF handle[t] # NoHandle
       THEN Return(t) /\ UNCHANGED fgn_cache_lock
       ELSE Goto(t, "load") /\ fgn_cache_lock' = 0 /\ UNCHANGED chain
  /\ UNCHANGED <<table, idx, handle, opens>>

GetUnlock(t) ==
  /\ pc[t] = "unlock_get"
  /\ fgn_cache_lock' = 0
  /\ IF handle[t] # NoHandle
       THEN Return(t)
       ELSE Goto(t, "load") /\ UNCHANGED chain
  /\ UNCHANGED <<table, idx, handle, opens>>

\* The closure walk recurses into a dependency that is a host library.
LoadDependency(t, k) ==
  /\ pc[t] = "load" /\ Len(chain[t]) < MaxDepth
  /\ opens[t] < MaxOpens
  /\ opens' = [opens EXCEPT ![t] = @ + 1]
  /\ chain' = [chain EXCEPT ![t] = <<k>> \o @]
  /\ Goto(t, "wait_get")
  /\ UNCHANGED <<fgn_cache_lock, table, idx, handle>>

\* The load ends without a record: no handle, or one the process already had,
\* a core library's or that of a file that could not be parsed.
LoadUncached(t, h) ==
  /\ pc[t] = "load"
  /\ handle' = [handle EXCEPT ![t] = h]
  /\ Return(t)
  /\ UNCHANGED <<fgn_cache_lock, table, idx, opens>>

LoadDone(t, h) ==
  /\ pc[t] = "load"
  /\ handle' = [handle EXCEPT ![t] = h]
  /\ Goto(t, "wait_put")
  /\ UNCHANGED <<fgn_cache_lock, table, idx, chain, opens>>

\* Variant of PutStep: the loop runs one slot past the table.
PutPastTheEnd(t) ==
  LET i == idx[t]
  IN  /\ pc[t] = "put"
      /\ IF fgn_cache[i].key = NoKey
           THEN /\ fgn_cache' = [fgn_cache EXCEPT ![i].key = Head(chain[t])]
                /\ Goto(t, "put_handle") /\ UNCHANGED idx
           ELSE idx' = [idx EXCEPT ![t] = i + 1] /\ UNCHANGED <<fgn_cache, pc>>
      /\ UNCHANGED <<fgn_cache_lock, fgn_providers_scanned, collected, chain,
                     handle, opens>>

\* Variant of PutStep: the lock is given back once the slot is claimed.
PutUnlocksEarly(t) ==
  LET i == idx[t]
  IN  /\ pc[t] = "put"
      /\ IF fgn_cache[i].key = NoKey
           THEN /\ fgn_cache' = [fgn_cache EXCEPT ![i].key = Head(chain[t])]
                /\ fgn_cache_lock' = 0
                /\ Goto(t, "put_handle") /\ UNCHANGED idx
           ELSE /\ UNCHANGED <<fgn_cache, fgn_cache_lock>>
                /\ IF i = CacheMax
                     THEN Goto(t, "unlock_put") /\ UNCHANGED idx
                     ELSE idx' = [idx EXCEPT ![t] = i + 1] /\ UNCHANGED pc
      /\ UNCHANGED <<fgn_providers_scanned, collected, chain, handle, opens>>

\* Variant of PutStep: a full table gives up its last entry.
PutEvicts(t) ==
  LET i == idx[t]
  IN  /\ pc[t] = "put"
      /\ IF fgn_cache[i].key = NoKey \/ i = CacheMax
           THEN /\ fgn_cache' = [fgn_cache EXCEPT ![i].key = Head(chain[t])]
                /\ Goto(t, "put_handle") /\ UNCHANGED idx
           ELSE idx' = [idx EXCEPT ![t] = i + 1] /\ UNCHANGED <<fgn_cache, pc>>
      /\ UNCHANGED <<fgn_cache_lock, fgn_providers_scanned, collected, chain,
                     handle, opens>>

\* One turn of fgn_cache_put's loop; a full table drops the entry silently.
PutStep(t) ==
  LET i == idx[t]
  IN  /\ pc[t] = "put"
      /\ IF fgn_cache[i].key = NoKey
           THEN /\ fgn_cache' = [fgn_cache EXCEPT ![i].key = Head(chain[t])]
                /\ Goto(t, "put_handle") /\ UNCHANGED idx
           ELSE /\ UNCHANGED fgn_cache
                /\ IF i = CacheMax
                     THEN Goto(t, "unlock_put") /\ UNCHANGED idx
                     ELSE idx' = [idx EXCEPT ![t] = i + 1] /\ UNCHANGED pc
      /\ UNCHANGED <<fgn_cache_lock, fgn_providers_scanned, collected, chain,
                     handle, opens>>

PutHandle(t) ==
  /\ pc[t] = "put_handle"
  /\ fgn_cache' = [fgn_cache EXCEPT ![idx[t]].handle = handle[t]]
  /\ Goto(t, "unlock_put")
  /\ UNCHANGED <<fgn_cache_lock, fgn_providers_scanned, collected, idx, chain,
                 handle, opens>>

PutUnlock(t) ==
  /\ pc[t] = "unlock_put"
  /\ fgn_cache_lock' = 0
  /\ Return(t)
  /\ UNCHANGED <<table, idx, handle, opens>>

Step(t) ==
  \/ LockCache(t)
  \/ ScanTest(t) \/ ScanCollect(t) \/ ScanUnlock(t)
  \/ GetStep(t) \/ GetUnlock(t)
  \/ \E k \in Keys : LoadDependency(t, k)
  \/ \E h \in Handles \cup {NoHandle} : LoadUncached(t, h)
  \/ \E h \in Handles : LoadDone(t, h)
  \/ PutStep(t) \/ PutHandle(t) \/ PutUnlock(t)

Next == \E t \in Threads : Step(t) \/ \E k \in Keys : Attempt(t, k)

Spec == Init /\ [][Next]_vars

\* A thread inside an open keeps running, and sched_yield lets the others run.
FairSpec == Spec /\ \A t \in Threads : WF_vars(Step(t))

------------------------------------------------------------------------------
TypeOK ==
  /\ fgn_cache_lock \in {0, 1}
  /\ fgn_cache \in [Slots -> Entry]
  /\ fgn_providers_scanned \in BOOLEAN
  /\ collected \in Nat
  /\ pc \in [Threads -> Locations]
  /\ idx \in [Threads -> Slots]
  /\ chain \in [Threads -> Seq(Keys)]
  /\ handle \in [Threads -> Handles \cup {NoHandle}]
  /\ opens \in [Threads -> Nat]

\* The handle an unhurried reader finds for k is h: the first entry with that
\* key wins, later duplicates are never looked at.
Answer(k, h) ==
  \E i \in Slots :
    /\ fgn_cache[i] = [key |-> k, handle |-> h]
    /\ \A j \in 1 .. i - 1 : fgn_cache[j].key # k

\* fgn_lock_cache / fgn_unlock_cache: never two threads between them.
MutualExclusion ==
  \A t, u \in Threads : pc[t] \in Holding /\ pc[u] \in Holding => t = u

\* "guards against concurrent first scans duplicating entries": the versions of
\* our libc are appended at most once however many first opens race.
ScannedOnce == collected <= 1

\* fgn_have_version reads the provider table without the lock, so every thread
\* that gets past fgn_scan_providers must find the one scan complete.
VersionsBeforeLoad ==
  \A t \in Threads :
    pc[t] \in {"wait_get", "get", "unlock_get", "load", "wait_put", "put",
               "put_handle", "unlock_put"} => collected = 1

\* A lookup that found a path's entry never comes back with no handle: nobody
\* sees an entry whose key is written and whose handle is not, which would send
\* it to load a second copy of an object that is already recorded.
NoTornEntry ==
  \A t \in Threads, i \in Slots :
    /\ pc[t] = "unlock_get"
    /\ fgn_cache[i].key = Head(chain[t])
    => /\ handle[t] # NoHandle
       /\ Answer(Head(chain[t]), handle[t])

\* The handle handed out for a path stays the one handed out, although two
\* threads that missed together both record theirs.
AnswersNeverChange ==
  [][\A k \in Keys, h \in Handles : Answer(k, h) => Answer(k, h)']_vars

\* The table fills from the front and an entry is never taken out or overwritten.
Packed ==
  \A i \in Slots : fgn_cache[i].key # NoKey =>
    \A j \in 1 .. i - 1 : fgn_cache[j].key # NoKey

\* Every open comes back to the program: the lock is given back on each path,
\* and is never still held when the load of a dependency asks for it again.
EveryOpenReturns == \A t \in Threads : (pc[t] # "idle") ~> (pc[t] = "idle")

------------------------------------------------------------------------------
\* The table as the map it stands for, and a thread's phase in an open.
AbsMap ==
  [k \in Keys |-> IF \E h \in Handles : Answer(k, h)
                    THEN CHOOSE h \in Handles : Answer(k, h)
                    ELSE NoHandle]
AbsFull == \A i \in Slots : fgn_cache[i].handle # NoHandle
PhaseAt(l) ==
  CASE l = "idle" -> "idle"
    [] l \in {"wait_scan", "scan", "collect", "unlock_scan", "wait_get", "get"} -> "asking"
    [] l = "unlock_get" -> "looked"
    [] l = "load" -> "loading"
    [] l \in {"wait_put", "put", "put_handle"} -> "recording"
    [] l = "unlock_put" -> "recorded"
AbsPhase == [t \in Threads |-> PhaseAt(pc[t])]

Abs == INSTANCE HandleMap WITH map <- AbsMap, full <- AbsFull, phase <- AbsPhase

\* The locked table implements the atomic map.
ImplementsHandleMap == Abs!Spec
==============================================================================
