---------------------------- MODULE FgnCacheProofs ----------------------------
(***************************************************************************)
(* Proofs about FgnCache for any sets of threads, paths and handles and    *)
(* any table size.  The invariants are proved from the lock outwards: types*)
(* first, then that the lock excludes, then what the lock protects, and last *)
(* that what it protects is the map of HandleMap.                          *)
(***************************************************************************)
EXTENDS FgnCache, TLAPS

------------------------------------------------------------------------------
\* A thread is between fgn_lock_cache and fgn_unlock_cache only while the word
\* is 1, and it is there alone.
LockInv ==
  /\ MutualExclusion
  /\ \A t \in Threads : pc[t] \in Holding => fgn_cache_lock = 1

\* Every thread inside an open knows which path it is opening.
ChainInv == \A t \in Threads : pc[t] # "idle" => chain[t] # <<>>

TypeInv == TypeOK /\ ChainInv

PastScan == {"unlock_scan", "wait_get", "get", "unlock_get", "load", "wait_put",
             "put", "put_handle", "unlock_put"}

\* The flag is raised before the scan, the versions are there after it, and in
\* between the one scanning thread still holds the lock.
ScanInv ==
  /\ collected \in {0, 1}
  /\ ~fgn_providers_scanned => collected = 0
  /\ \A t \in Threads : pc[t] = "collect" => fgn_providers_scanned /\ collected = 0
  /\ fgn_providers_scanned /\ (\A t \in Threads : pc[t] # "collect") => collected = 1
  /\ \A t \in Threads : pc[t] \in PastScan => collected = 1

\* The used slots are a prefix, and only the slot a thread is about to complete
\* has a key without a handle.
TableInv ==
  /\ Packed
  /\ \A i \in Slots : fgn_cache[i].key = NoKey => fgn_cache[i].handle = NoHandle
  /\ \A t \in Threads :
       pc[t] \in {"put", "put_handle"} =>
         \A j \in 1 .. idx[t] - 1 : fgn_cache[j].key # NoKey
  /\ \A t \in Threads : pc[t] = "put_handle" =>
       fgn_cache[idx[t]] = [key |-> Head(chain[t]), handle |-> NoHandle]
  /\ \A t \in Threads : pc[t] \in {"wait_put", "put", "put_handle"} =>
       handle[t] # NoHandle
  /\ \A i \in Slots : fgn_cache[i].key # NoKey /\ fgn_cache[i].handle = NoHandle =>
       \E t \in Threads : pc[t] = "put_handle" /\ idx[t] = i

\* What a thread in fgn_cache_get knows: the slots behind it do not hold its
\* path, and what it leaves the loop with is the answer.
LookupInv ==
  /\ \A t \in Threads : pc[t] = "get" =>
       \A j \in 1 .. idx[t] - 1 : fgn_cache[j].key # Head(chain[t])
  /\ \A t \in Threads : pc[t] = "unlock_get" =>
       \/ handle[t] # NoHandle /\ Answer(Head(chain[t]), handle[t])
       \/ handle[t] = NoHandle /\ \A i \in Slots : fgn_cache[i].key # Head(chain[t])

------------------------------------------------------------------------------
\* Popping a chain leaves a chain.
LEMMA TailType ==
  ASSUME NEW s \in Seq(Keys), s # <<>>
  PROVE  Head(s) \in Keys /\ Tail(s) \in Seq(Keys)
  OBVIOUS

\* Pushing a path on a chain gives a chain.
LEMMA PushType ==
  ASSUME NEW s \in Seq(Keys), NEW k \in Keys
  PROVE  <<k>> \o s \in Seq(Keys) /\ <<k>> \o s # <<>>
  OBVIOUS

\* A step of one thread moves that thread and no other.
LEMMA GotoType ==
  ASSUME pc \in [Threads -> Locations], NEW t \in Threads, NEW l \in Locations,
         Goto(t, l)
  PROVE  pc' \in [Threads -> Locations]
  BY DEF Goto

\* The locations, spelled out for the provers.
LEMMA LocationsElements ==
  Locations = {"idle", "load", "wait_scan", "wait_get", "wait_put", "scan",
               "collect", "unlock_scan", "get", "unlock_get", "put",
               "put_handle", "unlock_put"}
  BY DEF Locations, Waiting, Holding

\* fgn_load leaves a path behind only while it returns into a parent's walk.
LEMMA ReturnType ==
  ASSUME TypeInv, NEW t \in Threads, pc[t] # "idle", Return(t)
  PROVE  /\ pc' \in [Threads -> Locations]
         /\ chain' \in [Threads -> Seq(Keys)]
         /\ ChainInv'
<1>1. Tail(chain[t]) \in Seq(Keys)
  BY TailType DEF TypeInv, TypeOK, ChainInv
<1>2. pc' \in [Threads -> Locations]
  BY GotoType, LocationsElements DEF Return, TypeInv, TypeOK
<1>3. chain' \in [Threads -> Seq(Keys)]
  BY <1>1 DEF Return, TypeInv, TypeOK
<1>4. ChainInv'
  BY <1>1 DEF Return, Goto, TypeInv, TypeOK, ChainInv
<1> QED
  BY <1>2, <1>3, <1>4

\* A load that starts pushes its path.
LEMMA PushChain ==
  ASSUME TypeInv, NEW t \in Threads, NEW k \in Keys, NEW l \in Locations,
         chain' = [chain EXCEPT ![t] = <<k>> \o @], Goto(t, l)
  PROVE  /\ pc' \in [Threads -> Locations]
         /\ chain' \in [Threads -> Seq(Keys)]
         /\ ChainInv'
<1>1. pc' \in [Threads -> Locations]
  BY GotoType DEF TypeInv, TypeOK
<1>2. <<k>> \o chain[t] \in Seq(Keys) /\ <<k>> \o chain[t] # <<>>
  BY PushType DEF TypeInv, TypeOK
<1>3. chain' \in [Threads -> Seq(Keys)]
  BY <1>2 DEF TypeInv, TypeOK
<1>4. ChainInv'
  BY <1>2 DEF TypeInv, TypeOK, ChainInv, Goto
<1> QED
  BY <1>1, <1>3, <1>4

\* A step inside one of the functions under the lock leaves the chain alone.
LEMMA StayChain ==
  ASSUME TypeInv, NEW t \in Threads, pc[t] # "idle", UNCHANGED chain,
         \/ UNCHANGED pc
         \/ \E l \in Locations : Goto(t, l)
  PROVE  /\ pc' \in [Threads -> Locations]
         /\ chain' \in [Threads -> Seq(Keys)]
         /\ ChainInv'
<1>1. pc' \in [Threads -> Locations]
  BY GotoType DEF TypeInv, TypeOK
<1>2. ChainInv'
  BY DEF TypeInv, TypeOK, ChainInv, Goto
<1> QED
  BY <1>1, <1>2 DEF TypeInv, TypeOK

\* Every variable keeps its type, and a thread in an open has a path, whatever
\* the threads do.
LEMMA TypeStep == TypeInv /\ [Next]_vars => TypeInv'
<1> SUFFICES ASSUME TypeInv, [Next]_vars PROVE TypeInv'
  OBVIOUS
<1> USE LocationsElements
<1>1. ASSUME NEW t \in Threads, NEW k \in Keys, Attempt(t, k) PROVE TypeInv'
  <2>1. /\ pc' \in [Threads -> Locations]
        /\ chain' \in [Threads -> Seq(Keys)]
        /\ ChainInv'
    BY <1>1, PushChain DEF Attempt
  <2>2. opens' \in [Threads -> Nat]
    BY <1>1 DEF Attempt, TypeInv, TypeOK
  <2> QED
    BY <1>1, <2>1, <2>2 DEF Attempt, table, TypeInv, TypeOK
<1>2. ASSUME NEW t \in Threads, LockCache(t) PROVE TypeInv'
  <2>1. idx' \in [Threads -> Slots]
    BY <1>2, CacheMaxAssumption DEF LockCache, Slots, TypeInv, TypeOK
  <2> QED
    BY <1>2, <2>1, StayChain DEF LockCache, table, TypeInv, TypeOK
<1>3. ASSUME NEW t \in Threads, ScanTest(t) PROVE TypeInv'
  BY <1>3, StayChain DEF ScanTest, TypeInv, TypeOK
<1>4. ASSUME NEW t \in Threads, ScanCollect(t) PROVE TypeInv'
  BY <1>4, StayChain DEF ScanCollect, TypeInv, TypeOK
<1>5. ASSUME NEW t \in Threads, ScanUnlock(t) PROVE TypeInv'
  BY <1>5, StayChain DEF ScanUnlock, table, TypeInv, TypeOK
<1>6. ASSUME NEW t \in Threads, GetStep(t) PROVE TypeInv'
  <2>1. idx' \in [Threads -> Slots]
    <3>1. idx[t] \in Slots /\ (idx[t] # CacheMax => idx[t] + 1 \in Slots)
      BY CacheMaxAssumption DEF Slots, TypeInv, TypeOK
    <3>2. idx' = idx \/ (idx[t] # CacheMax /\ idx' = [idx EXCEPT ![t] = idx[t] + 1])
      BY <1>6 DEF GetStep
    <3> QED
      BY <3>1, <3>2 DEF TypeInv, TypeOK
  <2>2. handle' \in [Threads -> Handles \cup {NoHandle}]
    BY <1>6 DEF GetStep, TypeInv, TypeOK, Entry
  <2>3. /\ pc[t] # "idle" /\ UNCHANGED chain
        /\ UNCHANGED pc \/ \E l \in Locations : Goto(t, l)
    BY <1>6 DEF GetStep
  <2>4. /\ pc' \in [Threads -> Locations]
        /\ chain' \in [Threads -> Seq(Keys)]
        /\ ChainInv'
    BY <2>3, StayChain
  <2> QED
    BY <1>6, <2>1, <2>2, <2>4 DEF GetStep, table, TypeInv, TypeOK
<1>7. ASSUME NEW t \in Threads, GetUnlock(t) PROVE TypeInv'
  <2>1. /\ pc' \in [Threads -> Locations]
        /\ chain' \in [Threads -> Seq(Keys)]
        /\ ChainInv'
    BY <1>7, ReturnType, StayChain DEF GetUnlock
  <2> QED
    BY <1>7, <2>1 DEF GetUnlock, table, TypeInv, TypeOK
<1>8. ASSUME NEW t \in Threads, NEW k \in Keys, LoadDependency(t, k) PROVE TypeInv'
  <2>1. /\ pc' \in [Threads -> Locations]
        /\ chain' \in [Threads -> Seq(Keys)]
        /\ ChainInv'
    BY <1>8, PushChain DEF LoadDependency
  <2>2. opens' \in [Threads -> Nat]
    BY <1>8 DEF LoadDependency, TypeInv, TypeOK
  <2> QED
    BY <1>8, <2>1, <2>2 DEF LoadDependency, table, TypeInv, TypeOK
<1>9. ASSUME NEW t \in Threads, NEW h \in Handles \cup {NoHandle}, LoadUncached(t, h)
      PROVE  TypeInv'
  BY <1>9, ReturnType DEF LoadUncached, table, TypeInv, TypeOK
<1>10. ASSUME NEW t \in Threads, NEW h \in Handles, LoadDone(t, h) PROVE TypeInv'
  BY <1>10, StayChain DEF LoadDone, table, TypeInv, TypeOK
<1>11. ASSUME NEW t \in Threads, PutStep(t) PROVE TypeInv'
  <2>1. idx' \in [Threads -> Slots]
    <3>1. idx[t] \in Slots /\ (idx[t] # CacheMax => idx[t] + 1 \in Slots)
      BY CacheMaxAssumption DEF Slots, TypeInv, TypeOK
    <3>2. idx' = idx \/ (idx[t] # CacheMax /\ idx' = [idx EXCEPT ![t] = idx[t] + 1])
      BY <1>11 DEF PutStep
    <3> QED
      BY <3>1, <3>2 DEF TypeInv, TypeOK
  <2>2. Head(chain[t]) \in Keys
    BY <1>11, TailType DEF PutStep, TypeInv, TypeOK, ChainInv
  <2>3. fgn_cache' \in [Slots -> Entry]
    <3>1. \/ fgn_cache' = fgn_cache
          \/ fgn_cache' = [fgn_cache EXCEPT ![idx[t]] =
                              [key |-> Head(chain[t]), handle |-> @.handle]]
      BY <1>11 DEF PutStep, TypeInv, TypeOK, Entry
    <3>2. idx[t] \in Slots /\ fgn_cache[idx[t]] \in Entry
      BY DEF TypeInv, TypeOK
    <3>3. [key |-> Head(chain[t]), handle |-> fgn_cache[idx[t]].handle] \in Entry
      BY <2>2, <3>2 DEF Entry
    <3> QED
      BY <3>1, <3>2, <3>3 DEF TypeInv, TypeOK
  <2>4. /\ pc[t] # "idle" /\ UNCHANGED chain
        /\ UNCHANGED pc \/ \E l \in Locations : Goto(t, l)
    BY <1>11 DEF PutStep
  <2>5. /\ pc' \in [Threads -> Locations]
        /\ chain' \in [Threads -> Seq(Keys)]
        /\ ChainInv'
    BY <2>4, StayChain
  <2> QED
    BY <1>11, <2>1, <2>3, <2>5 DEF PutStep, TypeInv, TypeOK
<1>12. ASSUME NEW t \in Threads, PutHandle(t) PROVE TypeInv'
  <2>1. fgn_cache' \in [Slots -> Entry]
    BY <1>12 DEF PutHandle, TypeInv, TypeOK, Entry
  <2> QED
    BY <1>12, <2>1, StayChain DEF PutHandle, TypeInv, TypeOK
<1>13. ASSUME NEW t \in Threads, PutUnlock(t) PROVE TypeInv'
  BY <1>13, ReturnType DEF PutUnlock, table, TypeInv, TypeOK
<1>14. CASE UNCHANGED vars
  BY <1>14 DEF vars, TypeInv, TypeOK, ChainInv
<1> QED
  BY <1>1, <1>2, <1>3, <1>4, <1>5, <1>6, <1>7, <1>8, <1>9, <1>10, <1>11,
     <1>12, <1>13, <1>14 DEF Next, Step

\* Type correctness, with the part of it the later proofs lean on: a thread
\* inside an open knows which path it is opening.
LEMMA TypeInvariant == Spec => []TypeInv
<1>1. Init => TypeInv
  <2> SUFFICES ASSUME Init PROVE TypeInv
    OBVIOUS
  <2>1. fgn_cache \in [Slots -> Entry]
    BY DEF Init, Entry
  <2>2. idx \in [Threads -> Slots]
    BY CacheMaxAssumption DEF Init, Slots
  <2>3. pc \in [Threads -> Locations]
    BY LocationsElements DEF Init
  <2>4. chain \in [Threads -> Seq(Keys)]
    BY DEF Init
  <2> QED
    BY <2>1, <2>2, <2>3, <2>4 DEF Init, TypeInv, TypeOK, ChainInv
<1> QED
  BY <1>1, TypeStep, PTL DEF Spec

\* TypeOK, for any threads, paths, handles and size of the table.
THEOREM TypeCorrect == Spec => []TypeOK
<1>1. TypeInv => TypeOK
  BY DEF TypeInv
<1> QED
  BY <1>1, TypeInvariant, PTL

------------------------------------------------------------------------------
\* Only LockCache lets a thread in, and only when the word is 0; only the three
\* unlocks let one out and clear it.
LEMMA LockInvariant == Spec => []LockInv
<1>1. Init => LockInv
  BY DEF Init, LockInv, MutualExclusion, Holding
<1>2. TypeInv /\ LockInv /\ [Next]_vars => LockInv'
  <2> SUFFICES ASSUME TypeInv, LockInv, [Next]_vars PROVE LockInv'
    OBVIOUS
  <2> USE DEF TypeInv, TypeOK, LockInv, MutualExclusion, Holding, Goto
  <2>1. ASSUME NEW t \in Threads, NEW k \in Keys, Attempt(t, k) PROVE LockInv'
    BY <2>1 DEF Attempt
  <2>2. ASSUME NEW t \in Threads, LockCache(t) PROVE LockInv'
    BY <2>2 DEF LockCache
  <2>3. ASSUME NEW t \in Threads, ScanTest(t) PROVE LockInv'
    BY <2>3 DEF ScanTest
  <2>4. ASSUME NEW t \in Threads, ScanCollect(t) PROVE LockInv'
    BY <2>4 DEF ScanCollect
  <2>5. ASSUME NEW t \in Threads, ScanUnlock(t) PROVE LockInv'
    BY <2>5 DEF ScanUnlock
  <2>6. ASSUME NEW t \in Threads, GetStep(t) PROVE LockInv'
    BY <2>6 DEF GetStep
  <2>7. ASSUME NEW t \in Threads, GetUnlock(t) PROVE LockInv'
    <3>1. pc[t] \in Holding /\ pc'[t] \notin Holding
      BY <2>7 DEF GetUnlock, Return
    <3>2. \A u \in Threads \ {t} : pc'[u] = pc[u]
      BY <2>7 DEF GetUnlock, Return
    <3> QED BY <3>1, <3>2
  <2>8. ASSUME NEW t \in Threads, NEW k \in Keys, LoadDependency(t, k) PROVE LockInv'
    BY <2>8 DEF LoadDependency
  <2>9. ASSUME NEW t \in Threads, NEW h \in Handles \cup {NoHandle}, LoadUncached(t, h)
        PROVE  LockInv'
    BY <2>9 DEF LoadUncached, Return
  <2>10. ASSUME NEW t \in Threads, NEW h \in Handles, LoadDone(t, h) PROVE LockInv'
    BY <2>10 DEF LoadDone
  <2>11. ASSUME NEW t \in Threads, PutStep(t) PROVE LockInv'
    BY <2>11 DEF PutStep
  <2>12. ASSUME NEW t \in Threads, PutHandle(t) PROVE LockInv'
    BY <2>12 DEF PutHandle
  <2>13. ASSUME NEW t \in Threads, PutUnlock(t) PROVE LockInv'
    BY <2>13 DEF PutUnlock, Return
  <2>14. CASE UNCHANGED vars
    BY <2>14 DEF vars
  <2> QED
    BY <2>1, <2>2, <2>3, <2>4, <2>5, <2>6, <2>7, <2>8, <2>9, <2>10, <2>11,
       <2>12, <2>13, <2>14 DEF Next, Step
<1> QED
  BY <1>1, <1>2, TypeInvariant, PTL DEF Spec

\* Never two threads between fgn_lock_cache and fgn_unlock_cache.
THEOREM LockExcludes == Spec => []MutualExclusion
<1>1. LockInv => MutualExclusion
  BY DEF LockInv
<1> QED
  BY <1>1, LockInvariant, PTL

------------------------------------------------------------------------------
\* The thread that raised the flag is inside the lock until the versions are
\* there, so nobody reads "scanned" early and nobody scans twice.
LEMMA ScanInvariant == Spec => []ScanInv
<1>1. Init => ScanInv
  BY DEF Init, ScanInv, PastScan
<1>2. TypeInv /\ LockInv /\ ScanInv /\ [Next]_vars => ScanInv'
  <2> SUFFICES ASSUME TypeInv, LockInv, ScanInv, [Next]_vars PROVE ScanInv'
    OBVIOUS
  <2> USE DEF TypeInv, TypeOK, LockInv, MutualExclusion, Holding, ScanInv, PastScan, Goto
  <2>1. ASSUME NEW t \in Threads, NEW k \in Keys, Attempt(t, k) PROVE ScanInv'
    BY <2>1 DEF Attempt, table
  <2>2. ASSUME NEW t \in Threads, LockCache(t) PROVE ScanInv'
    BY <2>2 DEF LockCache, table
  <2>3. ASSUME NEW t \in Threads, ScanTest(t) PROVE ScanInv'
    BY <2>3 DEF ScanTest
  <2>4. ASSUME NEW t \in Threads, ScanCollect(t) PROVE ScanInv'
    BY <2>4 DEF ScanCollect
  <2>5. ASSUME NEW t \in Threads, ScanUnlock(t) PROVE ScanInv'
    BY <2>5 DEF ScanUnlock, table
  <2>6. ASSUME NEW t \in Threads, GetStep(t) PROVE ScanInv'
    BY <2>6 DEF GetStep, table
  <2>7. ASSUME NEW t \in Threads, GetUnlock(t) PROVE ScanInv'
    BY <2>7 DEF GetUnlock, Return, table
  <2>8. ASSUME NEW t \in Threads, NEW k \in Keys, LoadDependency(t, k)
        PROVE  ScanInv'
    BY <2>8 DEF LoadDependency, table
  <2>9. ASSUME NEW t \in Threads, NEW h \in Handles \cup {NoHandle}, LoadUncached(t, h)
        PROVE  ScanInv'
    BY <2>9 DEF LoadUncached, Return, table
  <2>10. ASSUME NEW t \in Threads, NEW h \in Handles, LoadDone(t, h) PROVE ScanInv'
    BY <2>10 DEF LoadDone, table
  <2>11. ASSUME NEW t \in Threads, PutStep(t) PROVE ScanInv'
    BY <2>11 DEF PutStep
  <2>12. ASSUME NEW t \in Threads, PutHandle(t) PROVE ScanInv'
    BY <2>12 DEF PutHandle
  <2>13. ASSUME NEW t \in Threads, PutUnlock(t) PROVE ScanInv'
    BY <2>13 DEF PutUnlock, Return, table
  <2>14. CASE UNCHANGED vars
    BY <2>14 DEF vars
  <2> QED
    BY <2>1, <2>2, <2>3, <2>4, <2>5, <2>6, <2>7, <2>8, <2>9, <2>10, <2>11,
       <2>12, <2>13, <2>14 DEF Next, Step
<1> QED
  BY <1>1, <1>2, TypeInvariant, LockInvariant, PTL DEF Spec

\* The versions of our libc are collected at most once.
THEOREM ScanHappensOnce == Spec => []ScannedOnce
<1>1. ScanInv => ScannedOnce
  BY DEF ScanInv, ScannedOnce
<1> QED
  BY <1>1, ScanInvariant, PTL

\* Whoever is past fgn_scan_providers sees the completed scan.
THEOREM ScanBeforeLoad == Spec => []VersionsBeforeLoad
<1>1. ScanInv => VersionsBeforeLoad
  BY DEF ScanInv, VersionsBeforeLoad, PastScan
<1> QED
  BY <1>1, ScanInvariant, PTL

------------------------------------------------------------------------------
\* A step of a thread that neither is, nor becomes, a thread with a handle to
\* record leaves what TableInv says alone.
LEMMA TableFrame ==
  ASSUME TypeInv, TableInv, NEW t \in Threads, UNCHANGED fgn_cache,
         pc[t] # "put_handle",
         pc'[t] \notin {"wait_put", "put", "put_handle"},
         \A u \in Threads \ {t} :
           /\ pc'[u] = pc[u] /\ idx'[u] = idx[u]
           /\ handle'[u] = handle[u] /\ chain'[u] = chain[u]
  PROVE  TableInv'
<1> USE DEF TableInv, Packed, TypeInv, TypeOK
<1>1. \A u \in Threads : pc'[u] \in {"put", "put_handle"} =>
        u # t /\ \A j \in 1 .. idx'[u] - 1 : fgn_cache'[j].key # NoKey
  OBVIOUS
<1>2. \A u \in Threads : pc'[u] = "put_handle" =>
        fgn_cache'[idx'[u]] = [key |-> Head(chain'[u]), handle |-> NoHandle]
  <2> SUFFICES ASSUME NEW u \in Threads, pc'[u] = "put_handle"
               PROVE  fgn_cache'[idx'[u]] = [key |-> Head(chain'[u]), handle |-> NoHandle]
    OBVIOUS
  <2>1. pc[u] = "put_handle" /\ idx'[u] = idx[u] /\ chain'[u] = chain[u]
    OBVIOUS
  <2> QED
    BY <2>1
<1>3. \A u \in Threads : pc'[u] \in {"wait_put", "put", "put_handle"} =>
        handle'[u] # NoHandle
  OBVIOUS
<1>4. \A i \in Slots : fgn_cache'[i].key # NoKey /\ fgn_cache'[i].handle = NoHandle =>
        \E u \in Threads : pc'[u] = "put_handle" /\ idx'[u] = i
  <2> SUFFICES ASSUME NEW i \in Slots, fgn_cache[i].key # NoKey,
                      fgn_cache[i].handle = NoHandle
               PROVE  \E u \in Threads : pc'[u] = "put_handle" /\ idx'[u] = i
    OBVIOUS
  <2>1. PICK u \in Threads : pc[u] = "put_handle" /\ idx[u] = i
    OBVIOUS
  <2> QED
    BY <2>1
<1> QED
  BY <1>1, <1>2, <1>3, <1>4

\* Only the holder of the lock writes the table, from the front.
LEMMA TableInvariant == Spec => []TableInv
<1>1. Init => TableInv
  BY DEF Init, TableInv, Packed, Slots
<1>2. TypeInv /\ LockInv /\ TableInv /\ [Next]_vars => TableInv'
  <2> SUFFICES ASSUME TypeInv, LockInv, TableInv, [Next]_vars PROVE TableInv'
    OBVIOUS
  <2> USE DEF TypeInv, TypeOK, LockInv, MutualExclusion, Holding, TableInv, Packed, Goto
  <2>1. ASSUME NEW t \in Threads, NEW k \in Keys, Attempt(t, k) PROVE TableInv'
    BY <2>1 DEF Attempt, table
  <2>2. ASSUME NEW t \in Threads, LockCache(t) PROVE TableInv'
    BY <2>2 DEF LockCache, table
  <2>3. ASSUME NEW t \in Threads, ScanTest(t) PROVE TableInv'
    BY <2>3 DEF ScanTest
  <2>4. ASSUME NEW t \in Threads, ScanCollect(t) PROVE TableInv'
    BY <2>4 DEF ScanCollect
  <2>5. ASSUME NEW t \in Threads, ScanUnlock(t) PROVE TableInv'
    BY <2>5 DEF ScanUnlock, table
  <2>6. ASSUME NEW t \in Threads, GetStep(t) PROVE TableInv'
    <3>1. /\ UNCHANGED <<fgn_cache, chain>> /\ pc[t] = "get"
          /\ pc'[t] \in {"get", "unlock_get"}
      BY <2>6 DEF GetStep, table
    <3>2. \A u \in Threads \ {t} :
            pc'[u] = pc[u] /\ idx'[u] = idx[u] /\ handle'[u] = handle[u]
      BY <2>6 DEF GetStep
    <3> QED
      BY <3>1, <3>2, TableFrame
  <2>7. ASSUME NEW t \in Threads, GetUnlock(t) PROVE TableInv'
    <3>1. /\ UNCHANGED <<fgn_cache, idx, handle>> /\ pc[t] = "unlock_get"
          /\ pc'[t] \in {"idle", "load"}
      BY <2>7 DEF GetUnlock, Return, table
    <3>2. \A u \in Threads \ {t} : pc'[u] = pc[u] /\ chain'[u] = chain[u]
      BY <2>7 DEF GetUnlock, Return
    <3> QED
      BY <3>1, <3>2, TableFrame
  <2>8. ASSUME NEW t \in Threads, NEW k \in Keys, LoadDependency(t, k)
        PROVE  TableInv'
    BY <2>8 DEF LoadDependency, table
  <2>9. ASSUME NEW t \in Threads, NEW h \in Handles \cup {NoHandle}, LoadUncached(t, h)
        PROVE  TableInv'
    BY <2>9 DEF LoadUncached, Return, table
  <2>10. ASSUME NEW t \in Threads, NEW h \in Handles, LoadDone(t, h)
        PROVE  TableInv'
    <3>1. /\ UNCHANGED <<fgn_cache, chain, idx>>
          /\ pc' = [pc EXCEPT ![t] = "wait_put"]
          /\ handle' = [handle EXCEPT ![t] = h]
          /\ pc[t] = "load" /\ h # NoHandle
      BY <2>10, NoHandleAssumption DEF LoadDone, table
    <3>2. \A u \in Threads : pc'[u] \in {"put", "put_handle"} => u # t
      BY <3>1
    <3>3. \A u \in Threads : pc'[u] \in {"wait_put", "put", "put_handle"} =>
            handle'[u] # NoHandle
      BY <3>1
    <3>4. \A u \in Threads : pc[u] = "put_handle" => pc'[u] = "put_handle"
      BY <3>1
    <3>5. \A u \in Threads : pc'[u] \in {"put", "put_handle"} => pc'[u] = pc[u]
      BY <3>1
    <3> QED
      BY <3>1, <3>3, <3>4, <3>5
  <2>11. ASSUME NEW t \in Threads, PutStep(t) PROVE TableInv'
    <3> DEFINE i == idx[t]
    <3>1. /\ i \in Slots /\ pc[t] = "put" /\ UNCHANGED <<chain, handle>>
          /\ \A u \in Threads \ {t} : pc[u] \notin Holding
          /\ fgn_cache[i] \in Entry
      BY <2>11 DEF PutStep
    <3>2. CASE fgn_cache[i].key = NoKey
      <4>1. /\ fgn_cache' = [fgn_cache EXCEPT ![i] =
                               [key |-> Head(chain[t]), handle |-> NoHandle]]
            /\ UNCHANGED idx
            /\ pc' = [pc EXCEPT ![t] = "put_handle"]
        <5>1. /\ fgn_cache' = [fgn_cache EXCEPT ![i].key = Head(chain[t])]
              /\ UNCHANGED idx
              /\ pc' = [pc EXCEPT ![t] = "put_handle"]
          BY <2>11, <3>2 DEF PutStep, Goto
        <5>2. fgn_cache[i].handle = NoHandle
          BY <3>1, <3>2
        <5>3. [fgn_cache[i] EXCEPT !.key = Head(chain[t])] =
                [key |-> Head(chain[t]), handle |-> NoHandle]
          BY ONLY <3>1, <5>2 DEF Entry
        <5> HIDE DEF i
        <5> QED BY ONLY <5>1, <5>3
      <4>2. Head(chain[t]) # NoKey
        BY <3>1, TailType, NoKeyAssumption DEF ChainInv
      <4>3. \A j \in Slots \ {i} : fgn_cache'[j] = fgn_cache[j]
        BY <4>1
      <4>4. fgn_cache'[i] = [key |-> Head(chain[t]), handle |-> NoHandle]
        BY <3>1, <4>1
      <4>5. Packed'
        <5> SUFFICES ASSUME NEW j \in Slots, fgn_cache'[j].key # NoKey,
                            NEW m \in 1 .. j - 1
                     PROVE  fgn_cache'[m].key # NoKey
          OBVIOUS
        <5>1. m \in Slots
          BY CacheMaxAssumption DEF Slots
        <5>2. CASE j = i
          BY <3>1, <4>3, <5>1, <5>2
        <5>3. CASE j # i
          <6>1. fgn_cache[m].key # NoKey
            BY <4>3, <5>3
          <6> QED
            BY <3>2, <4>3, <5>1, <6>1
        <5> QED
          BY <5>2, <5>3
      <4>6. \A j \in Slots : fgn_cache'[j].key = NoKey => fgn_cache'[j].handle = NoHandle
        <5>1. fgn_cache'[i].key # NoKey
          BY <4>2, <4>4
        <5>2. \A j \in Slots \ {i} : fgn_cache[j].key = NoKey => fgn_cache[j].handle = NoHandle
          OBVIOUS
        <5> QED
          BY <4>3, <5>1, <5>2
      <4>7. \A u \in Threads : pc'[u] \in {"put", "put_handle"} => u = t
        BY <3>1, <4>1
      <4>8. \A j \in 1 .. i - 1 : fgn_cache'[j].key # NoKey
        BY <3>1, <4>3, CacheMaxAssumption DEF Slots
      <4>9. \A u \in Threads : pc'[u] \in {"wait_put", "put", "put_handle"} =>
              handle'[u] # NoHandle
        BY <3>1, <4>1
      <4>10. \A j \in Slots : fgn_cache'[j].key # NoKey /\ fgn_cache'[j].handle = NoHandle =>
               pc'[t] = "put_handle" /\ idx'[t] = j
        BY <3>1, <4>1, <4>3
      <4> QED
        BY <3>1, <4>1, <4>4, <4>5, <4>6, <4>7, <4>8, <4>9, <4>10
    <3>3. CASE fgn_cache[i].key # NoKey
      <4>1. UNCHANGED <<fgn_cache, chain, handle>>
        BY <2>11, <3>1, <3>3 DEF PutStep
      <4>2. \/ i = CacheMax /\ pc' = [pc EXCEPT ![t] = "unlock_put"] /\ idx' = idx
            \/ i # CacheMax /\ pc' = pc /\ idx' = [idx EXCEPT ![t] = i + 1]
        BY <2>11, <3>3 DEF PutStep
      <4>3. \A j \in Slots : ~(fgn_cache[j].key # NoKey /\ fgn_cache[j].handle = NoHandle)
        BY <3>1
      <4>4. \A u \in Threads : pc'[u] \in {"put", "put_handle"} =>
              u = t /\ pc'[u] = "put" /\ idx'[u] = i + 1
        BY <3>1, <4>2
      <4>5. \A j \in 1 .. i : fgn_cache[j].key # NoKey
        BY <3>1, <3>3 DEF Slots
      <4>6. \A u \in Threads : pc'[u] \in {"wait_put", "put", "put_handle"} =>
              handle'[u] # NoHandle
        BY <3>1, <4>1, <4>2
      <4> QED
        BY <3>1, <4>1, <4>3, <4>4, <4>5, <4>6 DEF Slots
    <3> QED
      BY <3>2, <3>3
  <2>12. ASSUME NEW t \in Threads, PutHandle(t) PROVE TableInv'
    <3> DEFINE i == idx[t]
    <3>1. /\ i \in Slots /\ pc[t] = "put_handle" /\ UNCHANGED <<chain, handle, idx>>
          /\ \A u \in Threads \ {t} : pc[u] \notin Holding
          /\ pc' = [pc EXCEPT ![t] = "unlock_put"]
      BY <2>12 DEF PutHandle
    <3>2. /\ fgn_cache[i] = [key |-> Head(chain[t]), handle |-> NoHandle]
          /\ fgn_cache'[i] = [key |-> Head(chain[t]), handle |-> handle[t]]
      <4>1. fgn_cache[i] = [key |-> Head(chain[t]), handle |-> NoHandle]
        BY <3>1
      <4>2. fgn_cache' = [fgn_cache EXCEPT ![i] = [@ EXCEPT !.handle = handle[t]]]
        BY <2>12 DEF PutHandle
      <4> QED
        BY <3>1, <4>1, <4>2
    <3>3. Head(chain[t]) # NoKey /\ handle[t] # NoHandle
      BY <3>1, TailType, NoKeyAssumption DEF ChainInv
    <3>5. \A j \in Slots \ {i} : fgn_cache'[j] = fgn_cache[j]
      BY <2>12 DEF PutHandle
    <3>4. \A j \in Slots : fgn_cache'[j].key = fgn_cache[j].key
      <4>1. fgn_cache'[i].key = fgn_cache[i].key
        BY <3>2
      <4> QED
        BY <3>5, <4>1
    <3>6. fgn_cache'[i].handle # NoHandle
      BY <3>1, <3>2, <3>3
    <3>7. Packed'
      <4> SUFFICES ASSUME NEW j \in Slots, fgn_cache'[j].key # NoKey,
                          NEW m \in 1 .. j - 1
                   PROVE  fgn_cache'[m].key # NoKey
        OBVIOUS
      <4>1. m \in Slots
        BY CacheMaxAssumption DEF Slots
      <4> QED
        BY <3>4, <4>1
    <3>8. \A j \in Slots : fgn_cache'[j].key = NoKey => fgn_cache'[j].handle = NoHandle
      <4>1. fgn_cache'[i].key # NoKey
        BY <3>2, <3>3
      <4>2. \A j \in Slots \ {i} : fgn_cache[j].key = NoKey => fgn_cache[j].handle = NoHandle
        OBVIOUS
      <4> QED
        BY <3>5, <4>1, <4>2
    <3>9. \A u \in Threads : pc'[u] \notin {"put", "put_handle"}
      BY <3>1
    <3>10. \A u \in Threads : pc'[u] = "wait_put" => handle'[u] # NoHandle
      BY <3>1
    <3>11. \A j \in Slots : ~(fgn_cache'[j].key # NoKey /\ fgn_cache'[j].handle = NoHandle)
      <4>1. \A j \in Slots \ {i} : fgn_cache[j].key # NoKey => fgn_cache[j].handle # NoHandle
        BY <3>1
      <4> QED
        BY <3>5, <3>6, <4>1
    <3> QED
      BY <3>7, <3>8, <3>9, <3>10, <3>11
  <2>13. ASSUME NEW t \in Threads, PutUnlock(t) PROVE TableInv'
    <3>1. /\ UNCHANGED <<fgn_cache, idx, handle>> /\ pc[t] = "unlock_put"
          /\ pc'[t] \in {"idle", "load"}
      BY <2>13 DEF PutUnlock, Return, table
    <3>2. \A u \in Threads \ {t} : pc'[u] = pc[u] /\ chain'[u] = chain[u]
      BY <2>13 DEF PutUnlock, Return
    <3> QED
      BY <3>1, <3>2, TableFrame
  <2>14. CASE UNCHANGED vars
    BY <2>14 DEF vars
  <2> QED
    BY <2>1, <2>2, <2>3, <2>4, <2>5, <2>6, <2>7, <2>8, <2>9, <2>10, <2>11,
       <2>12, <2>13, <2>14 DEF Next, Step
<1> QED
  BY <1>1, <1>2, TypeInvariant, LockInvariant, PTL DEF Spec

------------------------------------------------------------------------------
\* A new entry goes behind every entry there is, so it cannot come between a
\* path and the entry that answers for it.
LEMMA AnswerStep ==
  ASSUME TypeInv, LockInv, TableInv, [Next]_vars,
         NEW k \in Keys, NEW h \in Handles, Answer(k, h)
  PROVE  Answer(k, h)'
<1>1. PICK s \in Slots : /\ fgn_cache[s] = [key |-> k, handle |-> h]
                         /\ \A j \in 1 .. s - 1 : fgn_cache[j].key # k
  BY DEF Answer
<1>2. CASE UNCHANGED fgn_cache
  BY <1>1, <1>2 DEF Answer
<1>3. ASSUME NEW t \in Threads, PutStep(t), fgn_cache' # fgn_cache
      PROVE  Answer(k, h)'
  <2>1. /\ idx[t] \in Slots /\ fgn_cache[idx[t]].key = NoKey
        /\ \A j \in Slots \ {idx[t]} : fgn_cache'[j] = fgn_cache[j]
    BY <1>3 DEF PutStep, TypeInv, TypeOK
  <2>2. s # idx[t] /\ ~(idx[t] \in 1 .. s - 1)
    BY <1>1, <2>1, NoKeyAssumption DEF TableInv, Packed
  <2>3. \A j \in 1 .. s - 1 : j \in Slots \ {idx[t]}
    BY <2>1, <2>2, CacheMaxAssumption DEF Slots
  <2> QED
    BY <1>1, <2>1, <2>2, <2>3 DEF Answer
<1>4. ASSUME NEW t \in Threads, PutHandle(t) PROVE Answer(k, h)'
  <2>1. /\ idx[t] \in Slots
        /\ fgn_cache[idx[t]] = [key |-> Head(chain[t]), handle |-> NoHandle]
        /\ \A j \in Slots \ {idx[t]} : fgn_cache'[j] = fgn_cache[j]
        /\ fgn_cache' = [fgn_cache EXCEPT ![idx[t]] = [@ EXCEPT !.handle = handle[t]]]
    BY <1>4 DEF PutHandle, TypeInv, TypeOK, TableInv
  <2>2. fgn_cache'[idx[t]].key = fgn_cache[idx[t]].key
    BY <2>1 DEF TypeInv, TypeOK
  <2>3. s # idx[t]
    BY <1>1, <2>1, NoHandleAssumption
  <2>4. \A j \in 1 .. s - 1 : j \in Slots /\ fgn_cache'[j].key = fgn_cache[j].key
    BY <2>1, <2>2, CacheMaxAssumption DEF Slots
  <2> QED
    BY <1>1, <2>1, <2>3, <2>4 DEF Answer
<1>5. \/ UNCHANGED fgn_cache
      \/ \E t \in Threads : PutStep(t) \/ PutHandle(t)
  BY DEF Next, Step, vars, table, Attempt, LockCache, ScanTest, ScanCollect, ScanUnlock,
         GetStep, GetUnlock, LoadDependency, LoadUncached, LoadDone, PutUnlock
<1> QED
  BY <1>2, <1>3, <1>4, <1>5

\* The handle that answers for a path answers for it ever after.
THEOREM AnswersAreStable == Spec => AnswersNeverChange
<1>1. TypeInv /\ LockInv /\ TableInv /\ [Next]_vars
      => [\A k \in Keys, h \in Handles : Answer(k, h) => Answer(k, h)']_vars
  BY AnswerStep
<1> QED
  BY <1>1, TypeInvariant, LockInvariant, TableInvariant, PTL
     DEF Spec, AnswersNeverChange

------------------------------------------------------------------------------
\* A thread outside fgn_cache_get, or just entering it, owes LookupInv nothing.
LEMMA LookupFrame ==
  ASSUME TypeInv, LookupInv, NEW t \in Threads, UNCHANGED fgn_cache,
         pc'[t] \notin {"get", "unlock_get"},
         \A u \in Threads \ {t} :
           /\ pc'[u] = pc[u] /\ idx'[u] = idx[u]
           /\ handle'[u] = handle[u] /\ chain'[u] = chain[u]
  PROVE  LookupInv'
<1>1. \A u \in Threads : pc'[u] \in {"get", "unlock_get"} =>
        /\ pc'[u] = pc[u] /\ idx'[u] = idx[u]
        /\ handle'[u] = handle[u] /\ chain'[u] = chain[u]
  OBVIOUS
<1> QED
  BY <1>1 DEF LookupInv, Answer

\* A writer of the table is alone with it.
LEMMA LookupWriter ==
  ASSUME TypeInv, LockInv, NEW t \in Threads, pc[t] \in {"put", "put_handle"},
         pc'[t] \notin {"get", "unlock_get"},
         \A u \in Threads \ {t} : pc'[u] = pc[u]
  PROVE  LookupInv'
<1>1. \A u \in Threads : pc'[u] \notin {"get", "unlock_get"}
  BY DEF LockInv, MutualExclusion, Holding
<1> QED
  BY <1>1 DEF LookupInv

\* A lookup in progress has passed no entry of its path, and one that is over has
\* the answer: each step keeps that.
LEMMA LookupStep ==
  TypeInv /\ LockInv /\ TableInv /\ LookupInv /\ [Next]_vars => LookupInv'
<1> SUFFICES ASSUME TypeInv, LockInv, TableInv, LookupInv, [Next]_vars
             PROVE  LookupInv'
  OBVIOUS
<1>1. ASSUME NEW t \in Threads, NEW k \in Keys, Attempt(t, k) PROVE LookupInv'
  <2>1. /\ UNCHANGED fgn_cache /\ pc'[t] \notin {"get", "unlock_get"}
        /\ \A u \in Threads \ {t} :
             /\ pc'[u] = pc[u] /\ idx'[u] = idx[u]
             /\ handle'[u] = handle[u] /\ chain'[u] = chain[u]
    BY <1>1 DEF Attempt, table, Goto, TypeInv, TypeOK
  <2> QED
    BY <2>1, LookupFrame
<1>2. ASSUME NEW t \in Threads, LockCache(t) PROVE LookupInv'
  <2>1. /\ UNCHANGED <<fgn_cache, chain, handle>> /\ pc'[t] # "unlock_get"
        /\ \A u \in Threads \ {t} : pc'[u] = pc[u] /\ idx'[u] = idx[u]
        /\ idx'[t] = 1
    BY <1>2 DEF LockCache, table, Goto, TypeInv, TypeOK
  <2>2. \A u \in Threads : pc'[u] = "get" =>
          \A j \in 1 .. idx'[u] - 1 : fgn_cache'[j].key # Head(chain'[u])
    <3> SUFFICES ASSUME NEW u \in Threads, pc'[u] = "get", NEW j \in 1 .. idx'[u] - 1
                 PROVE  fgn_cache'[j].key # Head(chain'[u])
      OBVIOUS
    <3> QED
      BY <2>1 DEF LookupInv
  <2>3. \A u \in Threads : pc'[u] = "unlock_get" => pc[u] = "unlock_get"
    BY <2>1
  <2> QED
    BY <2>1, <2>2, <2>3 DEF LookupInv, Answer
<1>3. ASSUME NEW t \in Threads, ScanTest(t) PROVE LookupInv'
  <2>1. /\ UNCHANGED fgn_cache /\ pc'[t] \notin {"get", "unlock_get"}
        /\ \A u \in Threads \ {t} :
             /\ pc'[u] = pc[u] /\ idx'[u] = idx[u]
             /\ handle'[u] = handle[u] /\ chain'[u] = chain[u]
    BY <1>3 DEF ScanTest, Goto, TypeInv, TypeOK
  <2> QED
    BY <2>1, LookupFrame
<1>4. ASSUME NEW t \in Threads, ScanCollect(t) PROVE LookupInv'
  <2>1. /\ UNCHANGED fgn_cache /\ pc'[t] \notin {"get", "unlock_get"}
        /\ \A u \in Threads \ {t} :
             /\ pc'[u] = pc[u] /\ idx'[u] = idx[u]
             /\ handle'[u] = handle[u] /\ chain'[u] = chain[u]
    BY <1>4 DEF ScanCollect, Goto, TypeInv, TypeOK
  <2> QED
    BY <2>1, LookupFrame
<1>5. ASSUME NEW t \in Threads, ScanUnlock(t) PROVE LookupInv'
  <2>1. /\ UNCHANGED fgn_cache /\ pc'[t] \notin {"get", "unlock_get"}
        /\ \A u \in Threads \ {t} :
             /\ pc'[u] = pc[u] /\ idx'[u] = idx[u]
             /\ handle'[u] = handle[u] /\ chain'[u] = chain[u]
    BY <1>5 DEF ScanUnlock, table, Goto, TypeInv, TypeOK
  <2> QED
    BY <2>1, LookupFrame
<1>6. ASSUME NEW t \in Threads, GetStep(t) PROVE LookupInv'
  <2> DEFINE i == idx[t]
             k == Head(chain[t])
  <2>1. /\ i \in Slots /\ pc[t] = "get" /\ k \in Keys
        /\ fgn_cache[i] \in Entry /\ CacheMax \in Nat
        /\ UNCHANGED <<fgn_cache, chain>>
        /\ \A u \in Threads \ {t} : pc[u] \notin Holding
    BY <1>6, TailType, CacheMaxAssumption
       DEF GetStep, table, TypeInv, TypeOK, ChainInv, LockInv, MutualExclusion, Holding
  <2>2. \A u \in Threads \ {t} : pc'[u] = pc[u]
    BY <1>6 DEF GetStep, Goto, TypeInv, TypeOK
  <2>3. \A j \in 1 .. i - 1 : fgn_cache[j].key # k
    BY <2>1 DEF LookupInv
  <2>4. CASE fgn_cache[i].key = k
    <3>1. pc'[t] = "unlock_get" /\ handle'[t] = fgn_cache[i].handle
      BY <1>6, <2>4 DEF GetStep, Goto, TypeInv, TypeOK
    <3>2. fgn_cache[i].handle # NoHandle
      BY <2>1, <2>4, NoKeyAssumption DEF TableInv, Holding
    <3>3. fgn_cache[i] = [key |-> k, handle |-> fgn_cache[i].handle]
      BY <2>1, <2>4 DEF Entry
    <3>4. Answer(k, fgn_cache[i].handle)
      BY <2>1, <2>3, <3>3 DEF Answer
    <3>5. Answer(Head(chain[t]), handle[t])'
      BY <2>1, <3>1, <3>4 DEF Answer
    <3> QED
      BY <2>1, <2>2, <3>1, <3>2, <3>5 DEF LookupInv, Holding
  <2>5. CASE fgn_cache[i].key # k /\ i = CacheMax
    <3>1. pc'[t] = "unlock_get" /\ handle'[t] = NoHandle
      BY <1>6, <2>5 DEF GetStep, Goto, TypeInv, TypeOK
    <3>2. \A j \in Slots : fgn_cache[j].key # k
      BY <2>1, <2>3, <2>5 DEF Slots
    <3> QED
      BY <2>1, <2>2, <3>1, <3>2 DEF LookupInv, Holding
  <2>6. CASE fgn_cache[i].key # k /\ i # CacheMax
    <3>1. pc'[t] = "get" /\ idx'[t] = i + 1
      BY <1>6, <2>6 DEF GetStep, Goto, TypeInv, TypeOK
    <3>2. \A j \in 1 .. i : fgn_cache[j].key # k
      BY <2>1, <2>3, <2>6 DEF Slots
    <3>3. \A j \in 1 .. idx'[t] - 1 : fgn_cache'[j].key # Head(chain'[t])
      BY <2>1, <3>1, <3>2 DEF Slots
    <3> QED
      BY <2>1, <2>2, <3>1, <3>3 DEF LookupInv, Holding
  <2> QED
    BY <2>4, <2>5, <2>6
<1>7. ASSUME NEW t \in Threads, GetUnlock(t) PROVE LookupInv'
  <2>1. /\ UNCHANGED fgn_cache /\ pc'[t] \notin {"get", "unlock_get"}
        /\ \A u \in Threads \ {t} :
             /\ pc'[u] = pc[u] /\ idx'[u] = idx[u]
             /\ handle'[u] = handle[u] /\ chain'[u] = chain[u]
    BY <1>7 DEF GetUnlock, Return, table, Goto, TypeInv, TypeOK
  <2> QED
    BY <2>1, LookupFrame
<1>8. ASSUME NEW t \in Threads, NEW k \in Keys, LoadDependency(t, k)
      PROVE  LookupInv'
  <2>1. /\ UNCHANGED fgn_cache /\ pc'[t] \notin {"get", "unlock_get"}
        /\ \A u \in Threads \ {t} :
             /\ pc'[u] = pc[u] /\ idx'[u] = idx[u]
             /\ handle'[u] = handle[u] /\ chain'[u] = chain[u]
    BY <1>8 DEF LoadDependency, table, Goto, TypeInv, TypeOK
  <2> QED
    BY <2>1, LookupFrame
<1>9. ASSUME NEW t \in Threads, NEW h \in Handles \cup {NoHandle}, LoadUncached(t, h)
      PROVE  LookupInv'
  <2>1. /\ UNCHANGED fgn_cache /\ pc'[t] \notin {"get", "unlock_get"}
        /\ \A u \in Threads \ {t} :
             /\ pc'[u] = pc[u] /\ idx'[u] = idx[u]
             /\ handle'[u] = handle[u] /\ chain'[u] = chain[u]
    BY <1>9 DEF LoadUncached, Return, table, Goto, TypeInv, TypeOK
  <2> QED
    BY <2>1, LookupFrame
<1>10. ASSUME NEW t \in Threads, NEW h \in Handles, LoadDone(t, h)
      PROVE  LookupInv'
  <2>1. /\ UNCHANGED fgn_cache /\ pc'[t] \notin {"get", "unlock_get"}
        /\ \A u \in Threads \ {t} :
             /\ pc'[u] = pc[u] /\ idx'[u] = idx[u]
             /\ handle'[u] = handle[u] /\ chain'[u] = chain[u]
    BY <1>10 DEF LoadDone, table, Goto, TypeInv, TypeOK
  <2> QED
    BY <2>1, LookupFrame
<1>11. ASSUME NEW t \in Threads, PutStep(t) PROVE LookupInv'
  BY <1>11, LookupWriter DEF PutStep, Goto, TypeInv, TypeOK
<1>12. ASSUME NEW t \in Threads, PutHandle(t) PROVE LookupInv'
  BY <1>12, LookupWriter DEF PutHandle, Goto, TypeInv, TypeOK
<1>13. ASSUME NEW t \in Threads, PutUnlock(t) PROVE LookupInv'
  <2>1. /\ UNCHANGED fgn_cache /\ pc'[t] \notin {"get", "unlock_get"}
        /\ \A u \in Threads \ {t} :
             /\ pc'[u] = pc[u] /\ idx'[u] = idx[u]
             /\ handle'[u] = handle[u] /\ chain'[u] = chain[u]
    BY <1>13 DEF PutUnlock, Return, table, Goto, TypeInv, TypeOK
  <2> QED
    BY <2>1, LookupFrame
<1>14. CASE UNCHANGED vars
  BY <1>14 DEF vars, LookupInv, Answer
<1> QED
  BY <1>1, <1>2, <1>3, <1>4, <1>5, <1>6, <1>7, <1>8, <1>9, <1>10, <1>11,
     <1>12, <1>13, <1>14 DEF Next, Step

\* A lookup that is over holds the answer for its path.
LEMMA LookupInvariant == Spec => []LookupInv
<1>1. Init => LookupInv
  BY DEF Init, LookupInv
<1> QED
  BY <1>1, LookupStep, TypeInvariant, LockInvariant, TableInvariant, PTL DEF Spec

\* Nobody finds an entry and comes back without its handle.
THEOREM LookupsAreWhole == Spec => []NoTornEntry
<1>1. LookupInv => NoTornEntry
  BY DEF LookupInv, NoTornEntry
<1> QED
  BY <1>1, LookupInvariant, PTL

------------------------------------------------------------------------------
(* The refinement: the locked table implements the atomic map of HandleMap.*)
(* Initial states map to initial states and every step maps to a step of   *)
(* the map or to none.                                                     *)

\* A path with a complete entry has an answer.  (That a non-empty set of slots
\* has a first one would need induction; the writer knows it instead.)
RecordedInv ==
  \A i \in Slots :
    fgn_cache[i].key # NoKey /\ fgn_cache[i].handle # NoHandle =>
      \E h \in Handles : Answer(fgn_cache[i].key, h)

\* Everything the refinement uses.
IInv == TypeInv /\ LockInv /\ TableInv /\ LookupInv /\ RecordedInv

\* A path has one answer.
LEMMA AnswerUnique ==
  ASSUME NEW k \in Keys, NEW h1 \in Handles, NEW h2 \in Handles,
         Answer(k, h1), Answer(k, h2)
  PROVE  h1 = h2
<1>1. PICK i1 \in Slots : /\ fgn_cache[i1] = [key |-> k, handle |-> h1]
                          /\ \A j \in 1 .. i1 - 1 : fgn_cache[j].key # k
  BY DEF Answer
<1>2. PICK i2 \in Slots : /\ fgn_cache[i2] = [key |-> k, handle |-> h2]
                          /\ \A j \in 1 .. i2 - 1 : fgn_cache[j].key # k
  BY DEF Answer
<1>3. fgn_cache[i1].key = k /\ fgn_cache[i2].key = k
  BY <1>1, <1>2
<1>4. i1 = i2
  BY <1>1, <1>2, <1>3, CacheMaxAssumption DEF Slots
<1>5. [key |-> k, handle |-> h1] = [key |-> k, handle |-> h2]
  BY <1>1, <1>2, <1>4
<1> QED
  BY <1>5

\* The same, of the table after a step.
LEMMA AnswerUniqueNext ==
  ASSUME NEW k \in Keys, NEW h1 \in Handles, NEW h2 \in Handles,
         Answer(k, h1)', Answer(k, h2)'
  PROVE  h1 = h2
<1>1. PICK i1 \in Slots : /\ fgn_cache'[i1] = [key |-> k, handle |-> h1]
                          /\ \A j \in 1 .. i1 - 1 : fgn_cache'[j].key # k
  BY DEF Answer
<1>2. PICK i2 \in Slots : /\ fgn_cache'[i2] = [key |-> k, handle |-> h2]
                          /\ \A j \in 1 .. i2 - 1 : fgn_cache'[j].key # k
  BY DEF Answer
<1>3. fgn_cache'[i1].key = k /\ fgn_cache'[i2].key = k
  BY <1>1, <1>2
<1>4. i1 = i2
  BY <1>1, <1>2, <1>3, CacheMaxAssumption DEF Slots
<1>5. [key |-> k, handle |-> h1] = [key |-> k, handle |-> h2]
  BY <1>1, <1>2, <1>4
<1> QED
  BY <1>5

\* The map holds the answer where there is one ...
LEMMA MapOfAnswer ==
  ASSUME NEW k \in Keys, NEW h \in Handles, Answer(k, h)
  PROVE  AbsMap[k] = h
<1>1. \A g \in Handles : Answer(k, g) => g = h
  BY AnswerUnique
<1> QED
  BY <1>1 DEF AbsMap

\* ... and nothing where there is none.
LEMMA MapOfNoAnswer ==
  ASSUME NEW k \in Keys, \A h \in Handles : ~Answer(k, h)
  PROVE  AbsMap[k] = NoHandle
  BY DEF AbsMap

\* The answers decide the map.
LEMMA MapStutters ==
  ASSUME \A k \in Keys, h \in Handles : Answer(k, h)' <=> Answer(k, h)
  PROVE  AbsMap' = AbsMap
<1>1. \A k \in Keys : (\E h \in Handles : Answer(k, h))' <=> \E h \in Handles : Answer(k, h)
  OBVIOUS
<1>2. \A k \in Keys : (CHOOSE h \in Handles : Answer(k, h))' = CHOOSE h \in Handles : Answer(k, h)
  OBVIOUS
<1> QED
  BY <1>1, <1>2 DEF AbsMap

\* A key that is written without its handle answers for nothing yet.
LEMMA PutStepAnswers ==
  ASSUME TypeInv, LockInv, TableInv, [Next]_vars, NEW t \in Threads, PutStep(t)
  PROVE  /\ \A k \in Keys, h \in Handles : Answer(k, h)' <=> Answer(k, h)
         /\ \A i \in Slots : fgn_cache'[i].handle = fgn_cache[i].handle
         /\ \A i \in Slots : fgn_cache'[i].handle # NoHandle =>
               fgn_cache'[i] = fgn_cache[i]
<1>1. CASE UNCHANGED fgn_cache
  BY <1>1 DEF Answer
<1>2. CASE fgn_cache' # fgn_cache
  <2> DEFINE i == idx[t]
  <2>1. /\ i \in Slots /\ fgn_cache[i].key = NoKey
        /\ \A j \in Slots \ {i} : fgn_cache'[j] = fgn_cache[j]
        /\ fgn_cache[i].handle = NoHandle /\ fgn_cache[i] \in Entry
        /\ fgn_cache' = [fgn_cache EXCEPT ![i] = [@ EXCEPT !.key = Head(chain[t])]]
    BY <1>2 DEF PutStep, TypeInv, TypeOK, TableInv
  <2>2. fgn_cache'[i].handle = NoHandle
    BY <2>1 DEF TypeInv, TypeOK, Entry
  <2>3. ASSUME NEW k \in Keys, NEW h \in Handles, Answer(k, h)' PROVE Answer(k, h)
    <3>1. PICK s \in Slots : /\ fgn_cache'[s] = [key |-> k, handle |-> h]
                             /\ \A j \in 1 .. s - 1 : fgn_cache'[j].key # k
      BY <2>3 DEF Answer
    <3>2. s # i
      BY <2>2, <3>1, NoHandleAssumption
    <3>3. \A j \in 1 .. s - 1 : fgn_cache[j].key # k
      BY <2>1, <3>1, NoKeyAssumption, CacheMaxAssumption DEF Slots
    <3> QED
      BY <2>1, <3>1, <3>2, <3>3 DEF Answer
  <2>4. ASSUME NEW k \in Keys, NEW h \in Handles, Answer(k, h) PROVE Answer(k, h)'
    BY <2>4, AnswerStep
  <2> QED
    BY <2>1, <2>2, <2>3, <2>4
<1> QED
  BY <1>1, <1>2

\* The entry a thread completes answers for its path unless an earlier one does.
LEMMA PutHandleAnswers ==
  ASSUME TypeInv, LockInv, TableInv, RecordedInv, [Next]_vars,
         NEW t \in Threads, PutHandle(t)
  PROVE  /\ Head(chain[t]) \in Keys /\ handle[t] \in Handles /\ idx[t] \in Slots
         /\ fgn_cache[idx[t]].handle = NoHandle
         /\ fgn_cache'[idx[t]].key = Head(chain[t])
         /\ \A j \in Slots \ {idx[t]} : fgn_cache'[j] = fgn_cache[j]
         /\ (\A h \in Handles : ~Answer(Head(chain[t]), h)) =>
               (Answer(Head(chain[t]), handle[t]))'
         /\ \A k \in Keys \ {Head(chain[t])}, h \in Handles :
               Answer(k, h)' <=> Answer(k, h)
<1> DEFINE i == idx[t]
           p == Head(chain[t])
<1>1. /\ i \in Slots /\ pc[t] = "put_handle" /\ UNCHANGED <<chain, handle>>
      /\ \A u \in Threads \ {t} : pc[u] \notin Holding
      /\ fgn_cache[i] = [key |-> p, handle |-> NoHandle]
      /\ handle[t] \in Handles
  BY DEF PutHandle, TypeInv, TypeOK, TableInv, LockInv, MutualExclusion, Holding
<1>2. p \in Keys
  BY <1>1, TailType DEF TypeInv, TypeOK, ChainInv
<1>3. /\ \A j \in Slots \ {i} : fgn_cache'[j] = fgn_cache[j]
      /\ fgn_cache'[i] = [key |-> p, handle |-> handle[t]]
  <2>1. fgn_cache' = [fgn_cache EXCEPT ![i] = [@ EXCEPT !.handle = handle[t]]]
    BY DEF PutHandle
  <2> QED
    BY <1>1, <2>1 DEF TypeInv, TypeOK
<1>4. ASSUME \A h \in Handles : ~Answer(p, h)
      PROVE  (Answer(p, handle[t]))'
  <2>1. \A j \in 1 .. i - 1 : j \in Slots \ {i} /\ fgn_cache[j].key # p
    <3> SUFFICES ASSUME NEW j \in 1 .. i - 1, fgn_cache[j].key = p
                 PROVE  FALSE
      BY <1>1, CacheMaxAssumption DEF Slots
    <3>1. j \in Slots /\ j # i
      BY <1>1, CacheMaxAssumption DEF Slots
    <3>2. fgn_cache[j].key # NoKey
      BY <1>2, NoKeyAssumption
    <3>3. fgn_cache[j].handle # NoHandle
      BY <1>1, <3>1, <3>2 DEF TableInv, Holding
    <3> QED
      BY <1>4, <3>1, <3>2, <3>3 DEF RecordedInv
  <2>2. \A j \in 1 .. i - 1 : fgn_cache'[j].key # p
    BY <1>3, <2>1
  <2> QED
    BY <1>1, <1>3, <2>2 DEF Answer
<1>5. ASSUME NEW k \in Keys \ {p}, NEW h \in Handles, Answer(k, h)'
      PROVE  Answer(k, h)
  <2>1. PICK s \in Slots : /\ fgn_cache'[s] = [key |-> k, handle |-> h]
                           /\ \A j \in 1 .. s - 1 : fgn_cache'[j].key # k
    BY <1>5 DEF Answer
  <2>2. s # i
    BY <1>3, <2>1
  <2>3. fgn_cache'[i].key = fgn_cache[i].key
    BY <1>1, <1>3
  <2>4. \A j \in 1 .. s - 1 : j \in Slots /\ fgn_cache'[j].key = fgn_cache[j].key
    BY <1>3, <2>3, CacheMaxAssumption DEF Slots
  <2> QED
    BY <1>3, <2>1, <2>2, <2>4 DEF Answer
<1>6. \A k \in Keys, h \in Handles : Answer(k, h) => Answer(k, h)'
  BY AnswerStep
<1>7. fgn_cache[i].handle = NoHandle /\ fgn_cache'[i].key = p
  BY <1>1, <1>3
<1>8. (\A h \in Handles : ~Answer(p, h)) => (Answer(p, handle[t]))'
  BY <1>4
<1> QED
  BY <1>1, <1>2, <1>3, <1>5, <1>6, <1>7, <1>8

\* Only PutStep and PutHandle write the table.
LEMMA TableSteps ==
  ASSUME [Next]_vars
  PROVE  \/ UNCHANGED fgn_cache
         \/ \E t \in Threads : PutStep(t) \/ PutHandle(t)
  BY DEF Next, Step, vars, table, Attempt, LockCache, ScanTest, ScanCollect, ScanUnlock,
         GetStep, GetUnlock, LoadDependency, LoadUncached, LoadDone, PutUnlock

\* Every complete entry's path has an answer, in every reachable state.
LEMMA RecordedInvariant == Spec => []RecordedInv
<1>1. Init => RecordedInv
  BY DEF Init, RecordedInv
<1>2. TypeInv /\ LockInv /\ TableInv /\ RecordedInv /\ [Next]_vars => RecordedInv'
  <2> SUFFICES ASSUME TypeInv, LockInv, TableInv, RecordedInv, [Next]_vars
               PROVE  RecordedInv'
    OBVIOUS
  <2>1. CASE UNCHANGED fgn_cache
    BY <2>1 DEF RecordedInv, Answer
  <2>2. ASSUME NEW t \in Threads, PutStep(t) PROVE RecordedInv'
    <3> SUFFICES ASSUME NEW i \in Slots, fgn_cache'[i].key # NoKey,
                        fgn_cache'[i].handle # NoHandle
                 PROVE  \E h \in Handles : (Answer(fgn_cache[i].key, h))'
      BY DEF RecordedInv
    <3>1. fgn_cache'[i] = fgn_cache[i] /\ fgn_cache[i].key \in Keys
      BY <2>2, PutStepAnswers DEF TypeInv, TypeOK, Entry
    <3>2. PICK h \in Handles : Answer(fgn_cache[i].key, h)
      BY <3>1 DEF RecordedInv
    <3>3. (Answer(fgn_cache[i].key, h))'
      BY <3>1, <3>2, AnswerStep DEF Answer
    <3> QED
      BY <3>3
  <2>3. ASSUME NEW t \in Threads, PutHandle(t) PROVE RecordedInv'
    <3> SUFFICES ASSUME NEW i \in Slots, fgn_cache'[i].key # NoKey,
                        fgn_cache'[i].handle # NoHandle
                 PROVE  \E h \in Handles : (Answer(fgn_cache[i].key, h))'
      BY DEF RecordedInv
    <3>1. CASE fgn_cache'[i] = fgn_cache[i]
      <4>1. fgn_cache[i].key \in Keys
        BY <3>1 DEF TypeInv, TypeOK, Entry
      <4>2. PICK h \in Handles : Answer(fgn_cache[i].key, h)
        BY <3>1 DEF RecordedInv
      <4>3. (Answer(fgn_cache[i].key, h))'
        BY <3>1, <4>1, <4>2, AnswerStep DEF Answer
      <4> QED
        BY <4>3
    <3>2. CASE i = idx[t]
      <4> DEFINE p == Head(chain[t])
      <4>1. p \in Keys /\ fgn_cache'[i].key = p /\ handle[t] \in Handles
        BY <2>3, <3>2, PutHandleAnswers
      <4>2. UNCHANGED <<chain, handle>>
        BY <2>3 DEF PutHandle
      <4>3. CASE \E h \in Handles : Answer(p, h)
        <5>1. PICK h \in Handles : Answer(p, h)
          BY <4>3
        <5>2. Answer(p, h)'
          BY <4>1, <5>1, <4>2, AnswerStep DEF Answer
        <5> QED
          BY <4>1, <4>2, <5>2 DEF Answer
      <4>4. CASE \A h \in Handles : ~Answer(p, h)
        <5>1. (Answer(Head(chain[t]), handle[t]))'
          BY <2>3, <4>4, PutHandleAnswers
        <5> QED
          BY <4>1, <4>2, <5>1 DEF Answer
      <4> QED
        BY <4>3, <4>4
    <3> QED
      BY <2>3, <3>1, <3>2, PutHandleAnswers
  <2> QED
    BY <2>1, <2>2, <2>3, TableSteps
<1> QED
  BY <1>1, <1>2, TypeInvariant, LockInvariant, TableInvariant, PTL DEF Spec

------------------------------------------------------------------------------
\* The phase of each location, spelled out for the provers.
LEMMA PhaseAtValues ==
  /\ PhaseAt("idle") = "idle" /\ PhaseAt("load") = "loading"
  /\ PhaseAt("wait_scan") = "asking" /\ PhaseAt("scan") = "asking"
  /\ PhaseAt("collect") = "asking" /\ PhaseAt("unlock_scan") = "asking"
  /\ PhaseAt("wait_get") = "asking" /\ PhaseAt("get") = "asking"
  /\ PhaseAt("unlock_get") = "looked"
  /\ PhaseAt("wait_put") = "recording" /\ PhaseAt("put") = "recording"
  /\ PhaseAt("put_handle") = "recording" /\ PhaseAt("unlock_put") = "recorded"
<1> USE DEF PhaseAt
<1>1. PhaseAt("idle") = "idle" /\ PhaseAt("load") = "loading"
  OBVIOUS
<1>2. PhaseAt("wait_scan") = "asking" /\ PhaseAt("scan") = "asking"
  OBVIOUS
<1>3. PhaseAt("collect") = "asking" /\ PhaseAt("unlock_scan") = "asking"
  OBVIOUS
<1>4. PhaseAt("wait_get") = "asking" /\ PhaseAt("get") = "asking"
  OBVIOUS
<1>5. PhaseAt("unlock_get") = "looked" /\ PhaseAt("wait_put") = "recording"
  OBVIOUS
<1>6. PhaseAt("put") = "recording" /\ PhaseAt("put_handle") = "recording"
  OBVIOUS
<1>7. PhaseAt("unlock_put") = "recorded"
  OBVIOUS
<1> QED
  BY <1>1, <1>2, <1>3, <1>4, <1>5, <1>6, <1>7

\* Moving one thread moves its phase and no other's.
LEMMA PhaseGoto ==
  ASSUME TypeInv, NEW t \in Threads, NEW l, Goto(t, l)
  PROVE  /\ AbsPhase' = [AbsPhase EXCEPT ![t] = PhaseAt(l)]
         /\ AbsPhase[t] = PhaseAt(pc[t])
<1>1. \A u \in Threads : pc'[u] = IF u = t THEN l ELSE pc[u]
  BY DEF Goto, TypeInv, TypeOK
<1> QED
  BY <1>1 DEF AbsPhase

\* A step inside a function is no step of the map when neither the answers nor
\* the phase change.
LEMMA PhaseStays ==
  ASSUME TypeInv, NEW t \in Threads, NEW l, Goto(t, l), PhaseAt(l) = PhaseAt(pc[t])
  PROVE  AbsPhase' = AbsPhase
<1>1. \A u \in Threads : pc'[u] = IF u = t THEN l ELSE pc[u]
  BY DEF Goto, TypeInv, TypeOK
<1> QED
  BY <1>1 DEF AbsPhase

\* A step that leaves the table leaves the map.
LEMMA TableStays ==
  ASSUME UNCHANGED fgn_cache
  PROVE  AbsMap' = AbsMap /\ AbsFull' = AbsFull
<1>1. \A k \in Keys, h \in Handles : Answer(k, h)' <=> Answer(k, h)
  BY DEF Answer
<1> QED
  BY <1>1, MapStutters DEF AbsFull

\* The innermost open returns in both.
LEMMA ReturnRefines ==
  ASSUME TypeInv, NEW t \in Threads, Return(t)
  PROVE  Abs!Return(t)
  BY PhaseGoto, PhaseAtValues DEF Return, Abs!Return

\* Every step of the table and its lock is a step of the map or none.
LEMMA StepRefines == IInv /\ [Next]_vars => [Abs!Next]_(Abs!vars)
<1> SUFFICES ASSUME IInv, [Next]_vars PROVE [Abs!Next]_(Abs!vars)
  OBVIOUS
<1> USE DEF IInv
<1>1. ASSUME NEW t \in Threads, NEW k \in Keys, Attempt(t, k)
      PROVE  Abs!Ask(t, k)
  BY <1>1, TableStays, PhaseGoto, PhaseAtValues DEF Attempt, table, Abs!Ask
<1>2. ASSUME NEW t \in Threads, LockCache(t) PROVE UNCHANGED Abs!vars
  <2>1. UNCHANGED <<fgn_cache, chain, handle>>
    BY <1>2 DEF LockCache, table
  <2>2. AbsPhase' = AbsPhase
    BY <1>2, PhaseStays, PhaseAtValues DEF LockCache
  <2> QED
    BY <2>1, <2>2, TableStays DEF Abs!vars
<1>3. ASSUME NEW t \in Threads, ScanTest(t) PROVE UNCHANGED Abs!vars
  BY <1>3, TableStays, PhaseStays, PhaseAtValues DEF ScanTest, Abs!vars
<1>4. ASSUME NEW t \in Threads, ScanCollect(t) PROVE UNCHANGED Abs!vars
  BY <1>4, TableStays, PhaseStays, PhaseAtValues DEF ScanCollect, Abs!vars
<1>5. ASSUME NEW t \in Threads, ScanUnlock(t) PROVE UNCHANGED Abs!vars
  BY <1>5, TableStays, PhaseStays, PhaseAtValues DEF ScanUnlock, table, Abs!vars
<1>6. ASSUME NEW t \in Threads, GetStep(t)
      PROVE  Abs!Lookup(t) \/ UNCHANGED Abs!vars
  <2>1. UNCHANGED <<fgn_cache, chain>> /\ pc[t] = "get"
    BY <1>6 DEF GetStep, table
  <2>2. CASE UNCHANGED <<pc, handle>>
    BY <2>1, <2>2, TableStays DEF AbsPhase, Abs!vars
  <2>3. CASE Goto(t, "unlock_get")
    <3> DEFINE k == Head(chain[t])
    <3>1. k \in Keys /\ pc'[t] = "unlock_get"
      BY <2>1, <2>3, TailType DEF TypeInv, TypeOK, ChainInv, Goto
    <3>2. LookupInv'
      BY LookupStep
    <3>3. \/ handle'[t] # NoHandle /\ (Answer(Head(chain[t]), handle[t]))'
          \/ handle'[t] = NoHandle /\ \A i \in Slots : fgn_cache'[i].key # Head(chain'[t])
      BY <3>1, <3>2 DEF LookupInv
    <3>4. handle'[t] = AbsMap[k]
      <4>1. CASE handle'[t] # NoHandle /\ (Answer(Head(chain[t]), handle[t]))'
        <5>1. Answer(k, handle'[t])
          BY <2>1, <4>1 DEF Answer
        <5>2. handle'[t] \in Handles
          BY <4>1, TypeStep DEF TypeInv, TypeOK
        <5> QED
          BY <3>1, <5>1, <5>2, MapOfAnswer
      <4>2. CASE handle'[t] = NoHandle /\ \A i \in Slots : fgn_cache'[i].key # Head(chain'[t])
        <5>1. \A h \in Handles : ~Answer(k, h)
          BY <2>1, <4>2 DEF Answer
        <5> QED
          BY <3>1, <4>2, <5>1, MapOfNoAnswer
      <4> QED
        BY <3>3, <4>1, <4>2
    <3>5. handle' = [handle EXCEPT ![t] = handle'[t]]
      BY <1>6 DEF GetStep, TypeInv, TypeOK
    <3> QED
      BY <2>1, <2>3, <3>4, <3>5, TableStays, PhaseGoto, PhaseAtValues DEF Abs!Lookup
  <2> QED
    BY <1>6, <2>2, <2>3 DEF GetStep
<1>7. ASSUME NEW t \in Threads, GetUnlock(t) PROVE Abs!Hit(t) \/ Abs!Miss(t)
  <2>1. UNCHANGED <<fgn_cache, handle>> /\ AbsPhase[t] = "looked"
    BY <1>7, PhaseAtValues DEF GetUnlock, table, AbsPhase
  <2>2. CASE handle[t] # NoHandle
    BY <1>7, <2>1, <2>2, TableStays, ReturnRefines DEF GetUnlock, Abs!Hit
  <2>3. CASE handle[t] = NoHandle
    BY <1>7, <2>1, <2>3, TableStays, PhaseGoto, PhaseAtValues DEF GetUnlock, Abs!Miss
  <2> QED
    BY <2>2, <2>3
<1>8. ASSUME NEW t \in Threads, NEW k \in Keys, LoadDependency(t, k)
      PROVE  Abs!Ask(t, k)
  BY <1>8, TableStays, PhaseGoto, PhaseAtValues DEF LoadDependency, table, Abs!Ask
<1>9. ASSUME NEW t \in Threads, NEW h \in Handles \cup {NoHandle}, LoadUncached(t, h)
      PROVE  Abs!Load(t, h)
  <2>1. UNCHANGED fgn_cache /\ AbsPhase[t] = "loading"
    BY <1>9, PhaseAtValues DEF LoadUncached, table, AbsPhase
  <2> QED
    BY <1>9, <2>1, TableStays, ReturnRefines DEF LoadUncached, Abs!Load
<1>10. ASSUME NEW t \in Threads, NEW h \in Handles, LoadDone(t, h)
       PROVE  Abs!Load(t, h)
  BY <1>10, NoHandleAssumption, TableStays, PhaseGoto, PhaseAtValues
     DEF LoadDone, table, Abs!Load
<1>11. ASSUME NEW t \in Threads, PutStep(t)
       PROVE  Abs!Record(t) \/ UNCHANGED Abs!vars
  <2>1. UNCHANGED <<chain, handle>> /\ pc[t] = "put"
    BY <1>11 DEF PutStep
  <2>2. AbsMap' = AbsMap /\ AbsFull' = AbsFull
    BY <1>11, PutStepAnswers, MapStutters DEF AbsFull
  <2>3. CASE UNCHANGED pc
    BY <2>1, <2>2, <2>3 DEF AbsPhase, Abs!vars
  <2>4. CASE Goto(t, "put_handle")
    BY <2>1, <2>2, <2>4, PhaseStays, PhaseAtValues DEF Abs!vars
  <2>5. CASE Goto(t, "unlock_put") /\ fgn_cache[idx[t]].key # NoKey /\ idx[t] = CacheMax
    <3>1. \A j \in Slots : fgn_cache[j].key # NoKey
      BY <2>1, <2>5, CacheMaxAssumption DEF TableInv, Slots
    <3>2. \A u \in Threads : pc[u] # "put_handle"
      BY <2>1 DEF LockInv, MutualExclusion, Holding
    <3>3. AbsFull
      BY <3>1, <3>2 DEF TableInv, AbsFull
    <3> QED
      BY <2>1, <2>2, <2>5, <3>3, PhaseGoto, PhaseAtValues DEF Abs!Record
  <2> QED
    BY <1>11, <2>3, <2>4, <2>5 DEF PutStep
<1>12. ASSUME NEW t \in Threads, PutHandle(t) PROVE Abs!Record(t)
  <2> DEFINE k == Head(chain[t])
  <2>1. /\ UNCHANGED <<chain, handle>> /\ pc[t] = "put_handle"
        /\ Goto(t, "unlock_put")
    BY <1>12 DEF PutHandle
  <2>2. ~AbsFull
    BY <1>12, PutHandleAnswers DEF AbsFull
  <2>3. AbsMap' = [AbsMap EXCEPT ![k] = IF @ = NoHandle THEN handle[t] ELSE @]
    <3>1. /\ k \in Keys /\ handle[t] \in Handles
          /\ (\A h \in Handles : ~Answer(k, h)) => (Answer(Head(chain[t]), handle[t]))'
          /\ \A m \in Keys \ {k}, h \in Handles : Answer(m, h)' <=> Answer(m, h)
      BY <1>12, PutHandleAnswers
    <3>2. ASSUME NEW m \in Keys \ {k} PROVE AbsMap'[m] = AbsMap[m]
      <4>1. (\E h \in Handles : Answer(m, h))' <=> \E h \in Handles : Answer(m, h)
        BY <3>1
      <4>2. (CHOOSE h \in Handles : Answer(m, h))' = CHOOSE h \in Handles : Answer(m, h)
        BY <3>1
      <4> QED
        BY <4>1, <4>2 DEF AbsMap
    <3>3. AbsMap'[k] = IF AbsMap[k] = NoHandle THEN handle[t] ELSE AbsMap[k]
      <4>1. CASE \E h \in Handles : Answer(k, h)
        <5>1. PICK h \in Handles : Answer(k, h)
          BY <4>1
        <5>2. AbsMap[k] = h /\ h # NoHandle
          BY <3>1, <5>1, MapOfAnswer, NoHandleAssumption
        <5>3. Answer(k, h)'
          BY <3>1, <2>1, <5>1, AnswerStep DEF Answer
        <5>4. \A g \in Handles : Answer(k, g)' => g = h
          BY <3>1, <2>1, <5>3, AnswerUniqueNext
        <5>5. AbsMap'[k] = h
          BY <2>1, <3>1, <5>3, <5>4 DEF AbsMap
        <5> QED
          BY <5>2, <5>5
      <4>2. CASE \A h \in Handles : ~Answer(k, h)
        <5>1. AbsMap[k] = NoHandle
          BY <3>1, <4>2, MapOfNoAnswer
        <5>2. Answer(k, handle[t])'
          BY <3>1, <4>2
        <5>3. \A g \in Handles : Answer(k, g)' => g = handle[t]
          BY <3>1, <2>1, <5>2, AnswerUniqueNext
        <5>4. AbsMap'[k] = handle[t]
          BY <2>1, <3>1, <5>2, <5>3 DEF AbsMap
        <5> QED
          BY <5>1, <5>4
      <4> QED
        BY <4>1, <4>2
    <3> QED
      BY <3>1, <3>2, <3>3 DEF AbsMap
  <2>4. AbsFull' \in BOOLEAN
    BY DEF AbsFull
  <2> QED
    BY <2>1, <2>2, <2>3, <2>4, PhaseGoto, PhaseAtValues DEF Abs!Record
<1>13. ASSUME NEW t \in Threads, PutUnlock(t) PROVE Abs!Recorded(t)
  <2>1. UNCHANGED <<fgn_cache, handle>> /\ AbsPhase[t] = "recorded"
    BY <1>13, PhaseAtValues DEF PutUnlock, table, AbsPhase
  <2> QED
    BY <1>13, <2>1, TableStays, ReturnRefines DEF PutUnlock, Abs!Recorded
<1>14. CASE UNCHANGED vars
  BY <1>14, TableStays DEF vars, AbsPhase, Abs!vars
<1> QED
  BY <1>1, <1>2, <1>3, <1>4, <1>5, <1>6, <1>7, <1>8, <1>9, <1>10, <1>11,
     <1>12, <1>13, <1>14 DEF Next, Step, Abs!Next

\* The table behind the lock is the atomic map: FgnCache implements HandleMap.
THEOREM CacheImplementsMap == Spec => ImplementsHandleMap
<1>1. Init => Abs!Init
  <2> SUFFICES ASSUME Init PROVE Abs!Init
    OBVIOUS
  <2>1. \A k \in Keys, h \in Handles : ~Answer(k, h)
    BY NoKeyAssumption DEF Init, Answer
  <2>2. AbsMap = [k \in Keys |-> NoHandle]
    BY <2>1 DEF AbsMap
  <2>3. AbsFull = FALSE
    BY CacheMaxAssumption DEF Init, AbsFull, Slots
  <2>4. AbsPhase = [t \in Threads |-> "idle"]
    BY PhaseAtValues DEF Init, AbsPhase
  <2> QED
    BY <2>2, <2>3, <2>4 DEF Init, Abs!Init
<1> QED
  BY <1>1, StepRefines, TypeInvariant, LockInvariant, TableInvariant, LookupInvariant,
     RecordedInvariant, PTL DEF Spec, IInv, ImplementsHandleMap, Abs!Spec
==============================================================================
