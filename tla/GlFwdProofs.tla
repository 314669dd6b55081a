----------------------------- MODULE GlFwdProofs -----------------------------
(***************************************************************************)
(* Proofs about GlFwd for any set of threads and any number of entry       *)
(* points: one thread loads, the table it publishes is complete, and the   *)
(* slots and answers implement GlBinding; and the counters count names.    *)
(***************************************************************************)
EXTENDS GlFwd, FiniteSetTheorems, TLAPS

------------------------------------------------------------------------------
\* The threads that have been let past glfwd_ensure_target.
Past == {"patch", "count_fwd", "count_absent", "store"}

\* A thread about to patch or count has an entry, and one that fills has a table.
TypeInv ==
  /\ TypeOK
  /\ \A t \in Threads :
       /\ pc[t] \in {"patch", "count_fwd", "count_absent"} => entry[t] \in Entries
       /\ pc[t] = "fill" => glfwd_addr # None

\* What the finished pass leaves behind.
Final ==
  glfwd_addr = IF memory THEN [e \in Entries |-> HostAnswer(e)] ELSE None

\* The pass as far as the loading thread has got with it.
PassInv ==
  /\ glfwd_load_state = 2 => Final
  /\ \A t \in Threads : pc[t] \in Past => glfwd_load_state = 2
  /\ \A t \in Threads : pc[t] \in {"alloc", "fill"} => (glfwd_target # None <=> usable)
  /\ \A t \in Threads : pc[t] = "fill" =>
       /\ memory /\ usable
       /\ glfwd_addr \in [Entries -> Address]
       /\ \A e \in 1 .. pos[t] - 1 : glfwd_addr[e] = HostAnswer(e)
  /\ \A t \in Threads : pc[t] = "publish" => Final

\* A slot off the resolver holds what the host has, and so does every answer; a
\* thread counts a slot that it has patched.
SlotInv ==
  /\ \A e \in Entries : glfwd_tab[e] \in {"resolver", HostAnswer(e)}
  /\ AnswersAreTheHosts
  /\ \A t \in Threads :
       pc[t] \in {"count_fwd", "count_absent"} => glfwd_tab[entry[t]] # "resolver"

------------------------------------------------------------------------------
\* The locations, spelled out for the provers.
LEMMA LocationsElements ==
  /\ Loading = {"open", "alloc", "fill", "publish"}
  /\ Locations = {"idle", "ensure", "claim", "wait", "patch", "count_fwd",
                  "count_absent", "store", "open", "alloc", "fill", "publish"}
  BY DEF Loading, Locations

\* A step of one thread moves that thread and no other.
LEMMA GotoType ==
  ASSUME pc \in [Threads -> Locations], NEW t \in Threads, NEW l \in Locations,
         Goto(t, l)
  PROVE  /\ pc' \in [Threads -> Locations]
         /\ pc'[t] = l
         /\ \A u \in Threads : u # t => pc'[u] = pc[u]
  BY DEF Goto

\* Slots are numbered from 1 to GLFWD_COUNT.
LEMMA EntryOne == 1 \in Entries
  BY CountAssumption DEF Entries

\* The two loops stop at the last slot.
LEMMA EntryNext ==
  ASSUME NEW i \in Entries, i # Count
  PROVE  i + 1 \in Entries
  BY CountAssumption DEF Entries

\* Looking a name up gives an address or the absent stub.
LEMMA FoundType ==
  ASSUME TypeOK, NEW e \in Entries
  PROVE  Found(e) \in Address
  BY DEF TypeOK, Found, Address

\* A table of addresses is not the null pointer.
LEMMA TableIsNotNone ==
  ASSUME NEW f \in [Entries -> Address]
  PROVE  f # None
  BY NoneAssumption

\* What calloc returns, every address absent, is not the null pointer.
LEMMA AbsentTable == [e \in Entries |-> "absent"] # None
  BY TableIsNotNone DEF Address

------------------------------------------------------------------------------
\* Every variable keeps its type, whatever the threads do.
LEMMA TypeStep == ASSUME TypeInv, OneLoader, [Next]_vars PROVE TypeInv'
<1> USE LocationsElements, EntryOne
<1>1. ASSUME NEW t \in Threads, NEW e \in Entries, Call(t, e) PROVE TypeInv'
  BY <1>1 DEF Call, Answer, Goto, TypeInv, TypeOK, host, usable, memory, shim, counters, history
<1>2. ASSUME NEW t \in Threads, EagerInit(t) PROVE TypeInv'
  BY <1>2 DEF EagerInit, Goto, TypeInv, TypeOK, host, usable, memory, shim, counters, history
<1>3. ASSUME NEW t \in Threads, Ensure(t) PROVE TypeInv'
  BY <1>3 DEF Ensure, Resume, Goto, TypeInv, TypeOK, host, usable, memory, shim, counters, history
<1>4. ASSUME NEW t \in Threads, Claim(t) PROVE TypeInv'
  BY <1>4 DEF Claim, Goto, TypeInv, TypeOK, host, usable, memory, shim, counters, history
<1>5. ASSUME NEW t \in Threads, Wait(t) PROVE TypeInv'
  BY <1>5 DEF Wait, Resume, Goto, TypeInv, TypeOK, host, usable, memory, shim, counters, history
<1>6. ASSUME NEW t \in Threads, OpenTarget(t) PROVE TypeInv'
  BY <1>6 DEF OpenTarget, TypeInv, TypeOK, host, usable, memory, shim, counters, history
<1>7. ASSUME NEW t \in Threads, NEW e \in Entries, Reenter(t, e) PROVE TypeInv'
  BY <1>7 DEF Reenter, TypeInv, TypeOK, host, usable, memory, shim, counters, history
<1>8. ASSUME NEW t \in Threads, TargetOpened(t) PROVE TypeInv'
  BY <1>8 DEF TargetOpened, Goto, Leave, TypeInv, TypeOK, host, usable, memory, counters, history
<1>9. ASSUME NEW t \in Threads, Alloc(t) PROVE TypeInv'
  <2>1. [e \in Entries |-> "absent"] \in [Entries -> Address]
    BY DEF Address
  <2>2. glfwd_addr' \in [Entries -> Address] \cup {None}
    <3>1. CASE memory
      BY <1>9, <2>1, <3>1 DEF Alloc
    <3>2. CASE ~memory
      BY <1>9, <3>2 DEF Alloc
    <3> QED
      BY <3>1, <3>2
  <2>3. \A u \in Threads : pc'[u] = "fill" => glfwd_addr' # None
    <3>1. CASE memory
      BY <1>9, <3>1, AbsentTable DEF Alloc
    <3>2. CASE ~memory
      BY <1>9, <3>2 DEF Alloc, Goto, TypeInv, TypeOK, OneLoader
    <3> QED
      BY <3>1, <3>2
  <2> QED
    BY <1>9, <2>2, <2>3 DEF Alloc, Goto, TypeInv, TypeOK, host, usable, memory, counters, history
<1>10. ASSUME NEW t \in Threads, Fill(t) PROVE TypeInv'
  <2>1. glfwd_addr \in [Entries -> Address] /\ pos[t] \in Entries
    BY <1>10 DEF Fill, TypeInv, TypeOK
  <2>2. glfwd_addr' \in [Entries -> Address]
    BY <1>10, <2>1 DEF Fill, Address
  <2>3. pos' \in [Threads -> Entries]
    BY <1>10, <2>1, EntryNext DEF Fill, TypeInv, TypeOK
  <2> QED
    BY <1>10, <2>2, <2>3, TableIsNotNone DEF Fill, Goto, TypeInv, TypeOK, host, usable, memory, counters, history
<1>11. ASSUME NEW t \in Threads, Publish(t) PROVE TypeInv'
  BY <1>11 DEF Publish, Resume, Goto, TypeInv, TypeOK, host, usable, memory, shim, counters, history
<1>12. ASSUME NEW t \in Threads, Patch(t) PROVE TypeInv'
  <2>1. entry[t] \in Entries /\ Found(entry[t]) \in Address
    BY FoundType, <1>12 DEF Patch, TypeInv
  <2>2. glfwd_tab' \in [Entries -> Address \cup {"resolver"}]
    BY <1>12, <2>1 DEF Patch, TypeInv, TypeOK
  <2>3. answers' \in [Entries -> SUBSET Address]
    BY <1>12, <2>1 DEF Patch, Answer, TypeInv, TypeOK
  <2>4. pc' \in [Threads -> Locations]
    BY <1>12 DEF Patch, Answer, Goto, TypeInv, TypeOK
  <2> QED
    BY <1>12, <2>1, <2>2, <2>3, <2>4 DEF Patch, Answer, Goto, TypeInv, TypeOK, host, usable, memory, shim, counters
<1>13. ASSUME NEW t \in Threads, CountCall(t) PROVE TypeInv'
  <2>1. entry[t] \in Entries /\ Found(entry[t]) \in Address
    BY FoundType, <1>13 DEF CountCall, TypeInv
  <2>2. answers' \in [Entries -> SUBSET Address]
    BY <1>13, <2>1 DEF CountCall, Answer, TypeInv, TypeOK
  <2> QED
    BY <1>13, <2>2 DEF CountCall, Answer, Goto, TypeInv, TypeOK, host, usable, memory, shim
<1>14. ASSUME NEW t \in Threads, Store(t) PROVE TypeInv'
  <2>1. pos[t] \in Entries /\ Found(pos[t]) \in Address
    BY FoundType, <1>14 DEF Store, TypeInv, TypeOK
  <2>2. glfwd_tab' \in [Entries -> Address \cup {"resolver"}]
    BY <1>14, <2>1 DEF Store, TypeInv, TypeOK
  <2>3. pos' \in [Threads -> Entries]
    BY <1>14, <2>1, EntryNext DEF Store, TypeInv, TypeOK
  <2> QED
    BY <1>14, <2>2, <2>3 DEF Store, Goto, TypeInv, TypeOK, host, usable, memory, shim, counters, history
<1>15. ASSUME NEW t \in Threads, OpenPlugin(t) PROVE TypeInv'
  BY <1>15 DEF OpenPlugin, TypeInv, TypeOK, host, usable, memory, shim, counters, history
<1>16. ASSUME NEW t \in Threads, PluginOpened(t) PROVE TypeInv'
  <2>1. calls' \in [Threads -> Nat]
    BY <1>16, MaxCallsAssumption DEF PluginOpened, TypeInv, TypeOK
  <2> QED
    BY <1>16, <2>1 DEF PluginOpened, TypeInv, TypeOK, host, usable, memory, shim, counters, history
<1>17. CASE UNCHANGED vars
  BY <1>17 DEF vars, host, usable, memory, shim, counters, history, TypeInv, TypeOK, host, usable, memory, shim, counters, history
<1> QED
  BY <1>1, <1>2, <1>3, <1>4, <1>5, <1>6, <1>7, <1>8, <1>9, <1>10, <1>11,
     <1>12, <1>13, <1>14, <1>15, <1>16, <1>17 DEF Next, Step

------------------------------------------------------------------------------
\* The compare-exchange on the load state admits one loader, and the state stays
\* 1 until that thread publishes.
LEMMA LoaderStep == ASSUME TypeInv, OneLoader, [Next]_vars PROVE OneLoader'
<1> USE LocationsElements DEF TypeInv, TypeOK, OneLoader
<1>1. ASSUME NEW t \in Threads, NEW e \in Entries, Call(t, e) PROVE OneLoader'
  BY <1>1 DEF Call, Answer, Goto, host, usable, memory, shim, counters, history
<1>2. ASSUME NEW t \in Threads, EagerInit(t) PROVE OneLoader'
  BY <1>2 DEF EagerInit, Goto, host, usable, memory, shim, counters, history
<1>3. ASSUME NEW t \in Threads, Ensure(t) PROVE OneLoader'
  BY <1>3 DEF Ensure, Resume, Goto, host, usable, memory, shim, counters, history
<1>4. ASSUME NEW t \in Threads, Claim(t) PROVE OneLoader'
  BY <1>4 DEF Claim, Goto, host, usable, memory, shim, counters, history
<1>5. ASSUME NEW t \in Threads, Wait(t) PROVE OneLoader'
  BY <1>5 DEF Wait, Resume, Goto, host, usable, memory, shim, counters, history
<1>6. ASSUME NEW t \in Threads, OpenTarget(t) PROVE OneLoader'
  BY <1>6 DEF OpenTarget, host, usable, memory, shim, counters, history
<1>7. ASSUME NEW t \in Threads, NEW e \in Entries, Reenter(t, e) PROVE OneLoader'
  BY <1>7 DEF Reenter, host, usable, memory, shim, counters, history
<1>8. ASSUME NEW t \in Threads, TargetOpened(t) PROVE OneLoader'
  BY <1>8 DEF TargetOpened, Goto, host, usable, memory, shim, counters, history
<1>9. ASSUME NEW t \in Threads, Alloc(t) PROVE OneLoader'
  BY <1>9 DEF Alloc, Goto, host, usable, memory, shim, counters, history
<1>10. ASSUME NEW t \in Threads, Fill(t) PROVE OneLoader'
  BY <1>10 DEF Fill, Goto, host, usable, memory, shim, counters, history
<1>11. ASSUME NEW t \in Threads, Publish(t) PROVE OneLoader'
  BY <1>11 DEF Publish, Resume, Goto, host, usable, memory, shim, counters, history
<1>12. ASSUME NEW t \in Threads, Patch(t) PROVE OneLoader'
  BY <1>12 DEF Patch, Answer, Goto, host, usable, memory, shim, counters, history
<1>13. ASSUME NEW t \in Threads, CountCall(t) PROVE OneLoader'
  BY <1>13 DEF CountCall, Answer, Goto, host, usable, memory, shim, counters, history
<1>14. ASSUME NEW t \in Threads, Store(t) PROVE OneLoader'
  BY <1>14 DEF Store, Goto, host, usable, memory, shim, counters, history
<1>15. ASSUME NEW t \in Threads, OpenPlugin(t) PROVE OneLoader'
  BY <1>15 DEF OpenPlugin, host, usable, memory, shim, counters, history
<1>16. ASSUME NEW t \in Threads, PluginOpened(t) PROVE OneLoader'
  BY <1>16 DEF PluginOpened, host, usable, memory, shim, counters, history
<1>17. CASE UNCHANGED vars
  BY <1>17 DEF vars, host, usable, memory, shim, counters, history, host, usable, memory, shim, counters, history
<1> QED
  BY <1>1, <1>2, <1>3, <1>4, <1>5, <1>6, <1>7, <1>8, <1>9, <1>10, <1>11,
     <1>12, <1>13, <1>14, <1>15, <1>16, <1>17 DEF Next, Step

\* Types and the single loader hold together: only the loader may find the table
\* missing.
LEMMA TypeInvariant == Spec => [](TypeInv /\ OneLoader)
<1>1. Init => TypeInv /\ OneLoader
  <2> SUFFICES ASSUME Init PROVE TypeInv /\ OneLoader
    OBVIOUS
  <2>1. /\ pc \in [Threads -> Locations]
        /\ pos \in [Threads -> Entries]
        /\ entry \in [Threads -> Entries \cup {None}]
        /\ calls \in [Threads -> Nat]
    BY LocationsElements, EntryOne DEF Init
  <2>2. /\ glfwd_tab \in [Entries -> Address \cup {"resolver"}]
        /\ answers \in [Entries -> SUBSET Address]
    BY DEF Init
  <2>3. OneLoader
    BY LocationsElements DEF Init, OneLoader
  <2> QED
    BY <2>1, <2>2, <2>3 DEF Init, TypeInv, TypeOK
<1>2. TypeInv /\ OneLoader /\ [Next]_vars => (TypeInv /\ OneLoader)'
  BY TypeStep, LoaderStep
<1> QED
  BY <1>1, <1>2, PTL DEF Spec

\* TypeOK, for any threads and any number of entry points.
THEOREM TypeCorrect == Spec => []TypeOK
<1>1. TypeInv => TypeOK
  BY DEF TypeInv
<1> QED
  BY <1>1, TypeInvariant, PTL

\* The host stack is loaded by one thread at a time, whatever the interleaving of
\* first calls and of the eager constructor.
THEOREM OneThreadLoads == Spec => []OneLoader
BY TypeInvariant, PTL

------------------------------------------------------------------------------
\* The table is complete before the state says so, and nobody is past
\* glfwd_ensure_target earlier.
LEMMA PassStep == ASSUME TypeInv, OneLoader, PassInv, [Next]_vars PROVE PassInv'
<1> USE LocationsElements DEF Past
<1>1. ASSUME NEW t \in Threads, NEW e \in Entries, Call(t, e) PROVE PassInv'
  BY <1>1 DEF Call, Answer, Goto, TypeInv, TypeOK, OneLoader, PassInv, Final, HostAnswer, Implemented, host, usable, memory, shim, counters, history
<1>2. ASSUME NEW t \in Threads, EagerInit(t) PROVE PassInv'
  BY <1>2 DEF EagerInit, Goto, TypeInv, TypeOK, OneLoader, PassInv, Final, HostAnswer, Implemented, host, usable, memory, shim, counters, history
<1>3. ASSUME NEW t \in Threads, Ensure(t) PROVE PassInv'
  BY <1>3 DEF Ensure, Resume, Goto, TypeInv, TypeOK, OneLoader, PassInv, Final, HostAnswer, Implemented, host, usable, memory, shim, counters, history
<1>4. ASSUME NEW t \in Threads, Claim(t) PROVE PassInv'
  BY <1>4 DEF Claim, Goto, TypeInv, TypeOK, OneLoader, PassInv, Final, HostAnswer, Implemented, host, usable, memory, shim, counters, history
<1>5. ASSUME NEW t \in Threads, Wait(t) PROVE PassInv'
  BY <1>5 DEF Wait, Resume, Goto, TypeInv, TypeOK, OneLoader, PassInv, Final, HostAnswer, Implemented, host, usable, memory, shim, counters, history
<1>6. ASSUME NEW t \in Threads, OpenTarget(t) PROVE PassInv'
  BY <1>6 DEF OpenTarget, TypeInv, TypeOK, OneLoader, PassInv, Final, HostAnswer, Implemented, host, usable, memory, shim, counters, history
<1>7. ASSUME NEW t \in Threads, NEW e \in Entries, Reenter(t, e) PROVE PassInv'
  BY <1>7 DEF Reenter, TypeInv, TypeOK, OneLoader, PassInv, Final, HostAnswer, Implemented, host, usable, memory, shim, counters, history
<1>8. ASSUME NEW t \in Threads, TargetOpened(t) PROVE PassInv'
  <2>1. Final' = Final
    BY <1>8 DEF TargetOpened, Final, HostAnswer, Implemented, host, usable, memory
  <2>2. \A u \in Threads : u # t => pc'[u] = pc[u] /\ pc'[u] \notin {"alloc", "fill", "publish"}
    BY <1>8 DEF TargetOpened, Goto, TypeInv, TypeOK, OneLoader
  <2>3. pc'[t] = "alloc" /\ (glfwd_target' # None <=> usable') /\ glfwd_load_state' = 1
    BY <1>8, NoneAssumption DEF TargetOpened, Goto, TypeInv, TypeOK, OneLoader, host, usable
  <2> QED
    BY <2>1, <2>2, <2>3, <1>8 DEF TargetOpened, PassInv
<1>9. ASSUME NEW t \in Threads, Alloc(t) PROVE PassInv'
  <2>1. \A u \in Threads : u # t => pc'[u] = pc[u] /\ pc'[u] \notin {"alloc", "fill", "publish"}
    BY <1>9 DEF Alloc, Goto, TypeInv, TypeOK, OneLoader
  <2>2. glfwd_load_state' = 1 /\ (glfwd_target # None <=> usable) /\ (glfwd_target' # None <=> usable')
    BY <1>9 DEF Alloc, TypeInv, TypeOK, OneLoader, PassInv, host, usable, memory
  <2>3. \A e \in Entries : HostAnswer(e)' = HostAnswer(e)
    BY <1>9 DEF Alloc, HostAnswer, Implemented, host, usable, memory
  <2>4. CASE memory /\ glfwd_target # None
    <3>1. pc'[t] = "fill" /\ pos'[t] = 1 /\ memory' /\ usable'
      BY <1>9, <2>2, <2>4 DEF Alloc, Goto, TypeInv, TypeOK, host, usable, memory
    <3>2. glfwd_addr' \in [Entries -> Address]
      BY <1>9, <2>4 DEF Alloc, Address
    <3> QED
      <4>1. \A u \in Threads : pc'[u] \in {"alloc", "fill", "publish"} => u = t /\ pc'[u] = "fill"
        BY <2>1, <3>1
      <4>2. \A u \in Threads : pc'[u] \in Past => pc[u] \in Past
        BY <2>1, <3>1
      <4>3. \A e \in 1 .. pos'[t] - 1 : glfwd_addr'[e] = HostAnswer(e)'
        BY <3>1
      <4> QED
        BY <1>9, <2>2, <3>1, <3>2, <4>1, <4>2, <4>3 DEF Alloc, PassInv
  <2>5. CASE ~(memory /\ glfwd_target # None)
    <3>1. pc'[t] = "publish"
      BY <1>9, <2>5 DEF Alloc, Goto, TypeInv, TypeOK
    <3>2. Implemented = {}
      BY <2>2, <2>5 DEF Implemented
    <3>3. \A e \in Entries : HostAnswer(e)' = "absent"
      BY <2>3, <3>2 DEF HostAnswer
    <3>4. CASE memory
      <4>1. glfwd_addr' = [e \in Entries |-> "absent"] /\ memory' = memory
        BY <1>9, <3>4 DEF Alloc, host, usable, memory
      <4>2. [e \in Entries |-> "absent"] = [e \in Entries |-> HostAnswer(e)']
        BY <3>3
      <4>3. Final'
        BY <3>4, <4>1, <4>2 DEF Final, memory
      <4>8. \A u \in Threads : pc'[u] \in {"alloc", "fill", "publish"} => pc'[u] = "publish"
        BY <2>1, <3>1
      <4>9. \A u \in Threads : pc'[u] \in Past => pc[u] \in Past
        BY <2>1, <3>1
      <4> QED
        BY <1>9, <2>2, <3>1, <4>3, <4>8, <4>9 DEF Alloc, PassInv
    <3>5. CASE ~memory
      <4>1. Final'
        BY <1>9, <3>5 DEF Alloc, Final, host, usable, memory
      <4>8. \A u \in Threads : pc'[u] \in {"alloc", "fill", "publish"} => pc'[u] = "publish"
        BY <2>1, <3>1
      <4>9. \A u \in Threads : pc'[u] \in Past => pc[u] \in Past
        BY <2>1, <3>1
      <4> QED
        BY <1>9, <2>2, <3>1, <4>1, <4>8, <4>9 DEF Alloc, PassInv
    <3> QED
      BY <3>4, <3>5
  <2> QED
    BY <2>4, <2>5
<1>10. ASSUME NEW t \in Threads, Fill(t) PROVE PassInv'
  <2>1. \A u \in Threads : u # t => pc'[u] = pc[u] /\ pc'[u] \notin {"alloc", "fill", "publish"}
    BY <1>10 DEF Fill, Goto, TypeInv, TypeOK, OneLoader
  <2>2. /\ memory /\ usable /\ memory' /\ usable'
        /\ glfwd_addr \in [Entries -> Address]
        /\ pos[t] \in Entries
        /\ \A e \in 1 .. pos[t] - 1 : glfwd_addr[e] = HostAnswer(e)
        /\ glfwd_load_state = 1 /\ glfwd_load_state' = 1
    BY <1>10 DEF Fill, TypeInv, TypeOK, OneLoader, PassInv, host, memory, usable
  <2>3. \A e \in Entries : HostAnswer(e)' = HostAnswer(e)
    BY <1>10 DEF Fill, HostAnswer, Implemented, host, memory, usable
  <2>4. /\ glfwd_addr' \in [Entries -> Address]
        /\ glfwd_addr'[pos[t]] = HostAnswer(pos[t])
        /\ \A e \in Entries : e # pos[t] => glfwd_addr'[e] = glfwd_addr[e]
    BY <1>10, <2>2 DEF Fill, HostAnswer, Implemented, Address
  <2>5. \A e \in 1 .. pos[t] : glfwd_addr'[e] = HostAnswer(e)'
    BY <2>2, <2>3, <2>4, CountAssumption DEF Entries
  <2>6. \A u \in Threads : pc'[u] \in Past => pc[u] \in Past
    BY <1>10, <2>1 DEF Fill, Goto, TypeInv, TypeOK
  <2>7. glfwd_target' # None <=> usable'
    BY <1>10 DEF Fill, PassInv, host, usable
  <2>8. CASE pos[t] = Count
    <3>1. pc'[t] = "publish"
      BY <1>10, <2>8 DEF Fill, Goto, TypeInv, TypeOK
    <3>2. Final'
      BY <2>2, <2>4, <2>5, <2>8 DEF Final, Entries
    <3>3. \A u \in Threads : pc'[u] \in {"alloc", "fill", "publish"} => pc'[u] = "publish"
      BY <2>1, <3>1
    <3> QED
      BY <2>2, <2>6, <3>1, <3>2, <3>3 DEF PassInv
  <2>9. CASE pos[t] # Count
    <3>1. pc'[t] = "fill" /\ pos'[t] = pos[t] + 1
      BY <1>10, <2>9 DEF Fill, TypeInv, TypeOK
    <3>2. \A e \in 1 .. pos'[t] - 1 : glfwd_addr'[e] = HostAnswer(e)'
      BY <2>2, <2>5, <3>1 DEF Entries
    <3> QED
      <4>1. \A u \in Threads : pc'[u] \in {"alloc", "fill", "publish"} => u = t /\ pc'[u] = "fill"
        BY <2>1, <3>1
      <4>2. \A u \in Threads : pc'[u] \in Past => pc[u] \in Past
        BY <2>6
      <4> QED
        BY <2>2, <2>4, <2>7, <3>1, <3>2, <4>1, <4>2 DEF PassInv
  <2> QED
    BY <2>8, <2>9
<1>11. ASSUME NEW t \in Threads, Publish(t) PROVE PassInv'
  BY <1>11 DEF Publish, Resume, Goto, TypeInv, TypeOK, OneLoader, PassInv, Final, HostAnswer, Implemented, host, usable, memory, shim, counters, history
<1>12. ASSUME NEW t \in Threads, Patch(t) PROVE PassInv'
  BY <1>12 DEF Patch, Answer, Goto, TypeInv, TypeOK, OneLoader, PassInv, Final, HostAnswer, Implemented, host, usable, memory, shim, counters, history
<1>13. ASSUME NEW t \in Threads, CountCall(t) PROVE PassInv'
  BY <1>13 DEF CountCall, Answer, Goto, TypeInv, TypeOK, OneLoader, PassInv, Final, HostAnswer, Implemented, host, usable, memory, shim, counters, history
<1>14. ASSUME NEW t \in Threads, Store(t) PROVE PassInv'
  BY <1>14 DEF Store, Goto, TypeInv, TypeOK, OneLoader, PassInv, Final, HostAnswer, Implemented, host, usable, memory, shim, counters, history
<1>15. ASSUME NEW t \in Threads, OpenPlugin(t) PROVE PassInv'
  BY <1>15 DEF OpenPlugin, TypeInv, TypeOK, OneLoader, PassInv, Final, HostAnswer, Implemented, host, usable, memory, shim, counters, history
<1>16. ASSUME NEW t \in Threads, PluginOpened(t) PROVE PassInv'
  BY <1>16 DEF PluginOpened, TypeInv, TypeOK, OneLoader, PassInv, Final, HostAnswer, Implemented, host, usable, memory, shim, counters, history
<1>17. CASE UNCHANGED vars
  BY <1>17 DEF vars, host, usable, memory, shim, counters, history, TypeInv, TypeOK, OneLoader, PassInv, Final, HostAnswer, Implemented, host, usable, memory, shim, counters, history
<1> QED
  BY <1>1, <1>2, <1>3, <1>4, <1>5, <1>6, <1>7, <1>8, <1>9, <1>10, <1>11,
     <1>12, <1>13, <1>14, <1>15, <1>16, <1>17 DEF Next, Step

\* The pass is complete whenever the state is 2.
LEMMA PassInvariant == Spec => [](TypeInv /\ PassInv)
<1>1. Init => PassInv
  <2> SUFFICES ASSUME Init PROVE PassInv
    OBVIOUS
  <2>1. \A t \in Threads : pc[t] = "idle"
    BY DEF Init
  <2> QED
    BY <2>1 DEF Init, PassInv, Past
<1>2. TypeInv /\ OneLoader /\ PassInv /\ [Next]_vars => PassInv'
  BY PassStep
<1> QED
  BY <1>1, <1>2, TypeInvariant, PTL DEF Spec

\* Once the state is 2, looking a name up gives what the host has for it.
LEMMA FoundIsTheHosts ==
  ASSUME TypeInv, PassInv, glfwd_load_state = 2, NEW e \in Entries
  PROVE  Found(e) = HostAnswer(e)
<1>1. CASE memory
  <2>1. glfwd_addr = [i \in Entries |-> HostAnswer(i)]
    BY <1>1 DEF PassInv, Final
  <2>2. glfwd_addr \in [Entries -> Address]
    BY <2>1 DEF HostAnswer, Address
  <2> QED
    BY <2>1, <2>2, TableIsNotNone DEF Found
<1>2. CASE ~memory
  BY <1>2 DEF PassInv, Final, Found, HostAnswer, Implemented
<1> QED
  BY <1>1, <1>2

\* No step changes the host's own set of entry points.
LEMMA HostIsFixed ==
  ASSUME [Next]_vars
  PROVE  /\ provides' = provides /\ failing' = failing
         /\ \A e \in Entries : HostAnswer(e)' = HostAnswer(e)
<1>1. provides' = provides /\ failing' = failing
  BY DEF Next, Step, Call, EagerInit, Ensure, Claim, Wait, OpenTarget, Reenter,
     TargetOpened, Alloc, Fill, Publish, Patch, CountCall, Store, OpenPlugin,
     PluginOpened, vars, host
<1> QED
  BY <1>1 DEF HostAnswer, Implemented, usable, memory

------------------------------------------------------------------------------
\* Slots and answers only ever take the host's own answer.
LEMMA SlotStep ==
  ASSUME TypeInv, OneLoader, PassInv, SlotInv, [Next]_vars PROVE SlotInv'
<1> USE LocationsElements
<1>1. ASSUME NEW t \in Threads, NEW e \in Entries, Call(t, e) PROVE SlotInv'
  <2>1. glfwd_tab' = glfwd_tab
    BY <1>1 DEF Call
  <2>2. \A u \in Threads : pc'[u] \in {"count_fwd", "count_absent"} =>
          pc'[u] = pc[u] /\ entry'[u] = entry[u]
    BY <1>1 DEF Call, Answer, Goto, TypeInv, TypeOK
  <2>3. \A i \in Entries : answers'[i] \subseteq {HostAnswer(i)}
    BY <1>1 DEF Call, Answer, TypeInv, TypeOK, SlotInv, AnswersAreTheHosts
  <2> QED
    BY <2>1, <2>2, <2>3, HostIsFixed DEF SlotInv, AnswersAreTheHosts
<1>2. ASSUME NEW t \in Threads, EagerInit(t) PROVE SlotInv'
  BY <1>2, HostIsFixed DEF EagerInit, Goto, host, shim, counters, history, TypeInv, TypeOK, SlotInv, AnswersAreTheHosts
<1>3. ASSUME NEW t \in Threads, Ensure(t) PROVE SlotInv'
  BY <1>3, HostIsFixed DEF Ensure, Resume, Goto, host, shim, counters, history, TypeInv, TypeOK, SlotInv, AnswersAreTheHosts
<1>4. ASSUME NEW t \in Threads, Claim(t) PROVE SlotInv'
  BY <1>4, HostIsFixed DEF Claim, Goto, host, shim, counters, history, TypeInv, TypeOK, SlotInv, AnswersAreTheHosts
<1>5. ASSUME NEW t \in Threads, Wait(t) PROVE SlotInv'
  BY <1>5, HostIsFixed DEF Wait, Resume, Goto, host, shim, counters, history, TypeInv, TypeOK, SlotInv, AnswersAreTheHosts
<1>6. ASSUME NEW t \in Threads, OpenTarget(t) PROVE SlotInv'
  BY <1>6, HostIsFixed DEF OpenTarget, host, shim, counters, history, TypeInv, TypeOK, SlotInv, AnswersAreTheHosts
<1>7. ASSUME NEW t \in Threads, NEW e \in Entries, Reenter(t, e) PROVE SlotInv'
  BY <1>7, HostIsFixed DEF Reenter, host, shim, counters, history, TypeInv, TypeOK, SlotInv, AnswersAreTheHosts
<1>8. ASSUME NEW t \in Threads, TargetOpened(t) PROVE SlotInv'
  BY <1>8, HostIsFixed DEF TargetOpened, Goto, host, shim, counters, history, TypeInv, TypeOK, SlotInv, AnswersAreTheHosts
<1>9. ASSUME NEW t \in Threads, Alloc(t) PROVE SlotInv'
  BY <1>9, HostIsFixed DEF Alloc, Goto, host, shim, counters, history, TypeInv, TypeOK, SlotInv, AnswersAreTheHosts
<1>10. ASSUME NEW t \in Threads, Fill(t) PROVE SlotInv'
  BY <1>10, HostIsFixed DEF Fill, Goto, host, shim, counters, history, TypeInv, TypeOK, SlotInv, AnswersAreTheHosts
<1>11. ASSUME NEW t \in Threads, Publish(t) PROVE SlotInv'
  BY <1>11, HostIsFixed DEF Publish, Resume, Goto, host, shim, counters, history, TypeInv, TypeOK, SlotInv, AnswersAreTheHosts
<1>12. ASSUME NEW t \in Threads, Patch(t) PROVE SlotInv'
  <2>1. entry[t] \in Entries /\ glfwd_load_state = 2
    BY <1>12 DEF Patch, TypeInv, PassInv, Past
  <2>2. Found(entry[t]) = HostAnswer(entry[t])
    BY <2>1, FoundIsTheHosts
  <2>3. HostAnswer(entry[t]) # "resolver"
    BY DEF HostAnswer
  <2>4. \A i \in Entries : glfwd_tab'[i] \in {"resolver", HostAnswer(i)}
    BY <1>12, <2>1, <2>2 DEF Patch, TypeInv, TypeOK, SlotInv
  <2>5. \A i \in Entries : answers'[i] \subseteq {HostAnswer(i)}
    BY <1>12, <2>1, <2>2 DEF Patch, Answer, TypeInv, TypeOK, SlotInv, AnswersAreTheHosts
  <2>6. \A i \in Entries : glfwd_tab[i] # "resolver" => glfwd_tab'[i] # "resolver"
    BY <1>12, <2>1, <2>2, <2>3 DEF Patch, TypeInv, TypeOK
  <2>7. entry' = entry /\ (pc'[t] \in {"count_fwd", "count_absent"} =>
          glfwd_tab'[entry[t]] # "resolver")
    BY <1>12, <2>1, <2>2, <2>3 DEF Patch, Answer, Goto, TypeInv, TypeOK
  <2>8. \A u \in Threads : u # t => pc'[u] = pc[u]
    BY <1>12 DEF Patch, Answer, Goto, TypeInv, TypeOK
  <2>9. \A u \in Threads :
          pc'[u] \in {"count_fwd", "count_absent"} => glfwd_tab'[entry'[u]] # "resolver"
    BY <2>6, <2>7, <2>8 DEF SlotInv, TypeInv
  <2> QED
    BY <2>4, <2>5, <2>9, HostIsFixed DEF SlotInv, AnswersAreTheHosts
<1>13. ASSUME NEW t \in Threads, CountCall(t) PROVE SlotInv'
  <2>1. entry[t] \in Entries /\ glfwd_load_state = 2
    BY <1>13 DEF CountCall, TypeInv, PassInv, Past
  <2>2. Found(entry[t]) = HostAnswer(entry[t])
    BY <2>1, FoundIsTheHosts
  <2>3. \A i \in Entries : answers'[i] \subseteq {HostAnswer(i)}
    BY <1>13, <2>1, <2>2 DEF CountCall, Answer, TypeInv, TypeOK, SlotInv, AnswersAreTheHosts
  <2>4. /\ glfwd_tab' = glfwd_tab /\ entry' = entry
        /\ \A u \in Threads : pc'[u] \in {"count_fwd", "count_absent"} => pc'[u] = pc[u]
    BY <1>13 DEF CountCall, Answer, Goto, TypeInv, TypeOK
  <2> QED
    BY <2>3, <2>4, HostIsFixed DEF SlotInv, AnswersAreTheHosts
<1>14. ASSUME NEW t \in Threads, Store(t) PROVE SlotInv'
  <2>1. pos[t] \in Entries /\ glfwd_load_state = 2
    BY <1>14 DEF Store, TypeInv, TypeOK, PassInv, Past
  <2>2. Found(pos[t]) = HostAnswer(pos[t])
    BY <2>1, FoundIsTheHosts
  <2>3. HostAnswer(pos[t]) # "resolver"
    BY DEF HostAnswer
  <2>4. \A i \in Entries : glfwd_tab'[i] \in {"resolver", HostAnswer(i)}
    BY <1>14, <2>1, <2>2 DEF Store, TypeInv, TypeOK, SlotInv
  <2>5. \A i \in Entries : glfwd_tab[i] # "resolver" => glfwd_tab'[i] # "resolver"
    BY <1>14, <2>1, <2>2, <2>3 DEF Store, TypeInv, TypeOK
  <2>6. /\ entry' = entry /\ answers' = answers
        /\ \A u \in Threads : pc'[u] \in {"count_fwd", "count_absent"} => pc'[u] = pc[u]
    BY <1>14 DEF Store, Goto, TypeInv, TypeOK, history
  <2> QED
    BY <2>4, <2>5, <2>6, HostIsFixed DEF SlotInv, AnswersAreTheHosts, TypeInv
<1>15. ASSUME NEW t \in Threads, OpenPlugin(t) PROVE SlotInv'
  BY <1>15, HostIsFixed DEF OpenPlugin, host, shim, counters, history, TypeInv, TypeOK, SlotInv, AnswersAreTheHosts
<1>16. ASSUME NEW t \in Threads, PluginOpened(t) PROVE SlotInv'
  BY <1>16, HostIsFixed DEF PluginOpened, host, shim, counters, history, TypeInv, TypeOK, SlotInv, AnswersAreTheHosts
<1>17. CASE UNCHANGED vars
  BY <1>17, HostIsFixed DEF vars, host, shim, counters, history, SlotInv, AnswersAreTheHosts
<1> QED
  BY <1>1, <1>2, <1>3, <1>4, <1>5, <1>6, <1>7, <1>8, <1>9, <1>10, <1>11,
     <1>12, <1>13, <1>14, <1>15, <1>16, <1>17 DEF Next, Step

\* The inductive invariant: types, the single loader, the pass and the slots.
IInv == TypeInv /\ OneLoader /\ PassInv /\ SlotInv

\* All of it holds in every reachable state.
LEMMA Invariant == Spec => []IInv
<1>1. Init => SlotInv
  <2> SUFFICES ASSUME Init PROVE SlotInv
    OBVIOUS
  <2> QED
    BY DEF Init, SlotInv, AnswersAreTheHosts
<1>2. TypeInv /\ OneLoader /\ PassInv /\ SlotInv /\ [Next]_vars => SlotInv'
  BY SlotStep
<1> QED
  BY <1>1, <1>2, TypeInvariant, PassInvariant, PTL DEF Spec, IInv

\* Every answer is what the host implements, on any number of threads and entry
\* points and whatever call came from inside the load.
THEOREM AnswersAreRight == Spec => []AnswersAreTheHosts
<1>1. IInv => AnswersAreTheHosts
  BY DEF IInv, SlotInv
<1> QED
  BY <1>1, Invariant, PTL

------------------------------------------------------------------------------
\* A step of the compare-exchange's or the constructor's either keeps the slots or
\* binds one that is still at the resolver to what the host has.
Binds(e) ==
  /\ glfwd_tab[e] = "resolver"
  /\ glfwd_tab' = [glfwd_tab EXCEPT ![e] = HostAnswer(e)]

\* A step that changes the slots is one of these.
LEMMA PatchBinds ==
  ASSUME IInv, NEW t \in Threads, Patch(t)
  PROVE  /\ entry[t] \in Entries
         /\ \/ Binds(entry[t]) /\ UNCHANGED answers
            \/ /\ UNCHANGED glfwd_tab
               /\ glfwd_tab[entry[t]] # "resolver"
               /\ answers' = [answers EXCEPT ![entry[t]] = @ \cup {glfwd_tab[entry[t]]}]
<1>1. entry[t] \in Entries /\ glfwd_load_state = 2
  BY LocationsElements DEF Patch, IInv, TypeInv, PassInv, Past
<1>2. Found(entry[t]) = HostAnswer(entry[t])
  BY <1>1, FoundIsTheHosts DEF IInv
<1>3. CASE glfwd_tab[entry[t]] = "resolver"
  BY <1>1, <1>2, <1>3 DEF Patch, Binds
<1>4. CASE glfwd_tab[entry[t]] # "resolver"
  <2>1. glfwd_tab[entry[t]] = HostAnswer(entry[t])
    BY <1>1, <1>4 DEF IInv, SlotInv
  <2> QED
    BY <1>1, <1>2, <1>4, <2>1 DEF Patch, Answer
<1> QED
  BY <1>3, <1>4

\* The eager constructor's stores agree with the first calls' compare-exchanges.
LEMMA StoreBinds ==
  ASSUME IInv, NEW t \in Threads, Store(t)
  PROVE  /\ pos[t] \in Entries
         /\ UNCHANGED answers
         /\ Binds(pos[t]) \/ UNCHANGED glfwd_tab
<1>1. pos[t] \in Entries /\ glfwd_load_state = 2
  BY LocationsElements DEF Store, IInv, TypeInv, TypeOK, PassInv, Past
<1>2. Found(pos[t]) = HostAnswer(pos[t])
  BY <1>1, FoundIsTheHosts DEF IInv
<1>3. glfwd_tab \in [Entries -> Address \cup {"resolver"}]
  BY DEF IInv, TypeInv, TypeOK
<1>4. glfwd_tab[pos[t]] \in {"resolver", HostAnswer(pos[t])}
  BY <1>1 DEF IInv, SlotInv
<1>5. answers' = answers
  BY DEF Store, history
<1>6. CASE HostAnswer(pos[t]) = "absent"
  <2>1. glfwd_tab' = [glfwd_tab EXCEPT ![pos[t]] = glfwd_tab[pos[t]]]
    BY <1>2, <1>6 DEF Store
  <2> QED
    BY <1>1, <1>3, <1>5, <2>1
<1>7. CASE HostAnswer(pos[t]) # "absent"
  <2>1. glfwd_tab' = [glfwd_tab EXCEPT ![pos[t]] = HostAnswer(pos[t])]
    BY <1>2, <1>7 DEF Store
  <2> QED
    BY <1>1, <1>3, <1>4, <1>5, <2>1 DEF Binds
<1> QED
  BY <1>6, <1>7

\* The trampoline and the counting return what the slot holds.
LEMMA ReturnsTheSlot ==
  ASSUME IInv, NEW t \in Threads, CountCall(t)
  PROVE  /\ entry[t] \in Entries
         /\ UNCHANGED glfwd_tab
         /\ glfwd_tab[entry[t]] # "resolver"
         /\ answers' = [answers EXCEPT ![entry[t]] = @ \cup {glfwd_tab[entry[t]]}]
<1>1. entry[t] \in Entries /\ glfwd_load_state = 2 /\ glfwd_tab[entry[t]] # "resolver"
  BY LocationsElements DEF CountCall, IInv, TypeInv, PassInv, Past, SlotInv
<1>2. Found(entry[t]) = HostAnswer(entry[t])
  BY <1>1, FoundIsTheHosts DEF IInv
<1>3. glfwd_tab[entry[t]] = HostAnswer(entry[t])
  BY <1>1 DEF IInv, SlotInv
<1> QED
  BY <1>1, <1>2, <1>3 DEF CountCall, Answer

\* The steps of everything else: the slots and the answers stay.
LEMMA QuietSteps ==
  ASSUME NEW t \in Threads,
         \/ EagerInit(t) \/ Ensure(t) \/ Claim(t) \/ Wait(t) \/ OpenTarget(t)
         \/ (\E e \in Entries : Reenter(t, e))
         \/ TargetOpened(t) \/ Alloc(t) \/ Fill(t) \/ Publish(t)
         \/ OpenPlugin(t) \/ PluginOpened(t)
  PROVE  UNCHANGED <<glfwd_tab, answers>>
  BY DEF EagerInit, Ensure, Claim, Wait, OpenTarget, Reenter, TargetOpened, Alloc,
     Fill, Publish, OpenPlugin, PluginOpened, history

\* Every step binds one name, returns one slot, or is not seen by a caller.
LEMMA StepBinds ==
  ASSUME IInv, [Next]_vars
  PROVE  \/ \E e \in Entries : Binds(e) /\ UNCHANGED answers
         \/ \E e \in Entries :
              /\ glfwd_tab[e] # "resolver"
              /\ answers' = [answers EXCEPT ![e] = @ \cup {glfwd_tab[e]}]
              /\ UNCHANGED glfwd_tab
         \/ UNCHANGED <<glfwd_tab, answers>>
<1>1. ASSUME NEW t \in Threads, NEW e \in Entries, Call(t, e)
      PROVE  \/ /\ glfwd_tab[e] # "resolver"
                /\ answers' = [answers EXCEPT ![e] = @ \cup {glfwd_tab[e]}]
                /\ UNCHANGED glfwd_tab
             \/ UNCHANGED <<glfwd_tab, answers>>
  BY <1>1 DEF Call, Answer
<1>2. CASE UNCHANGED vars
  BY <1>2 DEF vars, history
<1>3. ASSUME NEW t \in Threads, Step(t) \/ EagerInit(t) \/ OpenPlugin(t)
                                \/ \E e \in Entries : Reenter(t, e)
      PROVE  \/ Patch(t) \/ Store(t) \/ CountCall(t)
             \/ UNCHANGED <<glfwd_tab, answers>>
  BY <1>3, QuietSteps DEF Step
<1> QED
  BY <1>1, <1>2, <1>3, PatchBinds, StoreBinds, ReturnsTheSlot DEF Next

\* "A slot is written exactly once, by the first call to that name": the eager
\* constructor's plain stores and the callers' compare-exchanges included.
THEOREM SlotsAreWrittenOnce == Spec => SlotsSettle
<1>1. ASSUME IInv, [Next]_vars, NEW e \in Entries, glfwd_tab[e] # "resolver"
      PROVE  glfwd_tab'[e] = glfwd_tab[e]
  BY <1>1, StepBinds DEF Binds, IInv, TypeInv, TypeOK
<1>2. IInv /\ [Next]_vars =>
        [\A e \in Entries : glfwd_tab[e] # "resolver" => glfwd_tab'[e] = glfwd_tab[e]]_vars
  BY <1>1
<1> QED
  BY <1>2, Invariant, PTL DEF Spec, SlotsSettle

------------------------------------------------------------------------------
\* The two sets that the counters are compared with.
In(l) == {t \in Threads : pc[t] = l}
Slots(a) == {e \in Entries : glfwd_tab[e] = a}

\* Their sizes are numbers.
LEMMA CountsAreNumbers ==
  /\ \A l : IsFiniteSet(In(l)) /\ Cardinality(In(l)) \in Nat
  /\ \A a : IsFiniteSet(Slots(a)) /\ Cardinality(Slots(a)) \in Nat
<1>1. IsFiniteSet(Entries)
  BY FS_Interval, CountAssumption DEF Entries
<1>2. ASSUME NEW l PROVE IsFiniteSet(In(l)) /\ Cardinality(In(l)) \in Nat
  <2>1. In(l) \in SUBSET Threads
    BY DEF In
  <2> QED
    BY <2>1, ThreadsAssumption, FS_Subset, FS_CardinalityType
<1>3. ASSUME NEW a PROVE IsFiniteSet(Slots(a)) /\ Cardinality(Slots(a)) \in Nat
  <2>1. Slots(a) \in SUBSET Entries
    BY DEF Slots
  <2> QED
    BY <1>1, <2>1, FS_Subset, FS_CardinalityType
<1> QED
  BY <1>2, <1>3

\* One more and one less.
LEMMA OneMore ==
  ASSUME NEW S, IsFiniteSet(S), NEW x, x \notin S
  PROVE  Cardinality(S \cup {x}) = Cardinality(S) + 1
  BY FS_AddElement

LEMMA OneLess ==
  ASSUME NEW S, IsFiniteSet(S), NEW x \in S
  PROVE  Cardinality(S \ {x}) = Cardinality(S) - 1
  BY FS_RemoveElement

\* CountsAreNames, said of the two sets.
Counts ==
  /\ glfwd_called_absent + Cardinality(In("count_absent")) = Cardinality(Slots("absent"))
  /\ glfwd_called_fwd + Cardinality(In("count_fwd")) <= Cardinality(Slots("address"))

\* Who wins the compare-exchange goes to count the name whose slot it has moved;
\* who loses it goes home with nothing to count.
LEMMA PatchCountsOne ==
  ASSUME IInv, Counts, NEW t \in Threads, Patch(t)
  PROVE  Counts'
<1> DEFINE e == entry[t]
           a == HostAnswer(e)
           l == IF a = "absent" THEN "count_absent" ELSE "count_fwd"
<1>1. e \in Entries /\ Found(e) = a
  BY FoundIsTheHosts, LocationsElements DEF Patch, IInv, TypeInv, PassInv, Past
<1>2. a \in {"absent", "address"}
  BY DEF HostAnswer
<1>3. UNCHANGED counters
  BY DEF Patch
<1>4. /\ pc \in [Threads -> Locations] /\ pc[t] = "patch"
      /\ glfwd_tab \in [Entries -> Address \cup {"resolver"}]
  BY DEF Patch, IInv, TypeInv, TypeOK
<1>5. CASE glfwd_tab[e] = "resolver"
  <2>1. pc' = [pc EXCEPT ![t] = l] /\ glfwd_tab' = [glfwd_tab EXCEPT ![e] = a]
    BY <1>1, <1>5 DEF Patch, Goto
  <2>2. CASE a = "absent"
    <3>1. /\ In("count_absent")' = In("count_absent") \cup {t} /\ t \notin In("count_absent")
          /\ In("count_fwd")' = In("count_fwd")
      BY <1>4, <2>1, <2>2 DEF In
    <3>2. /\ Slots("absent")' = Slots("absent") \cup {e} /\ e \notin Slots("absent")
          /\ Slots("address")' = Slots("address")
      BY <1>1, <1>4, <1>5, <2>1, <2>2 DEF Slots
    <3>3. /\ Cardinality(In("count_absent")') = Cardinality(In("count_absent")) + 1
          /\ Cardinality(Slots("absent")') = Cardinality(Slots("absent")) + 1
      BY <3>1, <3>2, OneMore, CountsAreNumbers
    <3> QED
      BY <1>3, <3>1, <3>2, <3>3, CountsAreNumbers DEF Counts, counters, IInv, TypeInv, TypeOK
  <2>3. CASE a = "address"
    <3>1. /\ In("count_fwd")' = In("count_fwd") \cup {t} /\ t \notin In("count_fwd")
          /\ In("count_absent")' = In("count_absent")
      BY <1>4, <2>1, <2>3 DEF In
    <3>2. /\ Slots("address")' = Slots("address") \cup {e} /\ e \notin Slots("address")
          /\ Slots("absent")' = Slots("absent")
      BY <1>1, <1>4, <1>5, <2>1, <2>3 DEF Slots
    <3>3. /\ Cardinality(In("count_fwd")') = Cardinality(In("count_fwd")) + 1
          /\ Cardinality(Slots("address")') = Cardinality(Slots("address")) + 1
      BY <3>1, <3>2, OneMore, CountsAreNumbers
    <3> QED
      BY <1>3, <3>1, <3>2, <3>3, CountsAreNumbers DEF Counts, counters, IInv, TypeInv, TypeOK
  <2> QED
    BY <1>2, <2>2, <2>3
<1>6. CASE glfwd_tab[e] # "resolver"
  <2>1. pc' = [pc EXCEPT ![t] = "idle"] /\ UNCHANGED glfwd_tab
    BY <1>6 DEF Patch, Answer, Goto
  <2>2. /\ In("count_absent")' = In("count_absent") /\ In("count_fwd")' = In("count_fwd")
        /\ Slots("absent")' = Slots("absent") /\ Slots("address")' = Slots("address")
    BY <1>4, <2>1 DEF In, Slots
  <2> QED
    BY <1>3, <2>2 DEF Counts, counters
<1> QED
  BY <1>5, <1>6

\* Counting takes one thread off and puts one on the counter.
LEMMA CountCallCounts ==
  ASSUME IInv, Counts, NEW t \in Threads, CountCall(t)
  PROVE  Counts'
<1>1. pc \in [Threads -> Locations] /\ glfwd_called_fwd \in Nat /\ glfwd_called_absent \in Nat
  BY DEF IInv, TypeInv, TypeOK
<1>2. pc' = [pc EXCEPT ![t] = "idle"] /\ UNCHANGED glfwd_tab
  BY DEF CountCall, Answer, Goto
<1>3. \A a : Slots(a)' = Slots(a)
  BY <1>2 DEF Slots
<1>4. CASE pc[t] = "count_fwd"
  <2>1. glfwd_called_fwd' = glfwd_called_fwd + 1 /\ UNCHANGED glfwd_called_absent
    BY <1>4 DEF CountCall
  <2>2. /\ In("count_fwd")' = In("count_fwd") \ {t} /\ t \in In("count_fwd")
        /\ In("count_absent")' = In("count_absent")
    BY <1>1, <1>2, <1>4 DEF In
  <2>3. Cardinality(In("count_fwd")') = Cardinality(In("count_fwd")) - 1
    BY <2>2, OneLess, CountsAreNumbers
  <2> QED
    BY <1>1, <1>3, <2>1, <2>2, <2>3, CountsAreNumbers DEF Counts
<1>5. CASE pc[t] = "count_absent"
  <2>1. glfwd_called_absent' = glfwd_called_absent + 1 /\ UNCHANGED glfwd_called_fwd
    BY <1>5 DEF CountCall
  <2>2. /\ In("count_absent")' = In("count_absent") \ {t} /\ t \in In("count_absent")
        /\ In("count_fwd")' = In("count_fwd")
    BY <1>1, <1>2, <1>5 DEF In
  <2>3. Cardinality(In("count_absent")') = Cardinality(In("count_absent")) - 1
    BY <2>2, OneLess, CountsAreNumbers
  <2> QED
    BY <1>1, <1>3, <2>1, <2>2, <2>3, CountsAreNumbers DEF Counts
<1> QED
  BY <1>4, <1>5 DEF CountCall

\* The eager constructor counts nothing, and never makes a name absent.
LEMMA StoreCountsNone ==
  ASSUME IInv, Counts, NEW t \in Threads, Store(t)
  PROVE  Counts'
<1> DEFINE e == pos[t]
<1>1. e \in Entries /\ Found(e) = HostAnswer(e)
  BY FoundIsTheHosts, LocationsElements DEF Store, IInv, TypeInv, TypeOK, PassInv, Past
<1>2. /\ pc \in [Threads -> Locations] /\ pc[t] = "store"
      /\ glfwd_tab \in [Entries -> Address \cup {"resolver"}]
  BY DEF Store, IInv, TypeInv, TypeOK
<1>3. In("count_absent")' = In("count_absent") /\ In("count_fwd")' = In("count_fwd")
  BY <1>2 DEF Store, Goto, In
<1>4. UNCHANGED counters
  BY DEF Store
<1>5. CASE UNCHANGED glfwd_tab
  BY <1>3, <1>4, <1>5 DEF Counts, counters, Slots
<1>6. CASE ~UNCHANGED glfwd_tab
  <2>1. Binds(e)
    BY <1>6, StoreBinds
  <2>2. HostAnswer(e) = "address"
    BY <1>1, <1>2, <1>6 DEF Store, HostAnswer
  <2>3. /\ Slots("address")' = Slots("address") \cup {e} /\ e \notin Slots("address")
        /\ Slots("absent")' = Slots("absent")
    BY <1>1, <1>2, <2>1, <2>2 DEF Binds, Slots
  <2>4. Cardinality(Slots("address")') = Cardinality(Slots("address")) + 1
    BY <2>3, OneMore, CountsAreNumbers
  <2> QED
    BY <1>3, <1>4, <2>3, <2>4, CountsAreNumbers DEF Counts, counters, IInv, TypeInv, TypeOK
<1> QED
  BY <1>5, <1>6

\* The other steps move no thread to or from the counting and write no slot.
LEMMA OthersCountNone ==
  ASSUME IInv, Counts, NEW t \in Threads,
         \/ EagerInit(t) \/ Ensure(t) \/ Claim(t) \/ Wait(t) \/ OpenTarget(t)
         \/ (\E e \in Entries : Reenter(t, e) \/ Call(t, e))
         \/ TargetOpened(t) \/ Alloc(t) \/ Fill(t) \/ Publish(t)
         \/ OpenPlugin(t) \/ PluginOpened(t)
  PROVE  Counts'
<1>1. UNCHANGED <<glfwd_tab, counters>>
  BY DEF EagerInit, Ensure, Claim, Wait, OpenTarget, Reenter, TargetOpened, Alloc,
     Fill, Publish, OpenPlugin, PluginOpened, Call
<1>2. pc \in [Threads -> Locations]
  BY DEF IInv, TypeInv, TypeOK
<1>3. /\ \A u \in Threads : u # t => pc'[u] = pc[u]
      /\ pc[t] \notin {"count_absent", "count_fwd"} \/ pc' = pc
      /\ pc'[t] \notin {"count_absent", "count_fwd"} \/ pc' = pc
  BY <1>2 DEF EagerInit, Ensure, Resume, Claim, Wait, OpenTarget, Reenter, TargetOpened,
     Alloc, Fill, Publish, OpenPlugin, PluginOpened, Call, Answer, Goto
<1>4. In("count_absent")' = In("count_absent") /\ In("count_fwd")' = In("count_fwd")
  BY <1>3 DEF In
<1> QED
  BY <1>1, <1>4 DEF Counts, counters, Slots

\* "a measurement that can exceed its own denominator": the names counted are the
\* names bound, each once, on any number of threads that make the first call of
\* one together, and with the eager constructor storing beside them.
THEOREM NamesAreCountedOnce == Spec => []CountsAreNames
<1>1. Init => Counts
  <2> SUFFICES ASSUME Init PROVE Counts
    OBVIOUS
  <2>1. /\ In("count_absent") = {} /\ In("count_fwd") = {}
        /\ Slots("absent") = {} /\ Slots("address") = {}
    BY DEF Init, In, Slots
  <2>2. glfwd_called_absent = 0 /\ glfwd_called_fwd = 0
    BY DEF Init
  <2>3. /\ Cardinality(In("count_absent")) = 0 /\ Cardinality(In("count_fwd")) = 0
        /\ Cardinality(Slots("absent")) = 0 /\ Cardinality(Slots("address")) = 0
    BY <2>1, FS_EmptySet
  <2> QED
    BY <2>2, <2>3 DEF Counts
<1>2. IInv /\ Counts /\ [Next]_vars => Counts'
  <2> SUFFICES ASSUME IInv, Counts, [Next]_vars PROVE Counts'
    OBVIOUS
  <2>1. CASE UNCHANGED vars
    BY <2>1 DEF vars, counters, Counts, In, Slots
  <2> QED
    BY <2>1, PatchCountsOne, CountCallCounts, StoreCountsNone, OthersCountNone DEF Next, Step
<1>3. Counts => CountsAreNames
  BY DEF Counts, CountsAreNames, Counting, In, Slots
<1> QED
  BY <1>1, <1>2, <1>3, Invariant, PTL DEF Spec

------------------------------------------------------------------------------
\* The shim implements GlBinding: with the load, the table and the threads hidden,
\* each name is bound once and every call gets its binding.
THEOREM ShimImplementsBinding == Spec => ImplementsBinding
<1>1. Init => Abs!Init
  BY DEF Init, Abs!Init, Implemented, usable, memory
<1>2. IInv /\ [Next]_vars => [Abs!Next]_(Abs!vars)
  <2> SUFFICES ASSUME IInv, [Next]_vars
               PROVE  [Abs!Next]_(Abs!vars)
    OBVIOUS
  <2>1. Implemented' = Implemented
    BY HostIsFixed DEF Implemented, usable, memory
  <2>2. ASSUME NEW e \in Entries, Binds(e), UNCHANGED answers
        PROVE  Abs!Bind(e)
    BY <2>1, <2>2 DEF Abs!Bind, Binds, HostAnswer
  <2>3. ASSUME NEW e \in Entries, glfwd_tab[e] # "resolver", UNCHANGED glfwd_tab,
               answers' = [answers EXCEPT ![e] = @ \cup {glfwd_tab[e]}]
        PROVE  Abs!Return(e)
    BY <2>1, <2>3 DEF Abs!Return
  <2>4. CASE UNCHANGED <<glfwd_tab, answers>>
    BY <2>1, <2>4 DEF Abs!vars
  <2> QED
    BY <2>2, <2>3, <2>4, StepBinds DEF Abs!Next
<1> QED
  BY <1>1, <1>2, Invariant, PTL DEF Spec, ImplementsBinding, Abs!Spec
==============================================================================
