-------------------------- MODULE FgnReentryProofs --------------------------
(***************************************************************************)
(* The provider table of FgnReentry, for any threads, files, table size,   *)
(* depth and number of opens inside opens: fgn_provider_lock covers the    *)
(* search, the entry and the question together, so no file gets two        *)
(* entries and none is written past the end.                               *)
(*                                                                         *)
(* The lock has no owner, so the invariant says whose it is: the thread    *)
(* whose innermost load is inside fgn_provider_for.  A load that has       *)
(* opened something in between is not, since nothing there runs            *)
(* constructors; that is what lets a thread come back to it with the table *)
(* changed by others.                                                      *)
(***************************************************************************)
EXTENDS FgnReentry, SequenceTheorems, TLAPS

InTable == {"search", "add", "ask"}
Outside == {"scan", "scan_ask", "get", "noload", "plain", "opened", "walk",
            "require", "put", "ctor"}
Labels == InTable \cup Outside

Frames == [at : Labels, depth : 0 .. MaxDepth - 1, canon : (Threads \X Nat) \cup {NoPath},
           files : SUBSET Files, want : Files \cup {NoFile}, deps : Nat]

TypeInv ==
  /\ calls \in [Threads -> Seq(Frames)]
  /\ opens \in [Threads -> Nat]
  /\ fgn_provider_lock \in {0, 1}
  /\ fgn_provider_files \in 0 .. FGN_PROV_FILES
  /\ fgn_providers \in [1 .. FGN_PROV_FILES -> Files \cup {NoFile}]

\* A load that has called something is not inside fgn_provider_for.
BuriedOutside ==
  \A t \in Threads : \A i \in 1 .. Len(calls[t]) - 1 : calls[t][i].at \in Outside

Holds(t) == calls[t] # <<>> /\ Top(t).at \in InTable

LockCovers ==
  /\ \A t \in Threads : Holds(t) => fgn_provider_lock = 1
  /\ \A t, u \in Threads : Holds(t) /\ Holds(u) => t = u

\* What the search has found still stands when the entry is written.
RoomForNew ==
  \A t \in Threads : At(t, "add") =>
    fgn_provider_files < FGN_PROV_FILES /\ ~Entry(Top(t).want)

Distinct ==
  \A i, j \in 1 .. fgn_provider_files : fgn_providers[i] = fgn_providers[j] => i = j

TableInv == TypeInv /\ BuriedOutside /\ LockCovers /\ RoomForNew /\ Distinct

------------------------------------------------------------------------------
(* The calls' operators.                                                   *)

LEMMA LoadIsFrame ==
  ASSUME TypeInv, NEW t \in Threads, NEW l \in Labels, NEW d \in 0 .. MaxDepth - 1
  PROVE  Load(t, l, d) \in Frames
BY LimitsAssumption DEF TypeInv, Load, Frames

LEMMA CtorIsFrame == Ctor \in Frames
BY LimitsAssumption DEF Ctor, Frames, Labels, Outside

LEMMA TopIsFrame ==
  ASSUME TypeInv, NEW t \in Threads, calls[t] # <<>>
  PROVE  Top(t) \in Frames /\ Len(calls[t]) \in Nat \ {0}
<1>1. calls[t] \in Seq(Frames)
  BY DEF TypeInv
<1> QED BY <1>1 DEF Top

\* A thread none of whose frames is inside fgn_provider_for.
Clear(t) == \A i \in 1 .. Len(calls[t]) : calls[t][i].at \in Outside

LEMMA TopOutsideIsClear ==
  ASSUME TypeInv, BuriedOutside, NEW t \in Threads,
         calls[t] = <<>> \/ Top(t).at \in Outside
  PROVE  Clear(t)
<1>1. calls[t] \in Seq(Frames)
  BY DEF TypeInv
<1>2. SUFFICES ASSUME NEW i \in 1 .. Len(calls[t])
               PROVE  calls[t][i].at \in Outside
  BY DEF Clear
<1>3. CASE i = Len(calls[t])
  BY <1>1, <1>3 DEF Top
<1>4. CASE i # Len(calls[t])
  BY <1>1, <1>4 DEF BuriedOutside
<1> QED BY <1>3, <1>4

\* A thread that is not inside fgn_provider_for and does not enter it leaves the
\* table's invariant alone, whatever it calls and wherever it returns to.
LEMMA QuietStep ==
  ASSUME TableInv, NEW t \in Threads, Clear(t), NEW s \in Seq(Frames),
         calls' = [calls EXCEPT ![t] = s],
         \A i \in 1 .. Len(s) : s[i].at \in Outside,
         opens' \in [Threads -> Nat],
         UNCHANGED <<fgn_provider_lock, table>>
  PROVE  TableInv'
<1> USE DEF TableInv, TypeInv
<1>1. /\ calls'[t] = s
      /\ \A u \in Threads \ {t} : calls'[u] = calls[u]
  OBVIOUS
<1>2. TypeInv'
  BY DEF table
<1>3. BuriedOutside'
  BY <1>1 DEF BuriedOutside
<1>4. ~Holds(t)'
  <2>1. SUFFICES ASSUME s # <<>>
                 PROVE  s[Len(s)].at \notin InTable
    BY <1>1 DEF Holds, Top
  <2>2. Len(s) \in 1 .. Len(s)
    BY <2>1
  <2>3. s[Len(s)].at \in Outside
    BY <2>2
  <2> QED BY <2>3 DEF InTable, Outside
<1>5. \A u \in Threads \ {t} : Holds(u)' <=> Holds(u)
  BY <1>1 DEF Holds, Top
<1>6. LockCovers'
  BY <1>4, <1>5 DEF LockCovers
<1>7. ~At(t, "add")'
  BY <1>4 DEF Holds, At, InTable
<1>8. \A u \in Threads \ {t} : At(u, "add")' => At(u, "add") /\ Top(u)' = Top(u)
  BY <1>1 DEF At, Top
<1>9. RoomForNew'
  BY <1>7, <1>8 DEF RoomForNew, Entry, table
<1>10. Distinct'
  BY DEF Distinct, table
<1> QED BY <1>2, <1>3, <1>6, <1>9, <1>10

\* The three ways in which the innermost load changes while its thread stays
\* outside: it goes on,
LEMMA QuietTop ==
  ASSUME TableInv, NEW t \in Threads, Clear(t), calls[t] # <<>>,
         NEW f \in Frames, f.at \in Outside, SetTop(t, f),
         opens' \in [Threads -> Nat], UNCHANGED <<fgn_provider_lock, table>>
  PROVE  TableInv'
<1> DEFINE s == [calls[t] EXCEPT ![Len(calls[t])] = f]
<1>1. calls[t] \in Seq(Frames)
  BY DEF TableInv, TypeInv
<1>2. s \in Seq(Frames) /\ Len(s) = Len(calls[t])
  BY <1>1
<1>3. \A i \in 1 .. Len(s) : s[i].at \in Outside
  BY <1>1, <1>2 DEF Clear
<1>4. calls' = [calls EXCEPT ![t] = s]
  BY DEF SetTop
<1> HIDE DEF s
<1> QED BY <1>2, <1>3, <1>4, QuietStep

\* it calls something,
LEMMA QuietPush ==
  ASSUME TableInv, NEW t \in Threads, Clear(t), calls[t] # <<>>,
         NEW f \in Frames, f.at \in Outside, NEW g \in Frames, g.at \in Outside,
         Push(t, f, g),
         opens' \in [Threads -> Nat], UNCHANGED <<fgn_provider_lock, table>>
  PROVE  TableInv'
<1> DEFINE r == [calls[t] EXCEPT ![Len(calls[t])] = f]
           s == Append(r, g)
<1>1. calls[t] \in Seq(Frames)
  BY DEF TableInv, TypeInv
<1>2. r \in Seq(Frames) /\ Len(r) = Len(calls[t])
  BY <1>1
<1>3. \A i \in 1 .. Len(r) : r[i].at \in Outside
  BY <1>1, <1>2 DEF Clear
<1>4. calls' = [calls EXCEPT ![t] = s]
  BY DEF Push
<1> HIDE DEF r
<1>5. /\ s \in Seq(Frames) /\ Len(s) = Len(r) + 1
      /\ \A i \in 1 .. Len(s) : s[i] = IF i = Len(r) + 1 THEN g ELSE r[i]
  BY <1>2
<1>6. \A i \in 1 .. Len(s) : s[i].at \in Outside
  BY <1>2, <1>3, <1>5
<1> HIDE DEF s
<1> QED BY <1>4, <1>5, <1>6, QuietStep

\* or it returns.
LEMMA QuietReturn ==
  ASSUME TableInv, NEW t \in Threads, Clear(t), calls[t] # <<>>, Return(t),
         opens' \in [Threads -> Nat], UNCHANGED <<fgn_provider_lock, table>>
  PROVE  TableInv'
<1> DEFINE s == SubSeq(calls[t], 1, Len(calls[t]) - 1)
<1>1. calls[t] \in Seq(Frames)
  BY DEF TableInv, TypeInv
<1>2. /\ s \in Seq(Frames)
      /\ Len(s) = Len(calls[t]) - 1
      /\ \A i \in 1 .. Len(s) : s[i] = calls[t][i]
  BY <1>1
<1>3. \A i \in 1 .. Len(s) : s[i].at \in Outside
  BY <1>1, <1>2 DEF Clear
<1>4. calls' = [calls EXCEPT ![t] = s]
  BY DEF Return
<1> HIDE DEF s
<1> QED BY <1>2, <1>3, <1>4, QuietStep

\* A step of the innermost load changes nothing of the others, and nothing below
\* it on its own thread.
LEMMA TopStep ==
  ASSUME TableInv, NEW t \in Threads, calls[t] # <<>>, NEW f \in Frames, SetTop(t, f)
  PROVE  /\ calls' \in [Threads -> Seq(Frames)]
         /\ calls'[t] # <<>> /\ Top(t)' = f
         /\ BuriedOutside'
         /\ \A u \in Threads \ {t} : /\ Holds(u)' <=> Holds(u)
                                     /\ At(u, "add")' <=> At(u, "add")
                                     /\ Top(u)' = Top(u)
<1> DEFINE s == [calls[t] EXCEPT ![Len(calls[t])] = f]
<1>1. calls \in [Threads -> Seq(Frames)]
  BY DEF TableInv, TypeInv
<1>2. /\ s \in Seq(Frames) /\ Len(s) = Len(calls[t]) /\ s # <<>>
      /\ s[Len(s)] = f
      /\ \A i \in 1 .. Len(s) - 1 : s[i] = calls[t][i]
  BY <1>1
<1>3. calls' = [calls EXCEPT ![t] = s]
  BY DEF SetTop
<1> HIDE DEF s
<1>4. calls'[t] = s /\ \A u \in Threads \ {t} : calls'[u] = calls[u]
  BY <1>1, <1>3
<1>5. calls' \in [Threads -> Seq(Frames)]
  BY <1>1, <1>2, <1>3
<1>6. calls'[t] # <<>> /\ Top(t)' = f
  BY <1>2, <1>4 DEF Top
<1>7. BuriedOutside'
  BY <1>2, <1>4 DEF TableInv, BuriedOutside
<1>8. \A u \in Threads \ {t} : /\ Holds(u)' <=> Holds(u)
                               /\ At(u, "add")' <=> At(u, "add")
                               /\ Top(u)' = Top(u)
  BY <1>4 DEF Holds, At, Top
<1> QED BY <1>5, <1>6, <1>7, <1>8

------------------------------------------------------------------------------
LEMMA TableInit == Init => TableInv
<1> SUFFICES ASSUME Init PROVE TableInv
  OBVIOUS
<1>1. TypeInv
  BY LimitsAssumption DEF Init, TypeInv
<1>2. \A t \in Threads : calls[t] = <<>>
  BY DEF Init
<1>3. BuriedOutside /\ LockCovers /\ RoomForNew
  BY <1>2 DEF BuriedOutside, LockCovers, RoomForNew, Holds, At
<1>4. Distinct
  BY DEF Init, Distinct
<1> QED BY <1>1, <1>3, <1>4 DEF TableInv

\* Whoever is at a label outside is outside altogether.
LEMMA AtOutside ==
  ASSUME TableInv, NEW t \in Threads, NEW l \in Outside, At(t, l)
  PROVE  Clear(t) /\ calls[t] # <<>> /\ Top(t) \in Frames
<1>1. TypeInv /\ BuriedOutside /\ calls[t] # <<>> /\ Top(t).at \in Outside
  BY DEF TableInv, At
<1> QED BY <1>1, TopIsFrame, TopOutsideIsClear

\* The steps that go on to another label.
LEMMA GotoKeeps ==
  ASSUME TableInv, NEW t \in Threads, NEW l \in Outside, At(t, l),
         NEW k \in Outside, Goto(t, k),
         UNCHANGED <<opens, fgn_provider_lock, table>>
  PROVE  TableInv'
<1>1. Clear(t) /\ calls[t] # <<>> /\ Top(t) \in Frames
  BY AtOutside
<1> DEFINE f == [Top(t) EXCEPT !.at = k]
<1>2. f \in Frames /\ f.at \in Outside
  BY <1>1 DEF Frames, Labels
<1>3. SetTop(t, f)
  BY DEF Goto
<1>4. opens' \in [Threads -> Nat]
  BY DEF TableInv, TypeInv
<1> HIDE DEF f
<1> QED BY <1>1, <1>2, <1>3, <1>4, QuietTop

LEMMA ReturnKeeps ==
  ASSUME TableInv, NEW t \in Threads, NEW l \in Outside, At(t, l), Return(t),
         UNCHANGED <<opens, fgn_provider_lock, table>>
  PROVE  TableInv'
<1>1. Clear(t) /\ calls[t] # <<>>
  BY AtOutside
<1>2. opens' \in [Threads -> Nat]
  BY DEF TableInv, TypeInv
<1> QED BY <1>1, <1>2, QuietReturn

LEMMA EnterKeeps ==
  ASSUME TableInv, NEW t \in Threads, NEW l \in Outside, At(t, l),
         NEW f \in Frames, f.at \in Outside, EnterLoader(t, f),
         UNCHANGED <<opens, fgn_provider_lock, table>>
  PROVE  TableInv'
<1>1. Clear(t) /\ calls[t] # <<>>
  BY AtOutside
<1>2. opens' \in [Threads -> Nat]
  BY DEF TableInv, TypeInv
<1>3. Ctor \in Frames /\ Ctor.at \in Outside
  BY CtorIsFrame DEF Ctor, Outside
<1>4. Push(t, f, Ctor)
  BY DEF EnterLoader
<1> QED BY <1>1, <1>2, <1>3, <1>4, QuietPush

------------------------------------------------------------------------------
(* The steps of fgn_provider_for.                                          *)

LEMMA LockProvidersKeeps ==
  ASSUME TableInv, NEW t \in Threads, LockProviders(t)
  PROVE  TableInv'
<1> USE DEF LockProviders, locks, table, started
<1>1. Clear(t) /\ calls[t] # <<>> /\ Top(t) \in Frames
  BY AtOutside DEF Outside
<1>2. PICK f \in Top(t).files :
        SetTop(t, [Top(t) EXCEPT !.at = "search", !.want = f, !.files = @ \ {f}])
  OBVIOUS
<1> DEFINE g == [Top(t) EXCEPT !.at = "search", !.want = f, !.files = @ \ {f}]
<1>3. g \in Frames /\ g.at = "search"
  BY <1>1, <1>2 DEF Frames, Labels, InTable
<1>4. SetTop(t, g)
  BY <1>2
<1> HIDE DEF g
<1>5. /\ calls' \in [Threads -> Seq(Frames)]
      /\ Top(t)' = g /\ BuriedOutside'
      /\ \A u \in Threads \ {t} : /\ Holds(u)' <=> Holds(u)
                                  /\ At(u, "add")' <=> At(u, "add")
                                  /\ Top(u)' = Top(u)
  BY <1>1, <1>3, <1>4, TopStep
<1>6. \A u \in Threads : ~Holds(u)
  BY DEF TableInv, LockCovers
<1>7. LockCovers'
  BY <1>5, <1>6 DEF LockCovers
<1>8. RoomForNew'
  BY <1>3, <1>5, <1>6 DEF RoomForNew, At, Holds, InTable
<1>9. TypeInv' /\ Distinct'
  BY <1>5 DEF TableInv, TypeInv, Distinct
<1> QED BY <1>5, <1>7, <1>8, <1>9 DEF TableInv

\* The thread goes back outside and gives the lock up.
LEMMA LeaveTable ==
  ASSUME TableInv, NEW t \in Threads, Holds(t), Goto(t, "require"),
         fgn_provider_lock' = 0, UNCHANGED <<opens, table>>
  PROVE  TableInv'
<1> DEFINE g == [Top(t) EXCEPT !.at = "require"]
<1>1. calls[t] # <<>> /\ Top(t) \in Frames
  BY TopIsFrame DEF TableInv, Holds
<1>2. g \in Frames /\ g.at = "require"
  BY <1>1 DEF Frames, Labels, Outside
<1>3. SetTop(t, g)
  BY DEF Goto
<1> HIDE DEF g
<1>4. /\ calls' \in [Threads -> Seq(Frames)]
      /\ Top(t)' = g /\ BuriedOutside'
      /\ \A u \in Threads \ {t} : /\ Holds(u)' <=> Holds(u)
                                  /\ At(u, "add")' <=> At(u, "add")
                                  /\ Top(u)' = Top(u)
  BY <1>1, <1>2, <1>3, TopStep
<1>5. \A u \in Threads : ~Holds(u)'
  <2>1. ~Holds(t)'
    BY <1>2, <1>4 DEF Holds, InTable
  <2>2. \A u \in Threads \ {t} : ~Holds(u)
    BY DEF TableInv, LockCovers
  <2> QED BY <1>4, <2>1, <2>2
<1>6. LockCovers' /\ RoomForNew'
  BY <1>5 DEF LockCovers, RoomForNew, At, Holds, InTable
<1>7. TypeInv' /\ Distinct'
  BY <1>4 DEF TableInv, TypeInv, Distinct, table
<1> QED BY <1>4, <1>6, <1>7 DEF TableInv

\* The thread stays inside and keeps the lock.
LEMMA StayInTable ==
  ASSUME TableInv, NEW t \in Threads, Holds(t), NEW l \in InTable, Goto(t, l),
         UNCHANGED <<opens, fgn_provider_lock>>,
         fgn_provider_files' \in 0 .. FGN_PROV_FILES,
         fgn_providers' \in [1 .. FGN_PROV_FILES -> Files \cup {NoFile}],
         Distinct',
         l = "add" => fgn_provider_files' < FGN_PROV_FILES /\ ~Entry(Top(t).want)'
  PROVE  TableInv'
<1> DEFINE g == [Top(t) EXCEPT !.at = l]
<1>1. calls[t] # <<>> /\ Top(t) \in Frames
  BY TopIsFrame DEF TableInv, Holds
<1>2. g \in Frames /\ g.at = l /\ g.want = Top(t).want
  BY <1>1 DEF Frames, Labels
<1>3. SetTop(t, g)
  BY DEF Goto
<1> HIDE DEF g
<1>4. /\ calls' \in [Threads -> Seq(Frames)] /\ calls'[t] # <<>>
      /\ Top(t)' = g /\ BuriedOutside'
      /\ \A u \in Threads \ {t} : /\ Holds(u)' <=> Holds(u)
                                  /\ At(u, "add")' <=> At(u, "add")
                                  /\ Top(u)' = Top(u)
  BY <1>1, <1>2, <1>3, TopStep
<1>5. Holds(t)'
  BY <1>2, <1>4 DEF Holds
<1>6. \A u \in Threads \ {t} : ~Holds(u) /\ ~Holds(u)'
  BY <1>4 DEF TableInv, LockCovers
<1>7. LockCovers'
  BY <1>5, <1>6 DEF TableInv, LockCovers
<1>8. RoomForNew'
  <2>1. SUFFICES ASSUME NEW u \in Threads, At(u, "add")'
                 PROVE  fgn_provider_files' < FGN_PROV_FILES /\ ~Entry(Top(u).want)'
    BY DEF RoomForNew
  <2>2. u = t
    BY <1>6, <2>1 DEF At, Holds, InTable
  <2>3. l = "add"
    BY <1>2, <1>4, <2>1, <2>2 DEF At
  <2> QED BY <1>2, <1>4, <2>2, <2>3 DEF Entry
<1>9. TypeInv'
  BY <1>4 DEF TableInv, TypeInv
<1> QED BY <1>4, <1>7, <1>8, <1>9 DEF TableInv

LEMMA SearchKeeps ==
  ASSUME TableInv, NEW t \in Threads, Search(t)
  PROVE  TableInv'
<1>1. Holds(t) /\ UNCHANGED <<opens, table>>
  BY DEF Search, At, Holds, InTable, started
<1>2. CASE fgn_provider_lock' = 0 /\ Goto(t, "require")
  BY <1>1, <1>2, LeaveTable
<1>3. CASE /\ ~Entry(Top(t).want) /\ fgn_provider_files < FGN_PROV_FILES
           /\ Goto(t, "add") /\ UNCHANGED fgn_provider_lock
  <2>1. Top(t)'.want = Top(t).want
    <3>1. calls[t] # <<>> /\ Top(t) \in Frames
      BY <1>1, TopIsFrame DEF TableInv, Holds
    <3>2. [Top(t) EXCEPT !.at = "add"] \in Frames
      BY <3>1 DEF Frames, Labels, InTable
    <3>3. Top(t)' = [Top(t) EXCEPT !.at = "add"]
      BY <1>3, <3>1, <3>2, TopStep DEF Goto
    <3> QED BY <3>1, <3>3 DEF Frames
  <2>2. ~Entry(Top(t).want)'
    BY <1>1, <1>3, <2>1 DEF Entry, table
  <2>3. Distinct' /\ fgn_provider_files' < FGN_PROV_FILES
    BY <1>1, <1>3 DEF TableInv, Distinct, table
  <2>4. /\ fgn_provider_files' \in 0 .. FGN_PROV_FILES
        /\ fgn_providers' \in [1 .. FGN_PROV_FILES -> Files \cup {NoFile}]
    BY <1>1 DEF TableInv, TypeInv, table
  <2> QED BY <1>1, <1>3, <2>2, <2>3, <2>4, StayInTable DEF InTable
<1> QED BY <1>2, <1>3 DEF Search

\* The new entry is within the table and differs from the ones before it.
LEMMA AddKeeps ==
  ASSUME TableInv, NEW t \in Threads, Add(t)
  PROVE  TableInv'
<1>1. Holds(t) /\ UNCHANGED <<opens, fgn_provider_lock>> /\ Goto(t, "ask")
  BY DEF Add, At, Holds, InTable, started, locks
<1>2. fgn_provider_files < FGN_PROV_FILES /\ ~Entry(Top(t).want)
  BY DEF Add, TableInv, RoomForNew
<1>3. Top(t) \in Frames
  BY <1>1, TopIsFrame DEF TableInv, Holds
<1>4. FGN_PROV_FILES \in Nat /\ fgn_provider_files \in Nat
  BY LimitsAssumption DEF TableInv, TypeInv
<1>5. /\ fgn_provider_files' = fgn_provider_files + 1
      /\ fgn_providers' = [i \in 1 .. FGN_PROV_FILES |->
           IF i = fgn_provider_files + 1 THEN Top(t).want ELSE fgn_providers[i]]
  <2>1. DOMAIN fgn_providers \cup {fgn_provider_files + 1} = 1 .. FGN_PROV_FILES
    BY <1>2, <1>4 DEF TableInv, TypeInv
  <2> QED BY <2>1 DEF Add
<1>6. /\ fgn_provider_files' \in 0 .. FGN_PROV_FILES
      /\ fgn_providers' \in [1 .. FGN_PROV_FILES -> Files \cup {NoFile}]
  BY <1>2, <1>3, <1>4, <1>5 DEF TableInv, TypeInv, Frames
<1>7. Distinct'
  <2>1. \A i \in 1 .. fgn_provider_files :
          fgn_providers'[i] = fgn_providers[i] /\ fgn_providers[i] # Top(t).want
    BY <1>2, <1>4, <1>5 DEF Entry
  <2>2. fgn_providers'[fgn_provider_files + 1] = Top(t).want
    BY <1>2, <1>4, <1>5
  <2> QED BY <1>4, <1>5, <2>1, <2>2 DEF TableInv, Distinct
<1> QED BY <1>1, <1>6, <1>7, StayInTable DEF InTable

LEMMA AskKeeps ==
  ASSUME TableInv, NEW t \in Threads, Ask(t)
  PROVE  TableInv'
<1>1. Holds(t) /\ Goto(t, "require") /\ fgn_provider_lock' = 0
  BY DEF Ask, At, Holds, InTable
<1>2. UNCHANGED <<opens, table>>
  BY DEF Ask, started
<1> QED BY <1>1, <1>2, LeaveTable

------------------------------------------------------------------------------
\* Every other step of a thread inside an open.
LEMMA OutsideStepKeeps ==
  ASSUME TableInv, NEW t \in Threads,
         \/ CtorEnds(t) \/ ScanLock(t) \/ ScanAsk(t) \/ Get(t) \/ NoLoad(t)
         \/ OpenPlain(t) \/ Unrecorded(t) \/ Probe(t) \/ Recurse(t) \/ EndWalk(t)
         \/ Open(t) \/ Put(t)
  PROVE  TableInv'
<1> USE DEF locks, started
<1>1. CASE CtorEnds(t)
  BY <1>1, ReturnKeeps DEF CtorEnds, Outside
<1>2. CASE ScanLock(t)
  <2>1. /\ At(t, "scan") /\ UNCHANGED <<opens, fgn_provider_lock, table>>
        /\ Goto(t, "get") \/ Goto(t, "scan_ask")
    BY <1>2 DEF ScanLock
  <2> QED BY <2>1, GotoKeeps DEF Outside
<1>3. CASE ScanAsk(t)
  BY <1>3, GotoKeeps DEF ScanAsk, Outside
<1>4. CASE Get(t)
  <2>1. /\ At(t, "get") /\ UNCHANGED <<opens, fgn_provider_lock, table>>
        /\ Return(t) \/ Goto(t, "noload")
    BY <1>4 DEF Get
  <2> QED BY <2>1, GotoKeeps, ReturnKeeps DEF Outside
<1>5. CASE NoLoad(t)
  <2>1. /\ At(t, "noload") /\ UNCHANGED <<opens, fgn_provider_lock, table>>
        /\ Return(t) \/ Goto(t, "plain") \/ Goto(t, "walk")
    BY <1>5 DEF NoLoad
  <2> QED BY <2>1, GotoKeeps, ReturnKeeps DEF Outside
<1>6. CASE OpenPlain(t)
  <2>1. At(t, "plain") /\ UNCHANGED <<opens, fgn_provider_lock, table>>
    BY <1>6 DEF OpenPlain
  <2>2. Top(t) \in Frames
    BY <2>1, AtOutside DEF Outside
  <2> DEFINE f == [Top(t) EXCEPT !.at = "opened"]
  <2>3. f \in Frames /\ f.at = "opened"
    BY <2>2 DEF Frames, Labels, Outside
  <2>4. EnterLoader(t, f)
    BY <1>6 DEF OpenPlain
  <2> HIDE DEF f
  <2> QED BY <2>1, <2>3, <2>4, EnterKeeps DEF Outside
<1>7. CASE Unrecorded(t)
  BY <1>7, ReturnKeeps DEF Unrecorded, Outside
<1>8. CASE Probe(t)
  <2>1. At(t, "walk") /\ UNCHANGED <<opens, fgn_provider_lock, table>> /\ Top(t).deps > 0
    BY <1>8 DEF Probe
  <2>2. Top(t) \in Frames
    BY <2>1, AtOutside DEF Outside
  <2> DEFINE f == [Top(t) EXCEPT !.deps = @ - 1]
  <2>3. f \in Frames /\ f.at = "walk"
    BY <2>1, <2>2 DEF Frames, At
  <2>4. EnterLoader(t, f)
    BY <1>8 DEF Probe
  <2> HIDE DEF f
  <2> QED BY <2>1, <2>3, <2>4, EnterKeeps DEF Outside
<1>9. CASE Recurse(t)
  <2>1. At(t, "walk") /\ UNCHANGED <<fgn_provider_lock, table>> /\ Top(t).deps > 0
    BY <1>9 DEF Recurse
  <2>2. Clear(t) /\ calls[t] # <<>> /\ Top(t) \in Frames
    BY <2>1, AtOutside DEF Outside
  <2> DEFINE f == [Top(t) EXCEPT !.deps = @ - 1]
             g == Load(t, "get", f.depth + 1)
  <2>3. f \in Frames /\ f.at = "walk"
    BY <2>1, <2>2 DEF Frames, At
  <2>5. opens' \in [Threads -> Nat]
    BY <1>9 DEF Recurse, TableInv, TypeInv
  <2>6. CASE SetTop(t, f)
    <3> HIDE DEF f
    <3> QED BY <2>1, <2>2, <2>3, <2>5, <2>6, QuietTop DEF Outside
  <2>7. CASE f.depth + 1 < MaxDepth /\ Push(t, f, g)
    <3>1. f.depth + 1 \in 0 .. MaxDepth - 1
      BY LimitsAssumption, <2>3, <2>7 DEF Frames
    <3>2. g \in Frames /\ g.at = "get"
      BY <3>1, LoadIsFrame DEF TableInv, Labels, Outside, Load
    <3> HIDE DEF f, g
    <3> QED BY <2>1, <2>2, <2>3, <2>5, <2>7, <3>2, QuietPush DEF Outside
  <2>8. SetTop(t, f) \/ (f.depth + 1 < MaxDepth /\ Push(t, f, g))
    <3>1. f.depth \in Int /\ MaxDepth \in Int
      BY LimitsAssumption, <2>3 DEF Frames
    <3> QED BY <1>9, <3>1 DEF Recurse
  <2> QED BY <2>6, <2>7, <2>8
<1>10. CASE EndWalk(t)
  <2>1. At(t, "walk") /\ UNCHANGED <<opens, fgn_provider_lock, table>>
    BY <1>10 DEF EndWalk
  <2>2. Clear(t) /\ calls[t] # <<>> /\ Top(t) \in Frames
    BY <2>1, AtOutside DEF Outside
  <2>3. PICK fs \in SUBSET Files : SetTop(t, [Top(t) EXCEPT !.at = "require", !.files = fs])
    BY <1>10 DEF EndWalk
  <2> DEFINE f == [Top(t) EXCEPT !.at = "require", !.files = fs]
  <2>4. f \in Frames /\ f.at = "require"
    BY <2>2, <2>3 DEF Frames, Labels, Outside
  <2>5. SetTop(t, f) /\ opens' \in [Threads -> Nat]
    BY <2>1, <2>3 DEF TableInv, TypeInv
  <2> HIDE DEF f
  <2> QED BY <2>1, <2>2, <2>4, <2>5, QuietTop DEF Outside
<1>11. CASE Open(t)
  <2>1. At(t, "require") /\ UNCHANGED <<opens, fgn_provider_lock, table>>
    BY <1>11 DEF Open
  <2>2. Top(t) \in Frames
    BY <2>1, AtOutside DEF Outside
  <2> DEFINE f == [Top(t) EXCEPT !.at = "put"]
  <2>3. f \in Frames /\ f.at = "put"
    BY <2>2 DEF Frames, Labels, Outside
  <2>4. EnterLoader(t, f) \/ Return(t)
    BY <1>11 DEF Open
  <2> HIDE DEF f
  <2> QED BY <2>1, <2>3, <2>4, EnterKeeps, ReturnKeeps DEF Outside
<1>12. CASE Put(t)
  BY <1>12, ReturnKeeps DEF Put, Outside
<1> QED BY <1>1, <1>2, <1>3, <1>4, <1>5, <1>6, <1>7, <1>8, <1>9, <1>10, <1>11, <1>12

\* A thread that starts an open is outside, at the bottom or in a constructor.
LEMMA AttemptKeeps ==
  ASSUME TableInv, NEW t \in Threads, Attempt(t)
  PROVE  TableInv'
<1> DEFINE g == Load(t, "scan", 0)
           s == Append(calls[t], g)
<1>1. Clear(t)
  BY TopOutsideIsClear DEF Attempt, At, TableInv, Outside
<1>2. g \in Frames /\ g.at \in Outside
  BY LoadIsFrame, LimitsAssumption DEF TableInv, Labels, Outside, Load
<1>3. calls[t] \in Seq(Frames)
  BY DEF TableInv, TypeInv
<1>4. calls' = [calls EXCEPT ![t] = s]
  BY DEF Attempt
<1> HIDE DEF g
<1>5. /\ s \in Seq(Frames) /\ Len(s) = Len(calls[t]) + 1
      /\ \A i \in 1 .. Len(s) : s[i] = IF i = Len(calls[t]) + 1 THEN g ELSE calls[t][i]
  BY <1>2, <1>3
<1>6. \A i \in 1 .. Len(s) : s[i].at \in Outside
  BY <1>1, <1>2, <1>3, <1>5 DEF Clear
<1>7. opens' \in [Threads -> Nat] /\ UNCHANGED <<fgn_provider_lock, table>>
  BY DEF Attempt, locks, TableInv, TypeInv
<1> HIDE DEF s
<1> QED BY <1>1, <1>4, <1>5, <1>6, <1>7, QuietStep

LEMMA PassThroughKeeps ==
  ASSUME TableInv, NEW t \in Threads, PassThrough(t)
  PROVE  TableInv'
<1>1. Clear(t)
  BY TopOutsideIsClear DEF PassThrough, TableInv
<1>2. /\ <<Ctor>> \in Seq(Frames)
      /\ \A i \in 1 .. Len(<<Ctor>>) : <<Ctor>>[i].at \in Outside
  BY CtorIsFrame DEF Ctor, Outside
<1>3. /\ opens' \in [Threads -> Nat] /\ UNCHANGED <<fgn_provider_lock, table>>
      /\ calls' = [calls EXCEPT ![t] = <<Ctor>>]
  BY DEF PassThrough, locks, TableInv, TypeInv
<1> QED BY <1>1, <1>2, <1>3, QuietStep

LEMMA TableStep == TableInv /\ [Next]_vars => TableInv'
<1> SUFFICES ASSUME TableInv, [Next]_vars PROVE TableInv'
  OBVIOUS
<1>1. ASSUME NEW t \in Threads, Step(t) PROVE TableInv'
  BY <1>1, OutsideStepKeeps, LockProvidersKeeps, SearchKeeps, AddKeeps, AskKeeps DEF Step
<1>2. CASE UNCHANGED vars
  BY <1>2 DEF vars, TableInv, TypeInv, BuriedOutside, LockCovers, RoomForNew, Distinct,
              Holds, At, Top, Entry
<1> QED BY <1>1, <1>2, AttemptKeeps, PassThroughKeeps DEF Next

\* fgn_provider_lock is enough for the provider table: whatever opens start
\* inside one another on however many threads, a file that DT_VERNEED names has
\* one entry, and no entry lies past the end of the table.
THEOREM TableIsSound == Spec => []OneEntryPerFile
<1>1. TableInv => OneEntryPerFile
  BY LimitsAssumption DEF TableInv, TypeInv, Distinct, OneEntryPerFile
<1> QED BY <1>1, TableInit, TableStep, PTL DEF Spec

\* The lock that says so has one holder: no two threads are inside
\* fgn_provider_for, though one of them may be asking ld.so and the other have
\* been started by a constructor.
THEOREM OneThreadInTable ==
  Spec => [](\A t, u \in Threads : Holds(t) /\ Holds(u) => t = u)
<1>1. TableInv => \A t, u \in Threads : Holds(t) /\ Holds(u) => t = u
  BY DEF TableInv, LockCovers
<1> QED BY <1>1, TableInit, TableStep, PTL DEF Spec

------------------------------------------------------------------------------
(* fgn_active_stack: what a walk reads there are the paths of the loads it is *)
(* inside, on every thread whose constructors have not opened a host library  *)
(* in the middle of a walk.  The invariant (StackInv) is about a thread's     *)
(* calls as a whole: its loads are one chain, each inside the walk of the one *)
(* before and one level deeper, and each that has entered the stack is still  *)
(* what its own level holds.  A load that starts from a constructor inside    *)
(* the chain would begin at level 0 again; that is what `nested` leaves out.  *)

\* The labels at which a load has entered the stack.
Entered == {"walk", "require", "put"} \cup InTable

LoadAt(c, i) == c[i].at # "ctor"

\* Inside what, and on which level of its own, the i-th of a thread's calls c is.
InChain(c, i) ==
  /\ c[i].depth < i
  /\ \A j \in 0 .. c[i].depth - 1 :
       c[i - c[i].depth + j].depth = j /\ c[i - c[i].depth + j].at = "walk"
  /\ \A k \in 1 .. i - 1 : LoadAt(c, k) => c[k].depth < c[i].depth

\* A thread's calls over its stack st.
Sound(c, st) ==
  \A i \in 1 .. Len(c) : LoadAt(c, i) =>
    InChain(c, i) /\ (c[i].at \in Entered => st[c[i].depth] = c[i].canon)

Strings == (Threads \X Nat) \cup {NoPath}
Stacks == [0 .. MaxDepth - 1 -> Strings]

StackInv ==
  /\ fgn_active_stack \in [Threads -> Stacks]
  /\ \A t \in Threads \ nested : Sound(calls[t], fgn_active_stack[t])

------------------------------------------------------------------------------
(* What keeps calls sound, as facts about sequences of frames.             *)

LEMMA FramesHaveDepth ==
  ASSUME NEW c \in Seq(Frames)
  PROVE  \A i \in 1 .. Len(c) : /\ c[i] \in Frames
                                /\ c[i].depth \in 0 .. MaxDepth - 1
                                /\ c[i].depth \in Nat
<1>1. \A i \in 1 .. Len(c) : c[i] \in Frames
  OBVIOUS
<1>2. \A f \in Frames : f.depth \in 0 .. MaxDepth - 1
  BY DEF Frames
<1>3. 0 .. MaxDepth - 1 \subseteq Nat
  BY LimitsAssumption
<1> QED BY <1>1, <1>2, <1>3

\* Whether a load is in the chain depends on what is below it.
LEMMA ChainIsBelow ==
  ASSUME NEW c \in Seq(Frames), NEW s \in Seq(Frames),
         NEW i \in 1 .. Len(c), i <= Len(s), s[i].depth = c[i].depth,
         \A k \in 1 .. i - 1 : s[k] = c[k],
         InChain(c, i)
  PROVE  InChain(s, i)
<1>1. c[i].depth \in Nat /\ c[i].depth < i
  BY FramesHaveDepth DEF InChain
<1>2. ASSUME NEW j \in 0 .. c[i].depth - 1
      PROVE  s[i - c[i].depth + j].depth = j /\ s[i - c[i].depth + j].at = "walk"
  <2>1. i - c[i].depth + j \in 1 .. i - 1
    BY <1>1
  <2>2. s[i - c[i].depth + j] = c[i - c[i].depth + j]
    BY <2>1
  <2> QED BY <2>2 DEF InChain
<1>3. \A k \in 1 .. i - 1 : LoadAt(s, k) => s[k].depth < s[i].depth
  BY DEF InChain, LoadAt
<1> QED BY <1>1, <1>2, <1>3 DEF InChain

LEMMA ExceptLast ==
  ASSUME NEW S, NEW n \in Nat \ {0}, NEW c \in [1 .. n -> S], NEW f
  PROVE  /\ [c EXCEPT ![n] = f][n] = f
         /\ \A i \in 1 .. n - 1 : [c EXCEPT ![n] = f][i] = c[i]
OBVIOUS

\* The innermost load goes on.
LEMMA SoundTop ==
  ASSUME NEW c \in Seq(Frames), c # <<>>, NEW st, Sound(c, st),
         LoadAt(c, Len(c)), NEW f \in Frames, f.at # "ctor",
         f.depth = c[Len(c)].depth, f.canon = c[Len(c)].canon,
         f.at \in Entered => c[Len(c)].at \in Entered \/ st[f.depth] = f.canon
  PROVE  Sound([c EXCEPT ![Len(c)] = f], st)
<1> DEFINE n == Len(c)
           s == [c EXCEPT ![n] = f]
<1>1. n \in Nat \ {0} /\ s \in Seq(Frames) /\ Len(s) = n
  OBVIOUS
<1>2. s[n] = f /\ \A i \in 1 .. n - 1 : s[i] = c[i]
  <2>1. c \in [1 .. n -> Frames]
    OBVIOUS
  <2> HIDE DEF n
  <2> QED BY <1>1, <2>1, ExceptLast
<1> HIDE DEF s
<1>3. ASSUME NEW i \in 1 .. n, LoadAt(s, i)
      PROVE  InChain(s, i) /\ (s[i].at \in Entered => st[s[i].depth] = s[i].canon)
  <2>1. s[i].depth = c[i].depth /\ LoadAt(c, i) /\ \A k \in 1 .. i - 1 : s[k] = c[k]
    BY <1>1, <1>2, <1>3 DEF LoadAt
  <2>2. InChain(c, i) /\ (c[i].at \in Entered => st[c[i].depth] = c[i].canon)
    BY <2>1 DEF Sound
  <2>3. InChain(s, i)
    BY <1>1, <2>1, <2>2, ChainIsBelow
  <2> QED BY <1>1, <1>2, <2>2, <2>3
<1> QED BY <1>1, <1>3 DEF Sound, s

\* Something is called: a constructor, a first load, or the next of a chain.
LEMMA SoundPush ==
  ASSUME NEW c \in Seq(Frames), NEW st, Sound(c, st), NEW g \in Frames,
         \/ g.at = "ctor"
         \/ /\ g.at \notin Entered /\ g.depth = 0
            /\ \A i \in 1 .. Len(c) : ~LoadAt(c, i)
         \/ /\ g.at \notin Entered /\ c # <<>>
            /\ c[Len(c)].at = "walk" /\ g.depth = c[Len(c)].depth + 1
  PROVE  Sound(Append(c, g), st)
<1> DEFINE n == Len(c)
           s == Append(c, g)
<1>1. n \in Nat /\ s \in Seq(Frames) /\ Len(s) = n + 1
  OBVIOUS
<1>2. s[n + 1] = g /\ \A i \in 1 .. n : s[i] = c[i]
  BY <1>1
<1> HIDE DEF s
<1>3. ASSUME NEW i \in 1 .. n, LoadAt(s, i)
      PROVE  InChain(s, i) /\ (s[i].at \in Entered => st[s[i].depth] = s[i].canon)
  <2>1. s[i] = c[i] /\ LoadAt(c, i) /\ \A k \in 1 .. i - 1 : s[k] = c[k]
    BY <1>1, <1>2, <1>3 DEF LoadAt
  <2>2. InChain(c, i) /\ (c[i].at \in Entered => st[c[i].depth] = c[i].canon)
    BY <2>1 DEF Sound
  <2> QED BY <1>1, <2>1, <2>2, ChainIsBelow
<1>4. ASSUME LoadAt(s, n + 1)
      PROVE  InChain(s, n + 1) /\ s[n + 1].at \notin Entered
  <2>1. CASE g.depth = 0 /\ g.at \notin Entered /\ \A i \in 1 .. n : ~LoadAt(c, i)
    BY <1>1, <1>2, <2>1 DEF LoadAt, InChain
  <2>2. CASE /\ g.at \notin Entered /\ c # <<>>
             /\ c[n].at = "walk" /\ g.depth = c[n].depth + 1
    <3> DEFINE d == c[n].depth
    <3>1. n \in 1 .. n /\ LoadAt(c, n)
      BY <1>1, <2>2 DEF LoadAt
    <3>2. d \in Nat /\ InChain(c, n)
      BY <3>1, FramesHaveDepth DEF Sound
    <3>3. d < n
      BY <3>2 DEF InChain
    <3>4. s[n + 1].depth = d + 1 /\ s[n + 1].at \notin Entered
      BY <1>2, <2>2
    <3>5. ASSUME NEW j \in 0 .. d
          PROVE  s[n - d + j].depth = j /\ s[n - d + j].at = "walk"
      <4>1. n - d + j \in 1 .. n
        BY <1>1, <3>2, <3>3
      <4>2. s[n - d + j] = c[n - d + j]
        BY <1>2, <4>1
      <4>3. CASE j = d
        <5>1. n - d + j = n
          BY <1>1, <3>2, <4>3
        <5> QED BY <2>2, <4>2, <4>3, <5>1
      <4>4. CASE j # d
        <5>1. j \in 0 .. d - 1
          BY <3>2, <4>4
        <5> QED BY <3>2, <4>2, <5>1 DEF InChain
      <4> QED BY <4>3, <4>4
    <3>6. ASSUME NEW k \in 1 .. n, LoadAt(s, k)
          PROVE  s[k].depth < d + 1
      <4>1. s[k] = c[k] /\ LoadAt(c, k)
        BY <1>2, <3>6 DEF LoadAt
      <4>2. CASE k = n
        BY <3>2, <4>1, <4>2
      <4>3. CASE k # n
        <5>1. k \in 1 .. n - 1
          BY <1>1, <4>3
        <5>2. c[k].depth < d /\ c[k].depth \in Nat
          BY <3>2, <4>1, <5>1, FramesHaveDepth DEF InChain
        <5> QED BY <3>2, <4>1, <5>2
      <4> QED BY <4>2, <4>3
    <3>7. s[n + 1].depth < n + 1
      BY <1>1, <3>2, <3>3, <3>4
    <3>8. ASSUME NEW j \in 0 .. s[n + 1].depth - 1
          PROVE  /\ s[(n + 1) - s[n + 1].depth + j].depth = j
                 /\ s[(n + 1) - s[n + 1].depth + j].at = "walk"
      <4>1. j \in 0 .. d /\ (n + 1) - s[n + 1].depth + j = n - d + j
        BY <1>1, <3>2, <3>4
      <4> QED BY <3>5, <4>1
    <3>9. \A k \in 1 .. (n + 1) - 1 : LoadAt(s, k) => s[k].depth < s[n + 1].depth
      BY <1>1, <3>4, <3>6
    <3>10. InChain(s, n + 1)
      BY <3>7, <3>8, <3>9 DEF InChain
    <3> QED BY <3>4, <3>10
  <2> QED BY <1>2, <1>4, <2>1, <2>2 DEF LoadAt
<1>5. \A i \in 1 .. Len(s) : i \in 1 .. n \/ i = n + 1
  BY <1>1
<1> QED BY <1>3, <1>4, <1>5 DEF Sound, s

LEMMA SoundReturn ==
  ASSUME NEW c \in Seq(Frames), c # <<>>, NEW st, Sound(c, st)
  PROVE  Sound(SubSeq(c, 1, Len(c) - 1), st)
<1> DEFINE n == Len(c)
           s == SubSeq(c, 1, n - 1)
<1>1. n \in Nat \ {0}
  OBVIOUS
<1>2. s \in Seq(Frames) /\ Len(s) = n - 1 /\ \A i \in 1 .. n - 1 : s[i] = c[i]
  <2>1. n - 1 \in Int /\ \A i \in 1 .. n - 1 : c[i] \in Frames
    BY <1>1
  <2>2. /\ s \in Seq(Frames)
        /\ Len(s) = IF 1 <= n - 1 THEN (n - 1) - 1 + 1 ELSE 0
        /\ \A i \in 1 .. (n - 1) - 1 + 1 : s[i] = c[1 + i - 1]
    <3> HIDE DEF n
    <3> QED BY <2>1, SubSeqProperties
  <2>3. \A i \in 1 .. n - 1 : i \in 1 .. (n - 1) - 1 + 1 /\ c[1 + i - 1] = c[i]
    BY <1>1
  <2>4. \A i \in 1 .. n - 1 : s[i] = c[i]
    <3> HIDE DEF s
    <3> QED BY <2>2, <2>3
  <2>5. Len(s) = n - 1
    <3> HIDE DEF s, n
    <3> QED BY <1>1, <2>2
  <2> HIDE DEF s
  <2> QED BY <2>2, <2>4, <2>5
<1> HIDE DEF s
<1>3. ASSUME NEW i \in 1 .. n - 1, LoadAt(s, i)
      PROVE  InChain(s, i) /\ (s[i].at \in Entered => st[s[i].depth] = s[i].canon)
  <2>1. /\ i \in 1 .. n /\ s[i] = c[i] /\ LoadAt(c, i)
        /\ \A k \in 1 .. i - 1 : s[k] = c[k]
    BY <1>1, <1>2, <1>3 DEF LoadAt
  <2>2. InChain(c, i) /\ (c[i].at \in Entered => st[c[i].depth] = c[i].canon)
    BY <2>1 DEF Sound
  <2> QED BY <1>2, <2>1, <2>2, ChainIsBelow
<1> QED BY <1>2, <1>3 DEF Sound, s

\* The innermost load enters the stack: the ones before it are on other levels.
LEMMA SoundEnter ==
  ASSUME NEW c \in Seq(Frames), c # <<>>, NEW st \in Stacks, Sound(c, st),
         LoadAt(c, Len(c)), c[Len(c)].at \notin Entered
  PROVE  Sound(c, [st EXCEPT ![c[Len(c)].depth] = c[Len(c)].canon])
<1> DEFINE d == c[Len(c)].depth
           new == [st EXCEPT ![d] = c[Len(c)].canon]
<1>1. d \in 0 .. MaxDepth - 1 /\ d \in Nat
  BY FramesHaveDepth
<1>2. ASSUME NEW i \in 1 .. Len(c), LoadAt(c, i), c[i].at \in Entered
      PROVE  new[c[i].depth] = c[i].canon
  <2>1. i # Len(c)
    BY <1>2
  <2>2. c[i].depth < d /\ c[i].depth \in 0 .. MaxDepth - 1
    <3>1. Len(c) \in 1 .. Len(c) /\ i \in 1 .. Len(c) - 1
      BY <2>1
    <3> QED BY <1>2, <3>1, FramesHaveDepth DEF Sound, InChain
  <2>3. new[c[i].depth] = st[c[i].depth]
    BY <1>1, <2>2 DEF Stacks
  <2> QED BY <1>2, <2>3 DEF Sound
<1> HIDE DEF new
<1> QED BY <1>2 DEF Sound, new

------------------------------------------------------------------------------
(* From sequences to steps.                                                *)

\* A step changes the calls and the stack of one thread.
LEMMA StackStep ==
  ASSUME TypeInv, StackInv, NEW t \in Threads, NEW s,
         calls' = [calls EXCEPT ![t] = s],
         nested \subseteq nested',
         fgn_active_stack' \in [Threads -> Stacks],
         \A u \in Threads \ {t} : fgn_active_stack'[u] = fgn_active_stack[u],
         t \notin nested' => Sound(s, fgn_active_stack'[t])
  PROVE  StackInv'
<1>1. ASSUME NEW u \in Threads \ nested'
      PROVE  Sound(calls'[u], fgn_active_stack'[u])
  <2>1. CASE u = t
    BY <1>1, <2>1 DEF TypeInv
  <2>2. CASE u # t
    <3>1. calls'[u] = calls[u] /\ fgn_active_stack'[u] = fgn_active_stack[u]
      BY <2>2 DEF TypeInv
    <3> QED BY <1>1, <3>1 DEF StackInv
  <2> QED BY <2>1, <2>2
<1> QED BY <1>1 DEF StackInv, Sound, InChain, LoadAt

\* The innermost frame of a thread that is at a load's label.
LEMMA AtLoad ==
  ASSUME TypeInv, NEW t \in Threads, NEW l \in Labels \ {"ctor"}, At(t, l)
  PROVE  /\ calls[t] \in Seq(Frames) /\ calls[t] # <<>>
         /\ LoadAt(calls[t], Len(calls[t]))
         /\ Top(t) = calls[t][Len(calls[t])] /\ Top(t) \in Frames /\ Top(t).at = l
<1>1. calls[t] \in Seq(Frames) /\ calls[t] # <<>> /\ Top(t).at = l
  BY DEF TypeInv, At
<1>2. Top(t) = calls[t][Len(calls[t])]
  BY DEF Top
<1>3. Top(t) \in Frames
  BY <1>1, TopIsFrame
<1> QED BY <1>1, <1>2, <1>3 DEF LoadAt

\* The innermost load goes on, and has entered the stack before if it has now.
LEMMA StackTop ==
  ASSUME TypeInv, StackInv, NEW t \in Threads, NEW l \in Labels \ {"ctor"}, At(t, l),
         NEW f \in Frames, SetTop(t, f), f.at # "ctor",
         f.depth = Top(t).depth, f.canon = Top(t).canon,
         f.at \in Entered => l \in Entered,
         UNCHANGED <<fgn_active_stack, nested>>
  PROVE  StackInv'
<1> DEFINE c == calls[t]
           s == [c EXCEPT ![Len(c)] = f]
<1>1. calls' = [calls EXCEPT ![t] = s]
  BY DEF SetTop
<1>2. ASSUME t \notin nested PROVE Sound(s, fgn_active_stack[t])
  <2>1. Sound(c, fgn_active_stack[t])
    BY <1>2 DEF StackInv
  <2>2. /\ c \in Seq(Frames) /\ c # <<>> /\ LoadAt(c, Len(c))
        /\ f.depth = c[Len(c)].depth /\ f.canon = c[Len(c)].canon
        /\ f.at \in Entered => c[Len(c)].at \in Entered
    BY AtLoad
  <2> HIDE DEF c
  <2> QED BY <2>1, <2>2, SoundTop
<1> HIDE DEF s
<1> QED BY <1>1, <1>2, StackStep DEF StackInv

LEMMA StackGoto ==
  ASSUME TypeInv, StackInv, NEW t \in Threads, NEW l \in Labels \ {"ctor"}, At(t, l),
         NEW k \in Labels \ {"ctor"}, Goto(t, k), k \in Entered => l \in Entered,
         UNCHANGED <<fgn_active_stack, nested>>
  PROVE  StackInv'
<1> DEFINE f == [Top(t) EXCEPT !.at = k]
<1>1. Top(t) \in Frames
  BY AtLoad
<1>2. f \in Frames /\ f.at = k /\ f.depth = Top(t).depth /\ f.canon = Top(t).canon
  BY <1>1 DEF Frames
<1>3. SetTop(t, f)
  BY DEF Goto
<1> HIDE DEF f
<1> QED BY <1>2, <1>3, StackTop

LEMMA StackReturn ==
  ASSUME TypeInv, StackInv, NEW t \in Threads, calls[t] # <<>>, Return(t),
         UNCHANGED <<fgn_active_stack, nested>>
  PROVE  StackInv'
<1> DEFINE c == calls[t]
           s == SubSeq(c, 1, Len(c) - 1)
<1>1. calls' = [calls EXCEPT ![t] = s]
  BY DEF Return
<1>2. ASSUME t \notin nested PROVE Sound(s, fgn_active_stack[t])
  <2>1. Sound(c, fgn_active_stack[t]) /\ c \in Seq(Frames) /\ c # <<>>
    BY <1>2 DEF StackInv, TypeInv
  <2> HIDE DEF c
  <2> QED BY <2>1, SoundReturn
<1> HIDE DEF s
<1> QED BY <1>1, <1>2, StackStep DEF StackInv

\* The innermost load goes on and calls g: ld.so, or the next of the chain.
LEMMA StackPush ==
  ASSUME TypeInv, StackInv, NEW t \in Threads, NEW l \in Labels \ {"ctor"}, At(t, l),
         NEW f \in Frames, f.at # "ctor",
         f.depth = Top(t).depth, f.canon = Top(t).canon, f.at \in Entered => l \in Entered,
         NEW g \in Frames,
         \/ g.at = "ctor"
         \/ g.at \notin Entered /\ f.at = "walk" /\ g.depth = f.depth + 1,
         Push(t, f, g),
         UNCHANGED <<fgn_active_stack, nested>>
  PROVE  StackInv'
<1> DEFINE c == calls[t]
           r == [c EXCEPT ![Len(c)] = f]
           s == Append(r, g)
<1>1. calls' = [calls EXCEPT ![t] = s]
  BY DEF Push
<1>2. ASSUME t \notin nested PROVE Sound(s, fgn_active_stack[t])
  <2>1. Sound(c, fgn_active_stack[t])
    BY <1>2 DEF StackInv
  <2>2. /\ c \in Seq(Frames) /\ c # <<>> /\ LoadAt(c, Len(c))
        /\ f.depth = c[Len(c)].depth /\ f.canon = c[Len(c)].canon
        /\ f.at \in Entered => c[Len(c)].at \in Entered
    BY AtLoad
  <2> HIDE DEF c
  <2>3. Sound(r, fgn_active_stack[t])
    BY <2>1, <2>2, SoundTop
  <2>4. r \in Seq(Frames) /\ r # <<>> /\ r[Len(r)] = f
    BY <2>2
  <2> HIDE DEF r
  <2>5. CASE g.at = "ctor"
    BY <2>3, <2>4, <2>5, SoundPush
  <2>6. CASE g.at \notin Entered /\ f.at = "walk" /\ g.depth = f.depth + 1
    BY <2>3, <2>4, <2>6, SoundPush
  <2> QED BY <2>5, <2>6
<1> HIDE DEF s
<1> QED BY <1>1, <1>2, StackStep DEF StackInv

LEMMA StackEnterLoader ==
  ASSUME TypeInv, StackInv, NEW t \in Threads, NEW l \in Labels \ {"ctor"}, At(t, l),
         NEW f \in Frames, f.at # "ctor",
         f.depth = Top(t).depth, f.canon = Top(t).canon, f.at \in Entered => l \in Entered,
         EnterLoader(t, f),
         UNCHANGED <<fgn_active_stack, nested>>
  PROVE  StackInv'
<1>1. Push(t, f, Ctor)
  BY DEF EnterLoader
<1>2. Ctor \in Frames /\ Ctor.at = "ctor"
  BY CtorIsFrame DEF Ctor
<1> QED BY <1>1, <1>2, StackPush

------------------------------------------------------------------------------
(* The steps.                                                              *)

LEMMA NoLoadKeepsStack ==
  ASSUME TypeInv, StackInv, NEW t \in Threads, NoLoad(t)
  PROVE  StackInv'
<1>1. At(t, "noload") /\ UNCHANGED nested
  BY DEF NoLoad, started
<1>2. CASE UNCHANGED fgn_active_stack /\ (Return(t) \/ Goto(t, "plain"))
  BY <1>1, <1>2, StackReturn, StackGoto DEF At, Labels, Outside, Entered, InTable
<1>3. CASE /\ fgn_active_stack' = [fgn_active_stack EXCEPT ![t][Top(t).depth] = Top(t).canon]
           /\ \E k \in {"walk", "plain"} : Goto(t, k)
  <2>1. PICK k \in {"walk", "plain"} : Goto(t, k)
    BY <1>3
  <2> DEFINE c == calls[t]
             st == fgn_active_stack[t]
             new == [st EXCEPT ![Top(t).depth] = Top(t).canon]
             f == [Top(t) EXCEPT !.at = k]
             s == [c EXCEPT ![Len(c)] = f]
  <2>2. /\ c \in Seq(Frames) /\ c # <<>> /\ LoadAt(c, Len(c))
        /\ Top(t) = c[Len(c)] /\ Top(t) \in Frames /\ Top(t).at = "noload"
    BY <1>1, AtLoad DEF Labels, Outside
  <2>3. /\ f \in Frames /\ f.at = k /\ f.at # "ctor"
        /\ f.depth = Top(t).depth /\ f.canon = Top(t).canon
    BY <2>1, <2>2 DEF Frames, Labels, Outside
  <2>4. st \in Stacks /\ Top(t).depth \in 0 .. MaxDepth - 1 /\ Top(t).canon \in Strings
    BY <2>2 DEF StackInv, Frames, Strings
  <2>5. new \in Stacks /\ new[Top(t).depth] = Top(t).canon
    BY <2>4 DEF Stacks
  <2>6. fgn_active_stack' = [fgn_active_stack EXCEPT ![t] = new]
    BY <1>3
  <2> HIDE DEF new
  <2>7. /\ fgn_active_stack' \in [Threads -> Stacks] /\ fgn_active_stack'[t] = new
        /\ \A u \in Threads \ {t} : fgn_active_stack'[u] = fgn_active_stack[u]
    BY <2>5, <2>6 DEF StackInv
  <2>8. ASSUME t \notin nested PROVE Sound(s, new)
    <3>1. Sound(c, st)
      BY <2>8 DEF StackInv
    <3> HIDE DEF c, st, f
    <3>2. Sound(c, new)
      BY <2>2, <2>4, <3>1, SoundEnter DEF Entered, InTable, new
    <3> QED BY <2>2, <2>3, <2>5, <3>2, SoundTop
  <2>9. calls' = [calls EXCEPT ![t] = s]
    BY <2>1 DEF Goto, SetTop
  <2> HIDE DEF s
  <2> QED BY <1>1, <2>7, <2>8, <2>9, StackStep
<1> QED BY <1>2, <1>3 DEF NoLoad

LEMMA RecurseKeepsStack ==
  ASSUME TypeInv, StackInv, NEW t \in Threads, Recurse(t)
  PROVE  StackInv'
<1> DEFINE f == [Top(t) EXCEPT !.deps = @ - 1]
           g == Load(t, "get", f.depth + 1)
<1>1. At(t, "walk") /\ Top(t).deps > 0 /\ UNCHANGED <<fgn_active_stack, nested>>
  BY DEF Recurse
<1>2. Top(t) \in Frames /\ Top(t).at = "walk"
  BY <1>1, AtLoad DEF Labels, Outside
<1>3. /\ f \in Frames /\ f.at = "walk"
      /\ f.depth = Top(t).depth /\ f.canon = Top(t).canon
  BY <1>1, <1>2 DEF Frames
<1>4. f.depth \in Nat /\ MaxDepth \in Nat
  BY <1>3, LimitsAssumption DEF Frames
<1>5. CASE SetTop(t, f)
  <2> HIDE DEF f
  <2> QED BY <1>1, <1>3, <1>5, StackTop DEF Labels, Outside
<1>6. CASE f.depth + 1 < MaxDepth /\ Push(t, f, g)
  <2> HIDE DEF f
  <2>1. f.depth + 1 \in 0 .. MaxDepth - 1
    BY <1>4, <1>6
  <2>2. g \in Frames /\ g.at = "get" /\ g.depth = f.depth + 1
    BY <2>1, LoadIsFrame DEF Labels, Outside, Load
  <2> HIDE DEF g
  <2> QED BY <1>1, <1>3, <1>6, <2>2, StackPush DEF Labels, Outside, Entered, InTable
<1>7. SetTop(t, f) \/ (f.depth + 1 < MaxDepth /\ Push(t, f, g))
  <2>1. f.depth + 1 >= MaxDepth \/ f.depth + 1 < MaxDepth
    BY <1>4
  <2> QED BY <1>4, <2>1 DEF Recurse
<1> QED BY <1>5, <1>6, <1>7

\* A thread that has not opened anything inside a walk has no load open when it
\* starts one.
LEMMA AttemptKeepsStack ==
  ASSUME TypeInv, StackInv, NEW t \in Threads, Attempt(t)
  PROVE  StackInv'
<1> DEFINE c == calls[t]
           g == Load(t, "scan", 0)
           s == Append(c, g)
<1>1. calls' = [calls EXCEPT ![t] = s] /\ UNCHANGED fgn_active_stack
  BY DEF Attempt
<1>2. g \in Frames /\ g.at = "scan" /\ g.depth = 0
  BY LoadIsFrame, LimitsAssumption DEF Labels, Outside, Load
<1>3. nested \subseteq nested'
  BY DEF Attempt
<1>4. ASSUME t \notin nested' PROVE Sound(s, fgn_active_stack[t])
  <2>1. c \in Seq(Frames)
    BY DEF TypeInv
  <2>2. \A i \in 1 .. Len(c) : ~LoadAt(c, i)
    BY <1>4, <2>1 DEF Attempt, LoadAt
  <2>3. Sound(c, fgn_active_stack[t])
    BY <1>3, <1>4 DEF StackInv
  <2> HIDE DEF c, g
  <2> QED BY <1>2, <2>1, <2>2, <2>3, SoundPush DEF Entered, InTable
<1> HIDE DEF s
<1> QED BY <1>1, <1>3, <1>4, StackStep DEF StackInv

LEMMA PassThroughKeepsStack ==
  ASSUME TypeInv, StackInv, NEW t \in Threads, PassThrough(t)
  PROVE  StackInv'
<1>1. calls' = [calls EXCEPT ![t] = <<Ctor>>] /\ UNCHANGED <<fgn_active_stack, nested>>
  BY DEF PassThrough
<1>2. Sound(<<Ctor>>, fgn_active_stack[t])
  BY DEF Sound, LoadAt, Ctor
<1> QED BY <1>1, <1>2, StackStep DEF StackInv

\* The steps of a load that only move it to another label.
LEMMA GotoStepKeepsStack ==
  ASSUME TypeInv, StackInv, NEW t \in Threads,
         \/ ScanLock(t) \/ ScanAsk(t) \/ Get(t) \/ Search(t) \/ Add(t) \/ Ask(t)
  PROVE  StackInv'
<1> USE DEF Labels, Outside, InTable, Entered, started
<1>1. CASE ScanLock(t)
  <2>1. /\ At(t, "scan") /\ UNCHANGED <<fgn_active_stack, nested>>
        /\ Goto(t, "get") \/ Goto(t, "scan_ask")
    BY <1>1 DEF ScanLock
  <2> QED BY <2>1, StackGoto
<1>2. CASE ScanAsk(t)
  BY <1>2, StackGoto DEF ScanAsk
<1>3. CASE Get(t)
  <2>1. /\ At(t, "get") /\ UNCHANGED <<fgn_active_stack, nested>>
        /\ Return(t) \/ Goto(t, "noload")
    BY <1>3 DEF Get
  <2> QED BY <2>1, StackGoto, StackReturn DEF At
<1>4. CASE Search(t)
  <2>1. /\ At(t, "search") /\ UNCHANGED <<fgn_active_stack, nested>>
        /\ Goto(t, "require") \/ Goto(t, "add")
    BY <1>4 DEF Search
  <2> QED BY <2>1, StackGoto
<1>5. CASE Add(t)
  BY <1>5, StackGoto DEF Add
<1>6. CASE Ask(t)
  BY <1>6, StackGoto DEF Ask
<1> QED BY <1>1, <1>2, <1>3, <1>4, <1>5, <1>6

\* The steps of a walk that change more of it, and the calls of ld.so.
LEMMA LoadStepKeepsStack ==
  ASSUME TypeInv, StackInv, NEW t \in Threads,
         \/ OpenPlain(t) \/ Probe(t) \/ EndWalk(t) \/ LockProviders(t) \/ Open(t)
  PROVE  StackInv'
<1> USE DEF started
<1>1. CASE OpenPlain(t)
  <2> DEFINE f == [Top(t) EXCEPT !.at = "opened"]
  <2>1. At(t, "plain") /\ EnterLoader(t, f) /\ UNCHANGED <<fgn_active_stack, nested>>
    BY <1>1 DEF OpenPlain
  <2>2. Top(t) \in Frames
    BY <2>1, AtLoad DEF Labels, Outside
  <2>3. f \in Frames /\ f.at = "opened" /\ f.depth = Top(t).depth /\ f.canon = Top(t).canon
    BY <2>2 DEF Frames, Labels, Outside
  <2> HIDE DEF f
  <2> QED BY <2>1, <2>3, StackEnterLoader DEF Labels, Outside, Entered, InTable
<1>2. CASE Probe(t)
  <2> DEFINE f == [Top(t) EXCEPT !.deps = @ - 1]
  <2>1. /\ At(t, "walk") /\ Top(t).deps > 0 /\ EnterLoader(t, f)
        /\ UNCHANGED <<fgn_active_stack, nested>>
    BY <1>2 DEF Probe
  <2>2. Top(t) \in Frames /\ Top(t).at = "walk"
    BY <2>1, AtLoad DEF Labels, Outside
  <2>3. f \in Frames /\ f.at = "walk" /\ f.depth = Top(t).depth /\ f.canon = Top(t).canon
    BY <2>1, <2>2 DEF Frames
  <2> HIDE DEF f
  <2> QED BY <2>1, <2>3, StackEnterLoader DEF Labels, Outside, Entered
<1>3. CASE EndWalk(t)
  <2>1. At(t, "walk") /\ UNCHANGED <<fgn_active_stack, nested>>
    BY <1>3 DEF EndWalk
  <2>2. PICK fs \in SUBSET Files : SetTop(t, [Top(t) EXCEPT !.at = "require", !.files = fs])
    BY <1>3 DEF EndWalk
  <2> DEFINE f == [Top(t) EXCEPT !.at = "require", !.files = fs]
  <2>3. Top(t) \in Frames
    BY <2>1, AtLoad DEF Labels, Outside
  <2>4. f \in Frames /\ f.at = "require" /\ f.depth = Top(t).depth /\ f.canon = Top(t).canon
    BY <2>2, <2>3 DEF Frames, Labels, Outside
  <2>5. SetTop(t, f)
    BY <2>2
  <2> HIDE DEF f
  <2> QED BY <2>1, <2>4, <2>5, StackTop DEF Labels, Outside, Entered
<1>4. CASE LockProviders(t)
  <2>1. At(t, "require") /\ UNCHANGED <<fgn_active_stack, nested>>
    BY <1>4 DEF LockProviders
  <2>2. PICK w \in Top(t).files :
          SetTop(t, [Top(t) EXCEPT !.at = "search", !.want = w, !.files = @ \ {w}])
    BY <1>4 DEF LockProviders
  <2> DEFINE f == [Top(t) EXCEPT !.at = "search", !.want = w, !.files = @ \ {w}]
  <2>3. Top(t) \in Frames
    BY <2>1, AtLoad DEF Labels, Outside
  <2>4. f \in Frames /\ f.at = "search" /\ f.depth = Top(t).depth /\ f.canon = Top(t).canon
    BY <2>2, <2>3 DEF Frames, Labels, InTable
  <2>5. SetTop(t, f)
    BY <2>2
  <2> HIDE DEF f
  <2> QED BY <2>1, <2>4, <2>5, StackTop DEF Labels, Outside, Entered
<1>5. CASE Open(t)
  <2> DEFINE f == [Top(t) EXCEPT !.at = "put"]
  <2>1. /\ At(t, "require") /\ UNCHANGED <<fgn_active_stack, nested>>
        /\ EnterLoader(t, f) \/ Return(t)
    BY <1>5 DEF Open
  <2>2. Top(t) \in Frames
    BY <2>1, AtLoad DEF Labels, Outside
  <2>3. f \in Frames /\ f.at = "put" /\ f.depth = Top(t).depth /\ f.canon = Top(t).canon
    BY <2>2 DEF Frames, Labels, Outside
  <2> HIDE DEF f
  <2> QED BY <2>1, <2>3, StackEnterLoader, StackReturn DEF At, Labels, Outside, Entered
<1> QED BY <1>1, <1>2, <1>3, <1>4, <1>5

LEMMA ReturnStepKeepsStack ==
  ASSUME TypeInv, StackInv, NEW t \in Threads, CtorEnds(t) \/ Unrecorded(t) \/ Put(t)
  PROVE  StackInv'
BY StackReturn DEF CtorEnds, Unrecorded, Put, At, started

------------------------------------------------------------------------------
(* The theorem.                                                            *)

LEMMA StackInit == Init => StackInv
<1> SUFFICES ASSUME Init PROVE StackInv
  OBVIOUS
<1>1. fgn_active_stack \in [Threads -> Stacks]
  BY DEF Init, Stacks, Strings
<1>2. \A t \in Threads : Len(calls[t]) = 0
  BY DEF Init
<1> QED BY <1>1, <1>2 DEF StackInv, Sound

LEMMA StackNext == TypeInv /\ StackInv /\ [Next]_vars => StackInv'
<1> SUFFICES ASSUME TypeInv, StackInv, [Next]_vars PROVE StackInv'
  OBVIOUS
<1>1. ASSUME NEW t \in Threads, Step(t) PROVE StackInv'
  BY <1>1, NoLoadKeepsStack, RecurseKeepsStack, GotoStepKeepsStack, LoadStepKeepsStack,
     ReturnStepKeepsStack DEF Step
<1>2. CASE UNCHANGED vars
  BY <1>2 DEF vars, StackInv, Sound, InChain, LoadAt
<1> QED BY <1>1, <1>2, AttemptKeepsStack, PassThroughKeepsStack DEF Next

LEMMA StackIsRight == TypeInv /\ StackInv => StackIsOwn
<1> SUFFICES ASSUME TypeInv, StackInv, NEW t \in Threads \ nested, At(t, "walk"),
                    NEW j \in 0 .. Top(t).depth
             PROVE  fgn_active_stack[t][j]
                      = calls[t][Len(calls[t]) - Top(t).depth + j].canon
  BY DEF StackIsOwn
<1> DEFINE c == calls[t]
           n == Len(c)
           d == Top(t).depth
           i == n - d + j
<1>1. c \in Seq(Frames) /\ c # <<>> /\ Top(t) = c[n] /\ c[n].at = "walk"
  BY AtLoad DEF Labels, Outside
<1>2. n \in 1 .. n /\ d \in Nat
  BY <1>1, FramesHaveDepth
<1>3. Sound(c, fgn_active_stack[t])
  BY DEF StackInv
<1>4. InChain(c, n)
  BY <1>1, <1>2, <1>3 DEF Sound, LoadAt
<1>5. i \in 1 .. n /\ c[i].depth = j /\ c[i].at = "walk"
  <2> HIDE DEF c
  <2>1. CASE j = d
    BY <1>1, <1>2, <2>1
  <2>2. CASE j # d
    <3>1. j \in 0 .. d - 1
      BY <1>2, <2>2
    <3> QED BY <1>1, <1>2, <1>4, <3>1 DEF InChain
  <2> QED BY <2>1, <2>2
<1>6. fgn_active_stack[t][c[i].depth] = c[i].canon
  BY <1>3, <1>5 DEF Sound, LoadAt, Entered
<1> QED BY <1>5, <1>6

\* A walk finds on fgn_active_stack the paths of exactly the loads it is
\* inside, none of them freed, whatever other threads and earlier opens of the
\* same thread have left there; a thread whose constructors have opened a host
\* library in the middle of a walk is the only exception.
THEOREM StackIsTheChain == Spec => []StackIsOwn
<1>1. TableInv => TypeInv
  BY DEF TableInv
<1> QED BY <1>1, TableInit, TableStep, StackInit, StackNext, StackIsRight, PTL DEF Spec
==============================================================================
