-------------------------- MODULE ForeignOpenProofs --------------------------
(***************************************************************************)
(* Three results about ForeignOpen, for any processes, threads and objects *)
(* and any number of opens, kills, failed writes and days.                 *)
(*                                                                         *)
(* No name is ever a half-written image.  Both ways to place a copy write  *)
(* it under no name, or under a name that nobody opens, and only then give *)
(* it one, so the invariant (WholeInv) is about the image in a thread's    *)
(* hands: it is whole wherever the next step may put it under the object's *)
(* name.                                                                   *)
(*                                                                         *)
(* A process that opens from one thread, with room in its handle cache,    *)
(* gives one handle per object and writes no object out that it has        *)
(* (HandleInv): what the thread's lookup missed is missing until it has    *)
(* recorded it, and what is open under its own name is on record.          *)
(*                                                                         *)
(* Only faults leave templates behind (LeftInv).                           *)
(***************************************************************************)
EXTENDS ForeignOpen, FiniteSetTheorems, TLAPS

Image == [object : Objects, tags : BOOLEAN, whole : BOOLEAN]
MaybeImage == Image \cup {NoImage}
Locations == {"idle", "get", "noload", "unlink", "tmpfile", "link", "mkstemp",
              "write", "rename", "copy", "plain", "put"}

TypeInv ==
  /\ dir \in [Objects -> MaybeImage]
  /\ mapped \in [Procs -> [Objects -> MaybeImage]]
  /\ image \in [Threads -> MaybeImage]
  /\ object \in [Threads -> Objects \cup {NoName}]
  /\ pc \in [Threads -> Locations]

\* A thread inside an open has an object.
Busy == \A t \in Threads : pc[t] # "idle" => object[t] \in Objects

\* What is about to get the object's name is whole.
ReadyIsWhole ==
  \A t \in Threads : pc[t] \in {"link", "rename"} => image[t] \in Image /\ image[t].whole

WholeInv == TypeInv /\ Busy /\ ReadyIsWhole /\ WholeImages

------------------------------------------------------------------------------
LEMMA RewrittenIsWhole ==
  ASSUME NEW p \in Procs, NEW o \in Objects
  PROVE  Rewritten(p, o) \in Image /\ Rewritten(p, o).whole
BY DEF Rewritten, Image

LEMMA ThreadHasProc == \A t \in Threads : Proc(t) \in Procs
BY DEF Threads, Proc

\* A step that leaves the directory and the process's objects alone.
LEMMA QuietStep ==
  ASSUME WholeInv, NEW t \in Threads, NEW l \in Locations,
         pc[t] # "idle" \/ l = "idle", l \notin {"link", "rename"}, Goto(t, l),
         UNCHANGED <<dir, mapped, image, object>>
  PROVE  WholeInv'
<1>1. pc' = [pc EXCEPT ![t] = l]
  BY DEF Goto
<1>2. TypeInv'
  BY <1>1 DEF WholeInv, TypeInv
<1>3. Busy'
  BY <1>1 DEF WholeInv, TypeInv, Busy
<1>4. ReadyIsWhole'
  BY <1>1 DEF WholeInv, TypeInv, ReadyIsWhole
<1>5. WholeImages'
  BY DEF WholeInv, WholeImages
<1> QED BY <1>2, <1>3, <1>4, <1>5 DEF WholeInv

\* A step that fills the image in a thread's hands, to the end.
LEMMA FillStep ==
  ASSUME WholeInv, NEW t \in Threads, pc[t] # "idle", NEW l \in Locations, Goto(t, l),
         image' = [image EXCEPT ![t] = Rewritten(Proc(t), object[t])],
         UNCHANGED <<dir, mapped, object>>
  PROVE  WholeInv'
<1>1. pc' = [pc EXCEPT ![t] = l]
  BY DEF Goto
<1>2. object[t] \in Objects /\ Proc(t) \in Procs
  BY ThreadHasProc DEF WholeInv, Busy
<1> DEFINE i == Rewritten(Proc(t), object[t])
<1>3. i \in Image /\ i.whole
  BY <1>2, RewrittenIsWhole
<1> HIDE DEF i
<1>4. image' = [image EXCEPT ![t] = i]
  BY DEF i
<1>5. TypeInv'
  BY <1>1, <1>3, <1>4 DEF WholeInv, TypeInv, MaybeImage
<1>6. Busy'
  BY <1>1 DEF WholeInv, TypeInv, Busy
<1>7. ReadyIsWhole'
  BY <1>1, <1>3, <1>4 DEF WholeInv, TypeInv, ReadyIsWhole
<1>8. WholeImages'
  BY DEF WholeInv, WholeImages
<1> QED BY <1>5, <1>6, <1>7, <1>8 DEF WholeInv

\* A step that puts a whole image, or none, under an object's name.
LEMMA PlaceStep ==
  ASSUME WholeInv, NEW t \in Threads, pc[t] # "idle", NEW l \in Locations,
         l \notin {"link", "rename"}, Goto(t, l),
         NEW i \in MaybeImage, i # NoImage => i.whole, NEW o \in Objects,
         dir' = [dir EXCEPT ![o] = i],
         UNCHANGED <<mapped, image, object>>
  PROVE  WholeInv'
<1>1. pc' = [pc EXCEPT ![t] = l]
  BY DEF Goto
<1>2. TypeInv'
  BY <1>1 DEF WholeInv, TypeInv
<1>3. Busy'
  BY <1>1 DEF WholeInv, TypeInv, Busy
<1>4. ReadyIsWhole'
  BY <1>1 DEF WholeInv, TypeInv, ReadyIsWhole
<1>5. WholeImages'
  BY DEF WholeInv, TypeInv, WholeImages
<1> QED BY <1>2, <1>3, <1>4, <1>5 DEF WholeInv

------------------------------------------------------------------------------
(* The steps of an open.                                                   *)

LEMMA QuietActions ==
  ASSUME WholeInv, NEW t \in Threads,
         \/ CacheGet(t) \/ NoLoad(t) \/ MkStemp(t) \/ WriteFails(t) \/ RenameFails(t)
         \/ OpenPlain(t) \/ CachePut(t)
  PROVE  WholeInv'
<1> USE DEF Locations, dirVars, procVars
<1>1. CASE CacheGet(t)
  <2>1. /\ pc[t] = "get" /\ UNCHANGED <<dir, mapped, image, object>>
        /\ Goto(t, "idle") \/ Goto(t, "noload")
    BY <1>1 DEF CacheGet, Return
  <2> QED BY <2>1, QuietStep
<1>2. CASE NoLoad(t)
  <2>1. /\ pc[t] = "noload" /\ UNCHANGED <<dir, mapped, image, object>>
        /\ Goto(t, "idle") \/ Goto(t, "unlink")
    BY <1>2 DEF NoLoad, Return
  <2> QED BY <2>1, QuietStep
<1>3. CASE MkStemp(t)
  <2>1. /\ pc[t] = "mkstemp" /\ UNCHANGED <<dir, mapped, image, object>>
        /\ Goto(t, "write") \/ Goto(t, "plain")
    BY <1>3 DEF MkStemp
  <2> QED BY <2>1, QuietStep
<1>4. CASE WriteFails(t)
  BY <1>4, QuietStep DEF WriteFails
<1>5. CASE RenameFails(t)
  BY <1>5, QuietStep DEF RenameFails
<1>6. CASE OpenPlain(t)
  <2>1. /\ pc[t] = "plain" /\ UNCHANGED <<dir, mapped, image, object>>
        /\ Goto(t, "idle") \/ Goto(t, "put")
    BY <1>6 DEF OpenPlain, Return
  <2> QED BY <2>1, QuietStep
<1>7. CASE CachePut(t)
  BY <1>7, QuietStep DEF CachePut, Return
<1> QED BY <1>1, <1>2, <1>3, <1>4, <1>5, <1>6, <1>7

LEMMA WritingActions ==
  ASSUME WholeInv, NEW t \in Threads,
         Unlink(t) \/ TmpFile(t) \/ Link(t) \/ WriteAll(t) \/ Rename(t)
  PROVE  WholeInv'
<1> USE DEF Locations, dirVars, procVars
<1>1. ASSUME pc[t] # "idle" PROVE object[t] \in Objects
  BY <1>1 DEF WholeInv, Busy
<1>2. CASE Unlink(t)
  BY <1>1, <1>2, PlaceStep DEF Unlink, MaybeImage
<1>3. CASE TmpFile(t)
  BY <1>3, FillStep, QuietStep DEF TmpFile
<1>4. CASE Link(t)
  <2>1. image[t] \in MaybeImage /\ image[t].whole /\ pc[t] = "link"
    BY <1>4 DEF Link, WholeInv, ReadyIsWhole, MaybeImage
  <2>2. CASE dir' = [dir EXCEPT ![object[t]] = image[t]] /\ Goto(t, "copy")
    BY <1>1, <1>4, <2>1, <2>2, PlaceStep DEF Link
  <2>3. CASE UNCHANGED dir /\ Goto(t, "mkstemp")
    BY <1>4, <2>1, <2>3, QuietStep DEF Link
  <2> QED BY <1>4, <2>2, <2>3 DEF Link
<1>5. CASE WriteAll(t)
  BY <1>5, FillStep DEF WriteAll
<1>6. CASE Rename(t)
  <2>1. image[t] \in MaybeImage /\ image[t].whole /\ pc[t] = "rename"
    BY <1>6 DEF Rename, WholeInv, ReadyIsWhole, MaybeImage
  <2> QED BY <1>1, <1>6, <2>1, PlaceStep DEF Rename
<1> QED BY <1>2, <1>3, <1>4, <1>5, <1>6

\* ld.so maps what is under the name.
LEMMA OpenCopyAction ==
  ASSUME WholeInv, NEW t \in Threads, OpenCopy(t)
  PROVE  WholeInv'
<1> DEFINE p == Proc(t)
           o == object[t]
<1>1. p \in Procs /\ o \in Objects /\ pc[t] = "copy"
  BY ThreadHasProc DEF OpenCopy, WholeInv, Busy
<1>2. PICK i \in {dir[o], mapped[p][o]} : mapped' = [mapped EXCEPT ![p][o] = i]
  BY DEF OpenCopy
<1>3. i \in MaybeImage /\ (i # NoImage => i.whole)
  BY <1>1, <1>2 DEF WholeInv, TypeInv, WholeImages
<1>4. UNCHANGED <<dir, image, object>>
  BY DEF OpenCopy, dirVars
<1>5. PICK l \in {"put", "plain"} : pc' = [pc EXCEPT ![t] = l]
  BY DEF OpenCopy, Goto
<1> HIDE DEF p, o
<1>6. TypeInv'
  BY <1>1, <1>2, <1>3, <1>4, <1>5 DEF WholeInv, TypeInv, Locations
<1>7. Busy' /\ ReadyIsWhole'
  BY <1>1, <1>4, <1>5 DEF WholeInv, TypeInv, Busy, ReadyIsWhole
<1>8. WholeImages'
  BY <1>1, <1>2, <1>3, <1>4 DEF WholeInv, TypeInv, WholeImages
<1> QED BY <1>6, <1>7, <1>8 DEF WholeInv

LEMMA AttemptAction ==
  ASSUME WholeInv, NEW t \in Threads, NEW o \in Objects, Attempt(t, o)
  PROVE  WholeInv'
<1>1. /\ UNCHANGED <<dir, mapped, image>>
      /\ object' = [object EXCEPT ![t] = o] /\ pc' = [pc EXCEPT ![t] = "get"]
  BY DEF Attempt, Goto, dirVars, procVars
<1>2. TypeInv'
  BY <1>1 DEF WholeInv, TypeInv, Locations
<1>3. Busy' /\ ReadyIsWhole'
  BY <1>1 DEF WholeInv, TypeInv, Busy, ReadyIsWhole
<1>4. WholeImages'
  BY <1>1 DEF WholeInv, WholeImages
<1> QED BY <1>2, <1>3, <1>4 DEF WholeInv

------------------------------------------------------------------------------
(* The steps of a process, and a day.                                      *)

LEMMA ProcessActions ==
  ASSUME WholeInv, NEW p \in Procs,
         \/ Start(p) \/ SweepUnlink(p) \/ SweepDone(p) \/ Exit(p)
         \/ \E n \in Objects \cup temps : SweepStat(p, n)
  PROVE  WholeInv'
<1>1. CASE Start(p) \/ SweepDone(p) \/ \E n \in Objects \cup temps : SweepStat(p, n)
  <2>1. UNCHANGED <<dir, mapped, image, object, pc>>
    BY <1>1 DEF Start, SweepDone, SweepStat, dirVars
  <2> QED BY <2>1 DEF WholeInv, TypeInv, Busy, ReadyIsWhole, WholeImages
<1>2. CASE SweepUnlink(p)
  <2>1. /\ UNCHANGED <<mapped, image, object, pc>>
        /\ UNCHANGED dir \/ dir' = [dir EXCEPT ![target[p]] = NoImage]
    BY <1>2 DEF SweepUnlink
  <2>2. TypeInv' /\ Busy' /\ ReadyIsWhole'
    BY <2>1 DEF WholeInv, TypeInv, MaybeImage, Busy, ReadyIsWhole
  <2>3. WholeImages'
    BY <2>1 DEF WholeInv, TypeInv, WholeImages
  <2> QED BY <2>2, <2>3 DEF WholeInv
<1>3. CASE Exit(p)
  <2>1. /\ UNCHANGED <<dir, image, object>>
        /\ mapped' = [mapped EXCEPT ![p] = [o \in Objects |-> NoImage]]
        /\ pc' = [t \in Threads |-> IF Proc(t) = p THEN "idle" ELSE pc[t]]
    BY <1>3 DEF Exit, dirVars
  <2>2. TypeInv'
    BY <2>1 DEF WholeInv, TypeInv, MaybeImage, Locations
  <2>3. Busy' /\ ReadyIsWhole'
    BY <2>1 DEF WholeInv, TypeInv, Busy, ReadyIsWhole
  <2>4. WholeImages'
    BY <2>1 DEF WholeInv, TypeInv, WholeImages
  <2> QED BY <2>2, <2>3, <2>4 DEF WholeInv
<1> QED BY <1>1, <1>2, <1>3

LEMMA WholeInit == Init => WholeInv
BY DEF Init, WholeInv, TypeInv, MaybeImage, Locations, Busy, ReadyIsWhole, WholeImages

LEMMA WholeStep == WholeInv /\ [Next]_vars => WholeInv'
<1> SUFFICES ASSUME WholeInv, [Next]_vars PROVE WholeInv'
  OBVIOUS
<1>1. ASSUME NEW t \in Threads, Step(t) PROVE WholeInv'
  BY <1>1, QuietActions, WritingActions, OpenCopyAction DEF Step
<1>2. CASE NewDay
  BY <1>2 DEF NewDay, procVars, WholeInv, TypeInv, Busy, ReadyIsWhole, WholeImages
<1>3. CASE UNCHANGED vars
  BY <1>3 DEF vars, dirVars, procVars, WholeInv, TypeInv, Busy, ReadyIsWhole, WholeImages
<1> QED BY <1>1, <1>2, <1>3, AttemptAction, ProcessActions DEF Next

\* However many processes write, replace, sweep and open copies at once, and
\* wherever they are killed or run out of space, the name of a copy is never a
\* half-written image, and no process has one mapped.
THEOREM CopiesAreWhole == Spec => []WholeImages
<1>1. WholeInv => WholeImages
  BY DEF WholeInv
<1> QED BY <1>1, WholeInit, WholeStep, PTL DEF Spec

------------------------------------------------------------------------------
(* One handle per object, and one copy, for a process with one opening thread *)
(* whose handle cache has room for every object.  The thread is alone with    *)
(* its process's cache, so what its lookup found stays true until its record; *)
(* other processes share only the directory.                                  *)

OneOpener ==
  ThreadsPerProc = 1 /\ IsFiniteSet(Objects) /\ Cardinality(Objects) <= CacheMax

Handles == {"copy", "plain"}
Writing == {"unlink", "tmpfile", "link", "mkstemp", "write", "rename", "copy"}
Searching == Writing \cup {"noload", "plain", "put"}

HandleTypes ==
  /\ cache \in [Procs -> [Objects -> Handles \cup {NoHandle}]]
  /\ used \in [Procs -> Nat]
  /\ plain \in [Procs -> SUBSET Objects]
  /\ given \in [Procs -> [Objects -> SUBSET Handles]]
  /\ handle \in [Threads -> Handles \cup {NoHandle}]

\* An open past its lookup is of an object without a record.
Unrecorded ==
  \A t \in Threads : pc[t] \in Searching => cache[Proc(t)][object[t]] = NoHandle

\* A load that is about to be recorded has a handle.
InHand == \A t \in Threads : pc[t] = "put" => handle[t] \in Handles

\* An object that is open under its own name is recorded, or about to be.
PlainIsRecorded ==
  \A p \in Procs : \A o \in plain[p] :
    \/ cache[p][o] # NoHandle
    \/ \E t \in Threads : Proc(t) = p /\ object[t] = o /\ pc[t] = "put"

\* Callers were given what is recorded.
GivenIsRecorded ==
  \A p \in Procs, o \in Objects : \A h \in given[p][o] : h = cache[p][o]

Recorded(p) == {o \in Objects : cache[p][o] # NoHandle}
UsedCounts == \A p \in Procs : used[p] = Cardinality(Recorded(p))

HandleInv ==
  /\ HandleTypes /\ Unrecorded /\ InHand /\ PlainIsRecorded /\ GivenIsRecorded
  /\ UsedCounts

LEMMA OneThreadEach ==
  ASSUME OneOpener, NEW t \in Threads, NEW u \in Threads, Proc(t) = Proc(u)
  PROVE  t = u
BY ThreadsAssumption DEF OneOpener, Threads, Proc

\* A step inside an open that has no part in handles and records.
LEMMA UnhandledStep ==
  ASSUME WholeInv, HandleInv, NEW t \in Threads, NEW l \in Searching \ {"put"}, Goto(t, l),
         pc[t] \in Searching \ {"put"},
         UNCHANGED <<cache, used, plain, given, handle, object>>
  PROVE  HandleInv'
<1>1. pc' = [pc EXCEPT ![t] = l] /\ pc \in [Threads -> Locations]
  BY DEF Goto, WholeInv, TypeInv
<1>2. HandleTypes' /\ GivenIsRecorded'
  BY DEF HandleInv, HandleTypes, GivenIsRecorded
<1>3. Unrecorded' /\ InHand'
  BY <1>1 DEF HandleInv, Unrecorded, InHand
<1>4. PlainIsRecorded'
  BY <1>1 DEF HandleInv, PlainIsRecorded
<1>5. UsedCounts'
  BY DEF HandleInv, UsedCounts, Recorded
<1> QED BY <1>2, <1>3, <1>4, <1>5 DEF HandleInv

LEMMA WritingHandles ==
  ASSUME WholeInv, HandleInv, NEW t \in Threads,
         \/ Unlink(t) \/ TmpFile(t) \/ Link(t) \/ MkStemp(t) \/ WriteAll(t)
         \/ WriteFails(t) \/ Rename(t) \/ RenameFails(t)
  PROVE  HandleInv'
<1>1. /\ UNCHANGED <<cache, used, plain, given, handle, object>>
      /\ pc[t] \in Searching \ {"put"}
      /\ \E l \in Searching \ {"put"} : Goto(t, l)
  BY DEF Unlink, TmpFile, Link, MkStemp, WriteAll, WriteFails, Rename, RenameFails,
         procVars, Searching, Writing
<1> QED BY <1>1, UnhandledStep

LEMMA AttemptHandles ==
  ASSUME WholeInv, HandleInv, NEW t \in Threads, NEW o \in Objects, Attempt(t, o)
  PROVE  HandleInv'
<1>1. /\ UNCHANGED <<cache, used, plain, given, handle>> /\ pc[t] = "idle"
      /\ object' = [object EXCEPT ![t] = o] /\ pc' = [pc EXCEPT ![t] = "get"]
  BY DEF Attempt, Goto, procVars
<1>2. pc \in [Threads -> Locations] /\ object \in [Threads -> Objects \cup {NoName}]
  BY DEF WholeInv, TypeInv
<1>3. HandleTypes' /\ GivenIsRecorded' /\ UsedCounts'
  BY <1>1 DEF HandleInv, HandleTypes, GivenIsRecorded, UsedCounts, Recorded
<1>4. Unrecorded' /\ InHand'
  BY <1>1, <1>2 DEF HandleInv, Unrecorded, InHand, Searching, Writing
<1>5. PlainIsRecorded'
  BY <1>1, <1>2 DEF HandleInv, PlainIsRecorded
<1> QED BY <1>3, <1>4, <1>5 DEF HandleInv

LEMMA CacheGetHandles ==
  ASSUME WholeInv, HandleInv, NEW t \in Threads, CacheGet(t)
  PROVE  HandleInv'
<1> DEFINE p == Proc(t)
           o == object[t]
           h == cache[p][o]
<1>1. pc[t] = "get" /\ UNCHANGED <<cache, used, plain, handle, object>>
  BY DEF CacheGet
<1>2. p \in Procs /\ o \in Objects /\ pc \in [Threads -> Locations]
  BY <1>1, ThreadHasProc DEF WholeInv, TypeInv, Busy
<1>3. UsedCounts'
  BY <1>1 DEF HandleInv, UsedCounts, Recorded
<1>4. CASE h # NoHandle
  <2>1. /\ pc' = [pc EXCEPT ![t] = "idle"]
        /\ given' = [given EXCEPT ![p][o] = @ \cup {h}]
    BY <1>4 DEF CacheGet, Return, Goto
  <2>2. HandleTypes'
    BY <1>1, <1>2, <1>4, <2>1 DEF HandleInv, HandleTypes
  <2>3. GivenIsRecorded'
    BY <1>1, <1>2, <2>1 DEF HandleInv, HandleTypes, GivenIsRecorded
  <2>4. Unrecorded' /\ InHand'
    BY <1>1, <1>2, <2>1 DEF HandleInv, Unrecorded, InHand, Searching, Writing
  <2>5. PlainIsRecorded'
    BY <1>1, <1>2, <2>1 DEF HandleInv, PlainIsRecorded
  <2> QED BY <1>3, <2>2, <2>3, <2>4, <2>5 DEF HandleInv
<1>5. CASE h = NoHandle
  <2>1. pc' = [pc EXCEPT ![t] = "noload"] /\ UNCHANGED given
    BY <1>5 DEF CacheGet, Goto
  <2>2. HandleTypes' /\ GivenIsRecorded'
    BY <1>1, <2>1 DEF HandleInv, HandleTypes, GivenIsRecorded
  <2>3. Unrecorded' /\ InHand'
    BY <1>1, <1>2, <1>5, <2>1 DEF HandleInv, Unrecorded, InHand
  <2>4. PlainIsRecorded'
    BY <1>1, <1>2, <2>1 DEF HandleInv, PlainIsRecorded
  <2> QED BY <1>3, <2>2, <2>3, <2>4 DEF HandleInv
<1> QED BY <1>4, <1>5

\* The probe finds nothing: what is open under its own name is on record.
LEMMA NoLoadHandles ==
  ASSUME OneOpener, WholeInv, HandleInv, NEW t \in Threads, NoLoad(t)
  PROVE  HandleInv'
<1>1. pc[t] = "noload" /\ UNCHANGED <<cache, used, plain, handle, object>>
  BY DEF NoLoad
<1>2. Proc(t) \in Procs /\ cache[Proc(t)][object[t]] = NoHandle
  BY <1>1, ThreadHasProc DEF HandleInv, Unrecorded, Searching
<1>3. object[t] \notin plain[Proc(t)]
  BY <1>1, <1>2, OneThreadEach DEF HandleInv, PlainIsRecorded
<1>4. Goto(t, "unlink") /\ UNCHANGED given
  BY <1>3 DEF NoLoad
<1> QED BY <1>1, <1>4, UnhandledStep DEF Searching, Writing

LEMMA OpenCopyHandles ==
  ASSUME WholeInv, HandleInv, NEW t \in Threads, OpenCopy(t)
  PROVE  HandleInv'
<1>1. pc[t] = "copy" /\ UNCHANGED <<cache, used, plain, given, object>>
  BY DEF OpenCopy
<1>2. CASE Goto(t, "plain") /\ UNCHANGED handle
  BY <1>1, <1>2, UnhandledStep DEF Searching, Writing
<1>3. CASE Goto(t, "put") /\ handle' = [handle EXCEPT ![t] = "copy"]
  <2>1. pc' = [pc EXCEPT ![t] = "put"] /\ pc \in [Threads -> Locations]
    BY <1>3 DEF Goto, WholeInv, TypeInv
  <2>2. HandleTypes' /\ GivenIsRecorded' /\ UsedCounts'
    BY <1>1, <1>3 DEF HandleInv, HandleTypes, GivenIsRecorded, UsedCounts, Recorded, Handles
  <2>3. Unrecorded'
    BY <1>1, <2>1 DEF HandleInv, Unrecorded, Searching, Writing
  <2>4. InHand'
    BY <1>3, <2>1 DEF HandleInv, HandleTypes, InHand, Handles
  <2>5. PlainIsRecorded'
    BY <1>1, <2>1 DEF HandleInv, PlainIsRecorded
  <2> QED BY <2>2, <2>3, <2>4, <2>5 DEF HandleInv
<1> QED BY <1>2, <1>3 DEF OpenCopy

LEMMA OpenPlainHandles ==
  ASSUME WholeInv, HandleInv, NEW t \in Threads, OpenPlain(t)
  PROVE  HandleInv'
<1> DEFINE p == Proc(t)
           o == object[t]
<1>1. pc[t] = "plain" /\ UNCHANGED <<cache, used, object>>
  BY DEF OpenPlain
<1>2. /\ p \in Procs /\ o \in Objects /\ pc \in [Threads -> Locations]
      /\ cache[p][o] = NoHandle
  BY <1>1, ThreadHasProc DEF WholeInv, TypeInv, Busy, HandleInv, Unrecorded, Searching
<1>3. UsedCounts'
  BY <1>1 DEF HandleInv, UsedCounts, Recorded
<1>4. CASE o \in Refused
  <2>1. /\ pc' = [pc EXCEPT ![t] = "idle"]
        /\ given' = [given EXCEPT ![p][o] = @] /\ UNCHANGED <<plain, handle>>
    BY <1>4 DEF OpenPlain, Return, Goto
  <2>2. given' = given
    BY <1>2, <2>1 DEF HandleInv, HandleTypes
  <2>3. HandleTypes' /\ GivenIsRecorded'
    BY <1>1, <2>1, <2>2 DEF HandleInv, HandleTypes, GivenIsRecorded
  <2>4. Unrecorded' /\ InHand'
    BY <1>1, <1>2, <2>1 DEF HandleInv, Unrecorded, InHand, Searching, Writing
  <2>5. PlainIsRecorded'
    BY <1>1, <1>2, <2>1 DEF HandleInv, PlainIsRecorded
  <2> QED BY <1>3, <2>3, <2>4, <2>5 DEF HandleInv
<1>5. CASE o \notin Refused
  <2>1. /\ plain' = [plain EXCEPT ![p] = @ \cup {o}]
        /\ handle' = [handle EXCEPT ![t] = "plain"]
        /\ pc' = [pc EXCEPT ![t] = "put"] /\ UNCHANGED given
    BY <1>5 DEF OpenPlain, Goto
  <2>2. HandleTypes' /\ GivenIsRecorded'
    BY <1>1, <1>2, <2>1 DEF HandleInv, HandleTypes, GivenIsRecorded, Handles
  <2>3. Unrecorded'
    BY <1>1, <1>2, <2>1 DEF HandleInv, Unrecorded, Searching, Writing
  <2>4. InHand'
    BY <1>2, <2>1 DEF HandleInv, HandleTypes, InHand, Handles
  <2>5. PlainIsRecorded'
    <3> SUFFICES ASSUME NEW q \in Procs, NEW x \in plain'[q], cache'[q][x] = NoHandle
                 PROVE  \E u \in Threads : Proc(u) = q /\ object'[u] = x /\ pc'[u] = "put"
      BY DEF PlainIsRecorded
    <3>1. CASE x \in plain[q]
      BY <1>1, <1>2, <2>1, <3>1 DEF HandleInv, PlainIsRecorded
    <3>2. CASE x \notin plain[q]
      <4>1. q = p /\ x = o
        BY <1>2, <2>1, <3>2 DEF HandleInv, HandleTypes
      <4> QED BY <1>1, <1>2, <2>1, <4>1
    <3> QED BY <3>1, <3>2
  <2> QED BY <1>3, <2>2, <2>3, <2>4, <2>5 DEF HandleInv
<1> QED BY <1>4, <1>5

\* There is room: the objects on record are fewer than all.
LEMMA RoomForMore ==
  ASSUME OneOpener, HandleInv, NEW p \in Procs, NEW o \in Objects, cache[p][o] = NoHandle
  PROVE  used[p] < CacheMax
<1>1. IsFiniteSet(Objects) /\ Recorded(p) \in SUBSET Objects /\ o \notin Recorded(p)
  BY DEF OneOpener, Recorded
<1>2. /\ Cardinality(Recorded(p)) <= Cardinality(Objects)
      /\ Cardinality(Recorded(p)) # Cardinality(Objects)
  BY <1>1, FS_Subset
<1>3. Cardinality(Recorded(p)) \in Nat /\ Cardinality(Objects) \in Nat
  BY <1>1, FS_Subset, FS_CardinalityType
<1>4. used[p] = Cardinality(Recorded(p)) /\ Cardinality(Objects) <= CacheMax
  BY DEF HandleInv, UsedCounts, OneOpener
<1> QED BY <1>2, <1>3, <1>4, CacheMaxAssumption

LEMMA CachePutHandles ==
  ASSUME OneOpener, WholeInv, HandleInv, NEW t \in Threads, CachePut(t)
  PROVE  HandleInv'
<1> DEFINE p == Proc(t)
           o == object[t]
           h == handle[t]
<1>1. pc[t] = "put" /\ UNCHANGED <<plain, handle, object>>
  BY DEF CachePut
<1>2. /\ p \in Procs /\ o \in Objects /\ pc \in [Threads -> Locations]
      /\ cache[p][o] = NoHandle /\ h \in Handles
  BY <1>1, ThreadHasProc DEF WholeInv, TypeInv, Busy, HandleInv, Unrecorded, InHand, Searching
<1>3. h # NoHandle
  BY <1>2, NoHandleAssumption DEF Handles
<1>4. used[p] < CacheMax
  BY <1>2, RoomForMore
<1>5. /\ used' = [used EXCEPT ![p] = @ + 1]
      /\ cache' = [cache EXCEPT ![p][o] = h]
      /\ pc' = [pc EXCEPT ![t] = "idle"]
      /\ given' = [given EXCEPT ![p][o] = @ \cup {h}]
  BY <1>2, <1>3, <1>4 DEF CachePut, Return, Goto, HandleInv, HandleTypes
<1>6. HandleTypes'
  BY <1>1, <1>2, <1>5 DEF HandleInv, HandleTypes
<1>7. Unrecorded'
  <2> SUFFICES ASSUME NEW u \in Threads, pc'[u] \in Searching
               PROVE  cache'[Proc(u)][object'[u]] = NoHandle
    BY DEF Unrecorded
  <2>1. u # t
    BY <1>2, <1>5 DEF Searching, Writing
  <2>2. Proc(u) # p /\ Proc(u) \in Procs /\ pc[u] \in Searching
    BY <2>1, <1>2, <1>5, OneThreadEach, ThreadHasProc
  <2> QED BY <1>1, <1>2, <1>5, <2>2 DEF HandleInv, HandleTypes, Unrecorded
<1>8. InHand'
  BY <1>1, <1>2, <1>5 DEF HandleInv, InHand
<1>9. PlainIsRecorded'
  <2> SUFFICES ASSUME NEW q \in Procs, NEW x \in plain[q], cache'[q][x] = NoHandle
               PROVE  \E u \in Threads : Proc(u) = q /\ object[u] = x /\ pc'[u] = "put"
    BY <1>1 DEF PlainIsRecorded
  <2>0. x \in Objects
    BY DEF HandleInv, HandleTypes
  <2>1. cache[q][x] = NoHandle /\ (q # p \/ x # o)
    BY <1>2, <1>3, <1>5, <2>0 DEF HandleInv, HandleTypes
  <2>2. PICK u \in Threads : Proc(u) = q /\ object[u] = x /\ pc[u] = "put"
    BY <2>1 DEF HandleInv, PlainIsRecorded
  <2> QED BY <1>2, <1>5, <2>1, <2>2
<1>10. GivenIsRecorded'
  <2>0. \A x \in given[p][o] : x \in Handles /\ x = NoHandle
    BY <1>2 DEF HandleInv, HandleTypes, GivenIsRecorded
  <2>1. given[p][o] = {}
    BY <2>0, NoHandleAssumption DEF Handles
  <2> HIDE DEF p, o, h
  <2> QED BY <1>2, <1>5, <2>1 DEF HandleInv, HandleTypes, GivenIsRecorded
<1>11. UsedCounts'
  <2> SUFFICES ASSUME NEW q \in Procs PROVE used'[q] = Cardinality(Recorded(q)')
    BY DEF UsedCounts
  <2>1. CASE q # p
    <3>1. Recorded(q)' = Recorded(q) /\ used'[q] = used[q]
      BY <1>2, <1>5, <2>1 DEF Recorded, HandleInv, HandleTypes
    <3> QED BY <3>1 DEF HandleInv, UsedCounts
  <2>2. CASE q = p
    <3>1. Recorded(p)' = Recorded(p) \cup {o} /\ o \notin Recorded(p)
      BY <1>2, <1>3, <1>5 DEF Recorded, HandleInv, HandleTypes
    <3>2. IsFiniteSet(Recorded(p))
      BY FS_Subset DEF Recorded, OneOpener
    <3>3. Cardinality(Recorded(p)') = Cardinality(Recorded(p)) + 1
      BY <3>1, <3>2, FS_AddElement
    <3> QED BY <1>2, <1>5, <2>2, <3>3 DEF HandleInv, HandleTypes, UsedCounts
  <2> QED BY <2>1, <2>2
<1> QED BY <1>6, <1>7, <1>8, <1>9, <1>10, <1>11 DEF HandleInv

LEMMA ProcessHandles ==
  ASSUME OneOpener, WholeInv, HandleInv, NEW p \in Procs,
         \/ Start(p) \/ SweepUnlink(p) \/ SweepDone(p) \/ Exit(p)
         \/ \E n \in Objects \cup temps : SweepStat(p, n)
  PROVE  HandleInv'
<1>1. CASE ~Exit(p)
  <2>1. UNCHANGED <<cache, used, plain, given, handle, object, pc>>
    BY <1>1 DEF Start, SweepUnlink, SweepDone, SweepStat
  <2> QED BY <2>1 DEF HandleInv, HandleTypes, Unrecorded, InHand, PlainIsRecorded,
                      GivenIsRecorded, UsedCounts, Recorded
<1>2. CASE Exit(p)
  <2>1. /\ cache' = [cache EXCEPT ![p] = [o \in Objects |-> NoHandle]]
        /\ used' = [used EXCEPT ![p] = 0]
        /\ plain' = [plain EXCEPT ![p] = {}]
        /\ given' = [given EXCEPT ![p] = [o \in Objects |-> {}]]
        /\ pc' = [t \in Threads |-> IF Proc(t) = p THEN "idle" ELSE pc[t]]
        /\ UNCHANGED <<handle, object>>
    BY <1>2 DEF Exit, Nothing
  <2>2. HandleTypes'
    BY <2>1 DEF HandleInv, HandleTypes
  <2>3. Unrecorded' /\ InHand'
    BY <2>1, ThreadHasProc DEF HandleInv, HandleTypes, Unrecorded, InHand, Searching, Writing
  <2>4. PlainIsRecorded'
    <3> SUFFICES ASSUME NEW q \in Procs, NEW x \in plain'[q], cache'[q][x] = NoHandle
                 PROVE  \E u \in Threads : Proc(u) = q /\ object[u] = x /\ pc'[u] = "put"
      BY <2>1 DEF PlainIsRecorded
    <3>1. q # p /\ x \in plain[q] /\ cache[q][x] = NoHandle
      BY <2>1 DEF HandleInv, HandleTypes
    <3> QED BY <2>1, <3>1 DEF HandleInv, PlainIsRecorded
  <2>5. GivenIsRecorded'
    BY <2>1 DEF HandleInv, HandleTypes, GivenIsRecorded
  <2>6. UsedCounts'
    <3> SUFFICES ASSUME NEW q \in Procs PROVE used'[q] = Cardinality(Recorded(q)')
      BY DEF UsedCounts
    <3>1. CASE q = p
      <4>1. Recorded(q)' = {} /\ used'[q] = 0
        BY <2>1, <3>1 DEF Recorded, HandleInv, HandleTypes
      <4> QED BY <4>1, FS_EmptySet
    <3>2. CASE q # p
      <4>1. Recorded(q)' = Recorded(q) /\ used'[q] = used[q]
        BY <2>1, <3>2 DEF Recorded, HandleInv, HandleTypes
      <4> QED BY <4>1 DEF HandleInv, UsedCounts
    <3> QED BY <3>1, <3>2
  <2> QED BY <2>2, <2>3, <2>4, <2>5, <2>6 DEF HandleInv
<1> QED BY <1>1, <1>2

LEMMA HandleInit == Init => HandleInv
<1> SUFFICES ASSUME Init PROVE HandleInv
  OBVIOUS
<1>1. HandleTypes /\ Unrecorded /\ InHand /\ PlainIsRecorded /\ GivenIsRecorded
  BY DEF Init, Nothing, HandleTypes, Unrecorded, InHand, PlainIsRecorded,
         GivenIsRecorded, Searching, Writing
<1>2. \A p \in Procs : Recorded(p) = {} /\ used[p] = 0
  BY DEF Init, Nothing, Recorded
<1> QED BY <1>1, <1>2, FS_EmptySet DEF HandleInv, UsedCounts

LEMMA HandleStep ==
  ASSUME OneOpener, WholeInv, HandleInv, [Next]_vars
  PROVE  HandleInv'
<1>1. ASSUME NEW t \in Threads, Step(t) PROVE HandleInv'
  BY <1>1, WritingHandles, CacheGetHandles, NoLoadHandles, OpenCopyHandles,
     OpenPlainHandles, CachePutHandles DEF Step
<1>2. CASE NewDay \/ UNCHANGED vars
  <2>1. UNCHANGED <<cache, used, plain, given, handle, object, pc>>
    BY <1>2 DEF NewDay, vars, procVars
  <2> QED BY <2>1 DEF HandleInv, HandleTypes, Unrecorded, InHand, PlainIsRecorded,
                      GivenIsRecorded, UsedCounts, Recorded
<1> QED BY <1>1, <1>2, AttemptHandles, ProcessHandles DEF Next

LEMMA HandleAlways == OneOpener => (Spec => [](WholeInv /\ HandleInv))
<1> SUFFICES ASSUME OneOpener PROVE Spec => [](WholeInv /\ HandleInv)
  OBVIOUS
<1>1. WholeInv /\ HandleInv /\ [Next]_vars => (WholeInv /\ HandleInv)'
  BY WholeStep, HandleStep
<1> QED BY <1>1, WholeInit, HandleInit, PTL DEF Spec

\* A process that opens from one thread and whose cache has room is never given
\* two handles for one object, whatever other processes do to the directory
\* between its steps.
THEOREM SingleOpenerHasOneHandle == OneOpener => (Spec => []OneHandle)
<1>1. HandleInv => OneHandle
  <2> SUFFICES ASSUME HandleInv, NEW p \in Procs, NEW o \in Objects
               PROVE  Cardinality(given[p][o]) <= 1
    BY DEF OneHandle
  <2>1. given[p][o] \in SUBSET {cache[p][o]}
    BY DEF HandleInv, GivenIsRecorded
  <2>2. IsFiniteSet({cache[p][o]}) /\ Cardinality({cache[p][o]}) = 1
    BY FS_Singleton
  <2> QED BY <2>1, <2>2, FS_Subset
<1> QED BY <1>1, HandleAlways, PTL

\* Such a process writes an object out only while no caller has it.
THEOREM SingleOpenerEmitsOnce == OneOpener => (Spec => []EmittedOnce)
<1>1. WholeInv /\ HandleInv => EmittedOnce
  <2> SUFFICES ASSUME WholeInv, HandleInv, NEW t \in Threads, pc[t] \in Writing
               PROVE  given[Proc(t)][object[t]] = {}
    BY DEF EmittedOnce, Writing
  <2>1. Proc(t) \in Procs /\ object[t] \in Objects /\ cache[Proc(t)][object[t]] = NoHandle
    BY ThreadHasProc DEF WholeInv, Busy, HandleInv, Unrecorded, Searching, Writing
  <2>2. \A h \in given[Proc(t)][object[t]] : h \in Handles /\ h = NoHandle
    BY <2>1 DEF HandleInv, HandleTypes, GivenIsRecorded
  <2> QED BY <2>2, NoHandleAssumption DEF Handles
<1> QED BY <1>1, HandleAlways, PTL

------------------------------------------------------------------------------
(* What is left in the directory under a name of no object: a template that   *)
(* nobody is filling.  A step either removes such files, or makes one of the   *)
(* file a failed write was filling, or one of each file that the threads of a  *)
(* killed process were filling; the last two are faults.                       *)

Filling(x) == pc[x[1]] \in {"write", "rename"} /\ x = Template(x[1])
Leftovers == {x \in temps : ~Filling(x)}

LeftInv ==
  /\ temps \in SUBSET (Threads \X Nat)
  /\ IsFiniteSet(temps)
  /\ opens \in [Threads -> Nat]
  /\ faults \in Nat
  /\ Cardinality(Leftovers) <= faults * ThreadsPerProc

LEMMA Times ==
  ASSUME NEW a \in Nat, NEW n \in Nat
  PROVE  a * n \in Nat /\ (a + 1) * n = a * n + n
OBVIOUS

LEMMA FiniteLeftovers ==
  ASSUME LeftInv
  PROVE  IsFiniteSet(Leftovers) /\ Cardinality(Leftovers) \in Nat
<1>1. IsFiniteSet(Leftovers)
  BY FS_Subset DEF Leftovers, LeftInv
<1> QED BY <1>1, FS_CardinalityType

\* A step that leaves nothing new behind.
LEMMA NothingLeft ==
  ASSUME LeftInv, temps' \in SUBSET (Threads \X Nat), IsFiniteSet(temps'),
         opens' \in [Threads -> Nat], faults' = faults, Leftovers' \subseteq Leftovers
  PROVE  LeftInv'
<1>1. Cardinality(Leftovers') <= Cardinality(Leftovers) /\ Cardinality(Leftovers') \in Nat
  BY FiniteLeftovers, FS_Subset, FS_CardinalityType
<1>2. faults * ThreadsPerProc \in Nat
  BY Times, ThreadsAssumption DEF LeftInv
<1> QED BY <1>1, <1>2, FiniteLeftovers DEF LeftInv

\* A fault that leaves no more files behind than a process has threads.
LEMMA FaultLeaves ==
  ASSUME LeftInv, UNCHANGED <<temps, opens>>, faults' = faults + 1,
         NEW C, IsFiniteSet(C), Cardinality(C) <= ThreadsPerProc,
         Leftovers' \subseteq Leftovers \cup C
  PROVE  LeftInv'
<1>1. Cardinality(C) \in Nat
  BY FS_CardinalityType
<1>2. /\ IsFiniteSet(Leftovers \cup C)
      /\ Cardinality(Leftovers \cup C)
           = Cardinality(Leftovers) + Cardinality(C) - Cardinality(Leftovers \cap C)
  BY FiniteLeftovers, FS_Union
<1>3. Cardinality(Leftovers \cap C) \in Nat
  BY FiniteLeftovers, FS_Intersection, FS_CardinalityType
<1>4. Cardinality(Leftovers') <= Cardinality(Leftovers \cup C) /\ Cardinality(Leftovers') \in Nat
  BY <1>2, FS_Subset, FS_CardinalityType
<1>5. faults * ThreadsPerProc \in Nat
      /\ faults' * ThreadsPerProc = faults * ThreadsPerProc + ThreadsPerProc
  BY Times, ThreadsAssumption DEF LeftInv
<1>6. Cardinality(Leftovers) <= faults * ThreadsPerProc
  BY DEF LeftInv
<1> HIDE DEF Leftovers
<1>7. Cardinality(Leftovers') <= faults' * ThreadsPerProc
  BY <1>1, <1>2, <1>3, <1>4, <1>5, <1>6, FiniteLeftovers, ThreadsAssumption
<1> QED BY <1>7 DEF LeftInv

\* A step of an open that neither starts nor stops filling a template.
LEMMA NotFilling ==
  ASSUME WholeInv, LeftInv, NEW t \in Threads,
         \/ \E o \in Objects : Attempt(t, o)
         \/ CacheGet(t) \/ NoLoad(t) \/ Unlink(t) \/ TmpFile(t) \/ Link(t)
         \/ WriteAll(t) \/ OpenCopy(t) \/ OpenPlain(t) \/ CachePut(t)
  PROVE  LeftInv'
<1>1. temps' = temps /\ faults' = faults
  BY DEF Attempt, CacheGet, NoLoad, Unlink, TmpFile, Link, WriteAll, OpenCopy, OpenPlain,
         CachePut, dirVars
<1>2. pc \in [Threads -> Locations]
  BY DEF WholeInv, TypeInv
<1>3. CASE WriteAll(t)
  <2>1. pc[t] = "write" /\ pc' = [pc EXCEPT ![t] = "rename"] /\ opens' = opens
    BY <1>3 DEF WriteAll, Goto
  <2>2. Leftovers' \subseteq Leftovers
    BY <1>1, <1>2, <2>1 DEF Leftovers, Filling, Template, LeftInv
  <2> QED BY <1>1, <2>1, <2>2, NothingLeft DEF LeftInv
<1>4. CASE ~WriteAll(t)
  <2>1. /\ pc[t] \notin {"write", "rename"}
        /\ \A u \in Threads : u # t => pc'[u] = pc[u] /\ opens'[u] = opens[u]
        /\ opens' \in [Threads -> Nat]
    BY <1>2, <1>4 DEF LeftInv, Attempt, CacheGet, NoLoad, Unlink, TmpFile, Link, OpenCopy,
       OpenPlain, CachePut, Goto, Return
  <2>2. Leftovers' \subseteq Leftovers
    BY <1>1, <2>1 DEF Leftovers, Filling, Template, LeftInv
  <2> QED BY <1>1, <2>1, <2>2, NothingLeft DEF LeftInv
<1> QED BY <1>3, <1>4

LEMMA StartsFilling ==
  ASSUME WholeInv, LeftInv, NEW t \in Threads, MkStemp(t)
  PROVE  LeftInv'
<1>1. pc[t] = "mkstemp" /\ opens' = opens /\ faults' = faults
  BY DEF MkStemp
<1>2. pc \in [Threads -> Locations] /\ opens \in [Threads -> Nat]
  BY DEF WholeInv, TypeInv, LeftInv
<1>3. CASE temps' = temps \cup {Template(t)} /\ Goto(t, "write")
  <2>1. Template(t) \in Threads \X Nat
    BY <1>2 DEF Template
  <2>2. IsFiniteSet(temps')
    BY <1>3, FS_AddElement DEF LeftInv
  <2>3. Leftovers' \subseteq Leftovers
    BY <1>1, <1>2, <1>3 DEF Leftovers, Filling, Template, LeftInv, Goto
  <2> QED BY <1>1, <1>2, <1>3, <2>1, <2>2, <2>3, NothingLeft DEF LeftInv
<1>4. CASE UNCHANGED temps /\ Goto(t, "plain")
  <2>1. Leftovers' \subseteq Leftovers
    BY <1>1, <1>2, <1>4 DEF Leftovers, Filling, Template, LeftInv, Goto
  <2> QED BY <1>1, <1>2, <1>4, <2>1, NothingLeft DEF LeftInv
<1> QED BY <1>3, <1>4 DEF MkStemp

LEMMA EndsFilling ==
  ASSUME WholeInv, LeftInv, NEW t \in Threads, Rename(t) \/ RenameFails(t)
  PROVE  LeftInv'
<1>1. /\ pc[t] = "rename" /\ opens' = opens /\ faults' = faults
      /\ temps' = temps \ {Template(t)}
      /\ \E l \in {"copy", "plain"} : pc' = [pc EXCEPT ![t] = l]
  BY DEF Rename, RenameFails, Goto
<1>2. pc \in [Threads -> Locations] /\ opens \in [Threads -> Nat]
  BY DEF WholeInv, TypeInv, LeftInv
<1>3. IsFiniteSet(temps')
  BY <1>1, FS_RemoveElement DEF LeftInv
<1>4. Leftovers' \subseteq Leftovers
  BY <1>1, <1>2 DEF Leftovers, Filling, Template, LeftInv
<1> QED BY <1>1, <1>2, <1>3, <1>4, NothingLeft DEF LeftInv

\* A failed write leaves the one template behind.
LEMMA FailsFilling ==
  ASSUME WholeInv, LeftInv, NEW t \in Threads, WriteFails(t)
  PROVE  LeftInv'
<1>1. /\ faults' = faults + 1 /\ UNCHANGED <<temps, opens>>
      /\ pc' = [pc EXCEPT ![t] = "plain"]
  BY DEF WriteFails, Fault, Goto, dirVars
<1>2. pc \in [Threads -> Locations]
  BY DEF WholeInv, TypeInv
<1>3. Leftovers' \subseteq Leftovers \cup {Template(t)}
  BY <1>1, <1>2 DEF Leftovers, Filling, Template, LeftInv
<1>4. IsFiniteSet({Template(t)}) /\ Cardinality({Template(t)}) <= ThreadsPerProc
  <2>1. t[2] \in 1 .. ThreadsPerProc
    BY DEF Threads
  <2>2. ThreadsPerProc >= 1
    BY <2>1, ThreadsAssumption
  <2> QED BY <2>2, ThreadsAssumption, FS_Singleton
<1> QED BY <1>1, <1>3, <1>4, FaultLeaves

\* A killed process leaves at most one template for each of its threads.
LEMMA ExitLeaves ==
  ASSUME LeftInv, NEW p \in Procs, Exit(p)
  PROVE  LeftInv'
<1>1. /\ faults' = faults + 1 /\ UNCHANGED <<temps, opens>>
      /\ pc' = [t \in Threads |-> IF Proc(t) = p THEN "idle" ELSE pc[t]]
  BY DEF Exit, Fault, dirVars
<1> DEFINE N == 1 .. ThreadsPerProc
           f == [i \in N |-> Template(<<p, i>>)]
           C == {f[i] : i \in N}
<1>2. IsFiniteSet(N) /\ Cardinality(N) = ThreadsPerProc
  BY FS_Interval, ThreadsAssumption
<1>3. f \in Surjection(N, C)
  BY DEF Surjection
<1>4. IsFiniteSet(C) /\ Cardinality(C) <= ThreadsPerProc
  BY <1>2, <1>3, FS_Surjection
<1>5. Leftovers' \subseteq Leftovers \cup C
  <2> SUFFICES ASSUME NEW x \in Leftovers', x \notin Leftovers
               PROVE  x \in C
    OBVIOUS
  <2>1. x \in temps /\ Filling(x) /\ ~Filling(x)'
    BY <1>1 DEF Leftovers
  <2>2. x[1] \in Threads /\ x = Template(x[1]) /\ pc[x[1]] # pc'[x[1]]
    BY <1>1, <2>1 DEF Filling, Template, LeftInv
  <2>3. Proc(x[1]) = p
    BY <1>1, <2>2
  <2>4. x[1] = <<p, x[1][2]>> /\ x[1][2] \in N
    BY <2>2, <2>3 DEF Threads, Proc
  <2> QED BY <2>2, <2>4
<1> HIDE DEF C
<1> QED BY <1>1, <1>4, <1>5, FaultLeaves

LEMMA SweepLeaves ==
  ASSUME LeftInv, NEW p \in Procs,
         \/ Start(p) \/ SweepUnlink(p) \/ SweepDone(p)
         \/ \E n \in Objects \cup temps : SweepStat(p, n)
  PROVE  LeftInv'
<1>1. /\ UNCHANGED <<pc, opens, faults>>
      /\ UNCHANGED temps \/ temps' = temps \ {target[p]}
  BY DEF Start, SweepUnlink, SweepDone, SweepStat, dirVars
<1>2. IsFiniteSet(temps') /\ temps' \in SUBSET (Threads \X Nat)
  BY <1>1, FS_RemoveElement DEF LeftInv
<1>3. Leftovers' \subseteq Leftovers
  BY <1>1 DEF Leftovers, Filling, Template
<1> QED BY <1>1, <1>2, <1>3, NothingLeft DEF LeftInv

LEMMA LeftInit == Init => LeftInv
<1> SUFFICES ASSUME Init PROVE LeftInv
  OBVIOUS
<1>1. temps = {} /\ Leftovers = {} /\ faults = 0 /\ opens \in [Threads -> Nat]
  BY DEF Init, Leftovers
<1> QED BY <1>1, FS_EmptySet, ThreadsAssumption DEF LeftInv

LEMMA LeftStep == WholeInv /\ LeftInv /\ [Next]_vars => LeftInv'
<1> SUFFICES ASSUME WholeInv, LeftInv, [Next]_vars PROVE LeftInv'
  OBVIOUS
<1>1. ASSUME NEW t \in Threads, Step(t) \/ \E o \in Objects : Attempt(t, o) PROVE LeftInv'
  BY <1>1, NotFilling, StartsFilling, EndsFilling, FailsFilling DEF Step
<1>2. CASE NewDay \/ UNCHANGED vars
  <2>1. UNCHANGED <<temps, pc, opens, faults>>
    BY <1>2 DEF NewDay, vars, dirVars
  <2> QED BY <2>1 DEF LeftInv, Leftovers, Filling, Template
<1> QED BY <1>1, <1>2, ExitLeaves, SweepLeaves DEF Next

\* "repeated runs overwrite instead of filling up the runtime dir": however many
\* threads of however many processes open however often, the templates that
\* nobody is filling are no more than one per thread of each killed process and
\* one per failed write.
THEOREM OnlyFaultsLeave == Spec => []LeftoversAreFaults
<1>1. LeftInv => LeftoversAreFaults
  BY DEF LeftInv, LeftoversAreFaults, Leftovers, Filling
<1> QED BY <1>1, WholeInit, WholeStep, LeftInit, LeftStep, PTL DEF Spec
==============================================================================
