------------------------- MODULE RuntimeSelectProofs -------------------------
(***************************************************************************)
(* The launchers of RuntimeSelect, for any launchers, directories, hosts   *)
(* and ways to start, and any number of launches and faults: what the      *)
(* farm owes a launcher that nobody disturbs, and what it owes all of      *)
(* them once nobody is relinking it.                                       *)
(*                                                                         *)
(* A launcher's farm belongs to everyone who launches on this host, so the *)
(* invariant has two halves.  OwnLinks is about a launcher that nobody has *)
(* disturbed since it began: what it has linked is still its own.          *)
(* LinksHeal is about all of them: a link that is missing is one that      *)
(* somebody between unlink and symlink is about to make.                   *)
(***************************************************************************)
EXTENDS RuntimeSelect, WellFoundedInduction, TLAPS

Linking == {"unlink", "symlink"}
Linked == {"self_test", "exec", "running"}
Live == {"mkdir"} \cup Linking \cup Linked

\* A launcher that goes on with the host's runtime has decided to, and where it is
\* in rs_build_farm's loop.
PlanOf(l) ==
  /\ pc[l] # "idle" => config[l] \in Configs
  /\ pc[l] \in Live => plan[l] = Plan(config[l]) /\ UseHost(config[l])
  /\ pc[l] = "symlink" => todo[l] # <<>>
  /\ pc[l] \in Linked => todo[l] = <<>>
  /\ tested[l] => pc[l] \in {"exec", "running", "bundled"}
  /\ IF pc[l] = "running" THEN mapped[l]["ld.so"] = PlannedSet(plan[l])["ld.so"]
                          ELSE mapped[l] = Unmapped
PlanInv == \A l \in Launchers : PlanOf(l)

\* The members a launcher has been through.
Done(l) == plan[l].members \ ({"ld.so"} \cup Range(todo[l]))

\* Another launcher is about to link the member again.
AboutToLink(r, m) ==
  \E k \in Launchers : pc[k] = "symlink" /\ release(k) = r /\ Head(todo[k]) = m

LinksOf(l) ==
  pc[l] \in Linking \cup Linked /\ release(l) \notin broken =>
    \A m \in Done(l) : farm[release(l)][m] # NoDir \/ AboutToLink(release(l), m)
LinksHeal == \A l \in Launchers : LinksOf(l)

OwnLinksOf(l) ==
  /\ pc[l] \in Linking \cup Linked =>
       \A m \in Done(l) : farm[release(l)][m] = plan[l].dir
  /\ pc[l] = "symlink" => farm[release(l)][Head(todo[l])] = NoDir
OwnLinks == \A l \in Launchers \ raced : OwnLinksOf(l)

\* A launcher that nobody has disturbed has mapped what its plan says.
OwnLibrariesOf(l) ==
  /\ pc[l] = "running" => \A m \in Open(l) :
       /\ m \in plan[l].members \cup {"ld.so"}
       /\ mapped[l][m] = PlannedSet(plan[l])[m] /\ mapped[l][m] \in Builds
  /\ pc[l] \in Live /\ tested[l] =>
       PlannedSet(plan[l])["libc"] = PlannedSet(plan[l])["ld.so"]
OwnLibraries == \A l \in Launchers \ raced : OwnLibrariesOf(l)

\* An undisturbed launcher that keeps the bundle although nothing failed was told
\* to, or found the host's set wanting: in its plan, or in its self test.
Wanting(set, c) ==
  \/ set["libc"] # set["ld.so"]
  \/ Defines("libc", set["libc"]) < Defines("libc", c.bundle["libc"])
KeepsBundleOf(l) ==
  pc[l] = "bundled" /\ faults = 0 /\ ~config[l].probe /\ UseHost(config[l]) =>
    Wanting(PlannedSet(Plan(config[l])), config[l])
KeepsBundle == \A l \in Launchers \ raced : KeepsBundleOf(l)

SelectInv ==
  /\ TypeOK /\ PlanInv /\ LinksHeal /\ OwnLinks /\ OwnLibraries /\ KeepsBundle

------------------------------------------------------------------------------
\* The five groups of rs_runtime_set, as the provers need them.
LEMMA MembersAre == Members = {"ld.so", "libc", "libm", "libdl"}
<1>1. DOMAIN RuntimeSet = 1 .. 4 BY DEF RuntimeSet
<1> QED BY <1>1 DEF Members, Range, RuntimeSet

\* What Defines says, member by member.
LEMMA DefinesTable ==
  \A b \in Files :
    /\ Defines("ld.so", b) = IF b < 1 THEN 0 ELSE IF b = 1 THEN 1 ELSE 2
    /\ Defines("libc", b) = IF b < 1 THEN 0 ELSE IF b = 1 THEN 1 ELSE 2
    /\ Defines("libm", b) = IF b < 1 THEN 0 ELSE b
    /\ Defines("libdl", b) = IF b < 1 THEN 0 ELSE 1
<1>1. \A b \in Files : b < 1 \/ b = 1 \/ b = 2 \/ b = 3
  BY DEF Files, Builds, Absent, Unreadable
<1> SUFFICES ASSUME NEW b \in Files
             PROVE /\ Defines("ld.so", b) = IF b < 1 THEN 0 ELSE IF b = 1 THEN 1 ELSE 2
                   /\ Defines("libc", b) = IF b < 1 THEN 0 ELSE IF b = 1 THEN 1 ELSE 2
                   /\ Defines("libm", b) = IF b < 1 THEN 0 ELSE b
                   /\ Defines("libdl", b) = IF b < 1 THEN 0 ELSE 1
  OBVIOUS
<1>2. CASE b < 1 BY <1>2 DEF Defines
<1>3. CASE b = 1 BY <1>3 DEF Defines
<1>4. CASE b = 2 BY <1>4 DEF Defines
<1>5. CASE b = 3 BY <1>5 DEF Defines
<1> QED BY <1>1, <1>2, <1>3, <1>4, <1>5

LEMMA DefinesRange ==
  \A m \in Members, b \in Files :
    /\ Defines(m, b) \in 0 .. 3
    /\ b \in Builds => Defines(m, b) >= 1
<1>1. \A b \in Files : b \in Int /\ b \in -1 .. 3
  BY DEF Files, Builds, Absent, Unreadable
<1> QED BY <1>1, DefinesTable, MembersAre DEF Builds

\* Max is a maximum of the few version numbers there are.
LEMMA MaxSmall ==
  ASSUME NEW S \in SUBSET (0 .. 3), S # {}
  PROVE Max(S) \in S /\ \A x \in S : x <= Max(S)
<1>1. \E x \in S : \A y \in S : y <= x
  <2>1. \A x \in S : x = 0 \/ x = 1 \/ x = 2 \/ x = 3 OBVIOUS
  <2>2. CASE 3 \in S BY <2>1, <2>2
  <2>3. CASE 3 \notin S /\ 2 \in S BY <2>1, <2>3
  <2>4. CASE 3 \notin S /\ 2 \notin S /\ 1 \in S BY <2>1, <2>4
  <2>5. CASE S = {0} BY <2>5
  <2> QED BY <2>1, <2>2, <2>3, <2>4, <2>5
<1> QED BY <1>1 DEF Max

\* rs_set_release gives the version of one of the members, and the highest.
LEMMA ReleaseIsHighest ==
  ASSUME NEW files \in [Members -> Files], NEW members \in SUBSET Members
  PROVE /\ Release(files, members) \in 0 .. 3
        /\ \A m \in members : Defines(m, files[m]) <= Release(files, members)
        /\ \A n \in Nat : (\A m \in members : Defines(m, files[m]) <= n)
                          => Release(files, members) <= n
<1> DEFINE S == {0} \cup {Defines(m, files[m]) : m \in members}
<1>1. S \in SUBSET (0 .. 3) /\ 0 \in S BY DefinesRange
<1>2. Max(S) \in S /\ \A x \in S : x <= Max(S)
  <2> HIDE DEF S
  <2> QED BY <1>1, MaxSmall
<1>3. Release(files, members) = Max(S) BY DEF Release
<1> HIDE DEF Release
<1> QED BY <1>1, <1>2, <1>3

\* rs_runtime_set's order of linking has each member that is to be linked, once.
LEMMA FarmOrderLinks ==
  ASSUME NEW members \in SUBSET Members
  PROVE /\ FarmOrder(members) \in Seq(Members)
        /\ Range(FarmOrder(members)) = members \ {"ld.so"}
<1> DEFINE only(m) == IF m \in members THEN <<m>> ELSE <<>>
<1>1. FarmOrder(members) = only("libc") \o only("libm") \o only("libdl") BY DEF FarmOrder
<1>2. \A m \in Members : only(m) \in Seq(Members)
  OBVIOUS
<1>3. FarmOrder(members) \in Seq(Members) BY <1>1, <1>2, MembersAre
<1>4. \A m \in Members : Range(only(m)) = {m} \cap members
  BY DEF Range
<1>5. \A s, t \in Seq(Members) : Range(s \o t) = Range(s) \cup Range(t)
  <2> SUFFICES ASSUME NEW s \in Seq(Members), NEW t \in Seq(Members)
               PROVE Range(s \o t) = Range(s) \cup Range(t)
    OBVIOUS
  <2>1. ASSUME NEW x \in Range(s \o t) PROVE x \in Range(s) \cup Range(t)
    BY <2>1 DEF Range
  <2>2. ASSUME NEW x \in Range(s) PROVE x \in Range(s \o t)
    BY <2>2 DEF Range
  <2>3. ASSUME NEW x \in Range(t) PROVE x \in Range(s \o t)
    <3>1. PICK i \in 1 .. Len(t) : x = t[i] BY <2>3 DEF Range
    <3>2. Len(s) + i \in 1 .. Len(s \o t) /\ (s \o t)[Len(s) + i] = x BY <3>1
    <3> QED BY <3>2 DEF Range
  <2> QED BY <2>1, <2>2, <2>3
<1> HIDE DEF only
<1>6. only("libc") \o only("libm") \in Seq(Members) BY <1>2, MembersAre
<1>7. Range(only("libc") \o only("libm")) = Range(only("libc")) \cup Range(only("libm"))
  BY <1>2, <1>5, MembersAre
<1>8. Range((only("libc") \o only("libm")) \o only("libdl"))
        = Range(only("libc") \o only("libm")) \cup Range(only("libdl"))
  BY <1>2, <1>5, <1>6, MembersAre
<1>9. Range(FarmOrder(members))
        = Range(only("libc")) \cup Range(only("libm")) \cup Range(only("libdl"))
  BY <1>1, <1>7, <1>8
<1> QED BY <1>3, <1>4, <1>9, MembersAre

LEMMA MinIn ==
  ASSUME NEW S \in SUBSET Nat, S # {}
  PROVE Min(S) \in S
<1>1. PICK x \in S : \A y \in S : ~(<<y, x>> \in OpToRel(<, Nat))
  BY WFMin, NatLessThanWellFounded
<1>2. ASSUME NEW y \in S PROVE x <= y
  <2>1. y \in Nat /\ x \in Nat /\ <<y, x>> \in Nat \X Nat OBVIOUS
  <2>2. ~(y < x) BY <1>1, <2>1 DEF OpToRel
  <2> QED BY <2>1, <2>2
<1> QED BY <1>2 DEF Min

------------------------------------------------------------------------------
\* rs_host_set_find's ld.so, if it finds one, is there.
LEMMA LdOfFinds ==
  ASSUME NEW c \in ConfigType, NEW d \in Dirs, LdOf(d, c) # NoDir
  PROVE LdOf(d, c) \in Dirs /\ host[LdOf(d, c)]["ld.so"] # Absent
<1> DEFINE has(e) == host[e]["ld.so"] # Absent
           I == {i \in 1 .. Len(c.search) : has(c.search[i])}
<1>1. c.search \in Seq(Dirs) BY DEF ConfigType
<1>2. CASE has(d) BY <1>2 DEF LdOf
<1>3. CASE ~has(d)
  <2>1. \E i \in DOMAIN c.search : has(c.search[i]) BY <1>3 DEF LdOf
  <2>2. I # {} /\ I \in SUBSET Nat BY <1>1, <2>1
  <2>3. Min(I) \in I
    <3> HIDE DEF I
    <3> QED BY <2>2, MinIn
  <2>4. SelectInSeq(c.search, has) = Min(I) BY <2>2 DEF SelectInSeq
  <2>5. LdOf(d, c) = c.search[Min(I)] BY <1>3, <2>1, <2>4 DEF LdOf
  <2>6. Min(I) \in 1 .. Len(c.search) /\ has(c.search[Min(I)]) BY <2>3
  <2> HIDE DEF I
  <2> QED BY <1>1, <2>5, <2>6
<1> QED BY <1>2, <1>3

\* rs_host_set_find's directory, if it finds one, has everything it looked for.
LEMMA HostDirFinds ==
  ASSUME NEW c \in ConfigType, HostDir(c) # NoDir
  PROVE /\ HostDir(c) \in Dirs
        /\ Complete(HostDir(c), Bundled(c)) /\ LdOf(HostDir(c), c) # NoDir
<1> DEFINE fits(d) == Complete(d, Bundled(c)) /\ LdOf(d, c) # NoDir
           I == {i \in 1 .. Len(c.search) : fits(c.search[i])}
<1>1. c.search \in Seq(Dirs) BY DEF ConfigType
<1>2. SelectInSeq(c.search, fits) = IF I # {} THEN Min(I) ELSE 0 BY DEF SelectInSeq
<1>3. HostDir(c) = LET i == SelectInSeq(c.search, fits)
                   IN  IF i = 0 THEN NoDir ELSE c.search[i]
  BY DEF HostDir
<1>4. I # {} /\ I \in SUBSET Nat BY <1>2, <1>3
<1>5. Min(I) \in I
  <2> HIDE DEF I
  <2> QED BY <1>4, MinIn
<1>6. HostDir(c) = c.search[Min(I)] BY <1>2, <1>3, <1>4, <1>5
<1>7. Min(I) \in 1 .. Len(c.search) /\ fits(c.search[Min(I)]) BY <1>5
<1> HIDE DEF I
<1> QED BY <1>1, <1>6, <1>7

\* What rs_decide knows of a host's set that it chose.
LEMMA PlanFacts ==
  ASSUME NEW c \in ConfigType, host \in [Dirs -> [Members -> Files]]
  PROVE /\ Plan(c) \in [dir : Dirs \cup {NoDir}, ld : Dirs \cup {NoDir},
                         members : SUBSET Members, release : {0} \cup Builds]
        /\ Plan(c).members = Bundled(c) /\ Plan(c).dir = HostDir(c)
        /\ Plan(c).dir # NoDir =>
             /\ Plan(c).dir \in Dirs /\ Plan(c).ld \in Dirs
             /\ Complete(Plan(c).dir, Bundled(c))
             /\ host[Plan(c).ld]["ld.so"] # Absent
             /\ Plan(c).release = Release(host[Plan(c).dir], Bundled(c))
<1>1. Bundled(c) \in SUBSET Members BY DEF Bundled
<1>2. CASE HostDir(c) = NoDir BY <1>1, <1>2 DEF Plan, Builds
<1>3. CASE HostDir(c) # NoDir
  <2>1. HostDir(c) \in Dirs /\ Complete(HostDir(c), Bundled(c)) BY <1>3, HostDirFinds
  <2>2. LdOf(HostDir(c), c) \in Dirs /\ host[LdOf(HostDir(c), c)]["ld.so"] # Absent
    BY <1>3, <2>1, HostDirFinds, LdOfFinds
  <2>3. Release(host[HostDir(c)], Bundled(c)) \in {0} \cup Builds
    BY <1>1, <2>1, ReleaseIsHighest DEF Builds
  <2> QED BY <1>1, <1>3, <2>1, <2>2, <2>3, NoDirAssumption DEF Plan
<1> QED BY <1>2, <1>3

\* And of one that it takes: rs_set_consistent's answer, and libc is linked.
LEMMA UseHostFacts ==
  ASSUME NEW c \in ConfigType, host \in [Dirs -> [Members -> Files]], UseHost(c)
  PROVE /\ Plan(c).dir # NoDir /\ Plan(c).release \in Builds
        /\ "libc" \in Bundled(c)
        /\ Release(c.bundle, Bundled(c)) > 0
        /\ c.forced = "host" \/ Plan(c).release > Release(c.bundle, Bundled(c))
        /\ Consistent(PlannedSet(Plan(c)), Bundled(c))
<1>1. Plan(c).members = Bundled(c) /\ Plan(c).release \in {0} \cup Builds BY PlanFacts
<1> QED BY <1>1, MembersAre DEF UseHost, Bundled, Builds

\* Each file of a chosen set is there.
LEMMA PlannedFiles ==
  ASSUME NEW c \in ConfigType, host \in [Dirs -> [Members -> Files]], UseHost(c)
  PROVE /\ PlannedSet(Plan(c)) \in [Members -> Files]
        /\ \A m \in Bundled(c) \cup {"ld.so"} : PlannedSet(Plan(c))[m] # Absent
        /\ \A m \in Members \ {"ld.so"} :
             PlannedSet(Plan(c))[m] = host[Plan(c).dir][m]
        /\ PlannedSet(Plan(c))["ld.so"] = host[Plan(c).ld]["ld.so"]
<1>1. Plan(c).dir \in Dirs /\ Plan(c).ld \in Dirs /\ Complete(Plan(c).dir, Bundled(c))
      /\ host[Plan(c).ld]["ld.so"] # Absent
  BY PlanFacts, UseHostFacts
<1>2. Bundled(c) \subseteq Members BY DEF Bundled
<1> QED BY <1>1, <1>2, MembersAre DEF PlannedSet, Complete

\* The host's files do not change, nor does what a launcher would make of them.
LEMMA HostStays ==
  ASSUME host' = host
  PROVE /\ \A c : Plan(c)' = Plan(c) /\ (UseHost(c)' <=> UseHost(c))
        /\ \A p : PlannedSet(p)' = PlannedSet(p)
<1>1. \A d, members : Complete(d, members)' <=> Complete(d, members) BY DEF Complete
<1>2. \A d, c : LdOf(d, c)' = LdOf(d, c) BY DEF LdOf, SelectInSeq
<1>3. \A c : HostDir(c)' = HostDir(c) BY <1>1, <1>2 DEF HostDir, SelectInSeq
<1>4. \A c : Plan(c)' = Plan(c) BY <1>2, <1>3 DEF Plan
<1>5. \A p : PlannedSet(p)' = PlannedSet(p) BY DEF PlannedSet
<1> QED BY <1>4, <1>5 DEF UseHost

------------------------------------------------------------------------------
\* Each action is one launcher's.
ActsFor(a) ==
  \/ \E c \in Configs : Decide(a, c)
  \/ MakeFarm(a) \/ Unlink(a) \/ Symlink(a) \/ SymlinkStops(a) \/ FarmBuilt(a)
  \/ SelfTest(a) \/ Exec(a) \/ Exit(a)
  \/ \E m \in Members : Map(a, m)

LEMMA NextActs == Next => \E a \in Launchers : ActsFor(a)
BY DEF Next, ActsFor

LEMMA HostKept == ASSUME NEW a \in Launchers, ActsFor(a) PROVE host' = host
BY DEF ActsFor, Decide, MakeFarm, Unlink, Symlink, SymlinkStops, FarmBuilt, SelfTest,
       Exec, Exit, Map, links

LEMMA TodoTypes ==
  ASSUME NEW s \in Seq(Members), s # <<>>
  PROVE /\ Head(s) \in Range(s) /\ Head(s) \in Members
        /\ Tail(s) \in Seq(Members) /\ Range(s) = {Head(s)} \cup Range(Tail(s))
<1>1. Head(s) = s[1] /\ 1 \in DOMAIN s OBVIOUS
<1>2. Tail(s) \in Seq(Members) /\ Len(Tail(s)) = Len(s) - 1 OBVIOUS
<1>3. \A i \in 1 .. Len(Tail(s)) : Tail(s)[i] = s[i + 1] OBVIOUS
<1>4. ASSUME NEW x \in Range(s) PROVE x = Head(s) \/ x \in Range(Tail(s))
  <2>1. PICK i \in 1 .. Len(s) : x = s[i] BY <1>4 DEF Range
  <2>2. CASE i = 1 BY <1>1, <2>1, <2>2
  <2>3. CASE i # 1
    <3>1. i - 1 \in 1 .. Len(Tail(s)) /\ (i - 1) + 1 = i BY <1>2, <2>3
    <3>2. Tail(s)[i - 1] = x BY <1>3, <2>1, <3>1
    <3>3. DOMAIN Tail(s) = 1 .. Len(Tail(s)) BY <1>2
    <3> QED BY <3>1, <3>2, <3>3 DEF Range
  <2> QED BY <2>2, <2>3
<1>5. ASSUME NEW x \in Range(Tail(s)) PROVE x \in Range(s)
  <2>1. PICK i \in 1 .. Len(Tail(s)) : x = Tail(s)[i] BY <1>2, <1>5 DEF Range
  <2>2. i + 1 \in 1 .. Len(s) /\ s[i + 1] = x BY <1>2, <1>3, <2>1
  <2> QED BY <2>2 DEF Range
<1> QED BY <1>1, <1>2, <1>4, <1>5 DEF Range

\* A launcher's plan is one that it could make, in each state it goes on in.
LEMMA LivePlans ==
  ASSUME SelectInv, NEW l \in Launchers, pc[l] \in Live
  PROVE /\ config[l] \in ConfigType /\ host \in [Dirs -> [Members -> Files]]
        /\ UseHost(config[l]) /\ plan[l] = Plan(config[l])
        /\ plan[l].members = Bundled(config[l]) /\ plan[l].members \subseteq Members
        /\ plan[l].dir \in Dirs /\ plan[l].dir # NoDir /\ plan[l].ld \in Dirs
        /\ plan[l].release \in Builds
<1>1. config[l] \in ConfigType /\ host \in [Dirs -> [Members -> Files]]
  BY DEF SelectInv, TypeOK
<1>2. UseHost(config[l]) /\ plan[l] = Plan(config[l]) BY DEF SelectInv, PlanInv, PlanOf
<1> QED BY <1>1, <1>2, PlanFacts, UseHostFacts DEF Bundled

LEMMA FoundIsFile ==
  ASSUME SelectInv, NEW l \in Launchers, pc[l] \in Live, NEW m \in Members
  PROVE Found(l, m) \in Files
<1>1. farm[release(l)][m] \in Dirs \cup {NoDir}
  BY LivePlans DEF SelectInv, TypeOK, release
<1>2. config[l].bundle[m] \in Files BY LivePlans DEF ConfigType
<1>3. \A d \in Dirs : host[d][m] \in Files BY LivePlans
<1> QED BY <1>1, <1>2, <1>3 DEF Found

------------------------------------------------------------------------------
LEMMA InitTypes == Init => TypeOK
<1> SUFFICES ASSUME Init PROVE TypeOK OBVIOUS
<1>1. host \in [Dirs -> [Members -> Files]] BY HostsAssumption DEF Init
<1>2. NoConfig \in ConfigType
  BY DEF NoConfig, ConfigType, Files, Absent, Forced
<1>3. NoPlan \in [dir : Dirs \cup {NoDir}, ld : Dirs \cup {NoDir},
                  members : SUBSET Members, release : {0} \cup Builds]
  BY DEF NoPlan
<1>4. Unmapped \in [Members -> Files] BY DEF Unmapped, Files, Absent
<1> QED BY <1>1, <1>2, <1>3, <1>4, BoundsAssumption DEF Init, TypeOK

LEMMA FaultTypes ==
  ASSUME faults \in 0 .. MaxFaults, Fault PROVE faults' \in 0 .. MaxFaults
BY BoundsAssumption DEF Fault

LEMMA TypesKept ==
  ASSUME SelectInv, NEW a \in Launchers, ActsFor(a)
  PROVE TypeOK'
<1> USE DEF Goto
<1>1. TypeOK /\ PlanInv BY DEF SelectInv
<1>2. faults \in 0 .. MaxFaults BY <1>1 DEF TypeOK
<1>3. ASSUME NEW c \in Configs, Decide(a, c) PROVE TypeOK'
  <2>1. c \in ConfigType BY ConfigsAssumption
  <2>2. Plan(c) \in [dir : Dirs \cup {NoDir}, ld : Dirs \cup {NoDir},
                     members : SUBSET Members, release : {0} \cup Builds]
    BY <1>1, <2>1, PlanFacts DEF TypeOK
  <2>3. NoPlan \in [dir : Dirs \cup {NoDir}, ld : Dirs \cup {NoDir},
                    members : SUBSET Members, release : {0} \cup Builds]
    BY DEF NoPlan
  <2>4. launches' \in 0 .. MaxLaunches BY <1>1, <1>3, BoundsAssumption DEF Decide, TypeOK
  <2> QED BY <1>1, <1>3, <2>1, <2>2, <2>3, <2>4 DEF Decide, TypeOK, links
<1>4. CASE MakeFarm(a)
  <2>1. FarmOrder(plan[a].members) \in Seq(Members) BY <1>1, FarmOrderLinks DEF TypeOK
  <2>2. faults' \in 0 .. MaxFaults BY <1>2, <1>4, FaultTypes DEF MakeFarm
  <2> QED BY <1>1, <1>4, <2>1, <2>2 DEF MakeFarm, TypeOK, links
<1>5. ASSUME NEW d \in Dirs \cup {NoDir}, pc[a] \in Linking, todo[a] # <<>>, Relink(a, d)
      PROVE /\ farm' \in [Builds -> [Members -> Dirs \cup {NoDir}]]
            /\ raced' \subseteq Launchers
  <2>1. Head(todo[a]) \in Members BY <1>1, <1>5, TodoTypes DEF TypeOK
  <2>2. release(a) \in Builds BY <1>5, LivePlans DEF Live, release
  <2> QED BY <1>1, <1>5, <2>1, <2>2 DEF Relink, TypeOK, SharesFarm
<1>6. CASE Unlink(a)
  <2>1. farm' \in [Builds -> [Members -> Dirs \cup {NoDir}]] /\ raced' \subseteq Launchers
    BY <1>5, <1>6 DEF Unlink, Linking
  <2> QED BY <1>1, <1>6, <2>1 DEF Unlink, TypeOK
<1>7. CASE Symlink(a)
  <2>1. todo[a] # <<>> /\ plan[a].dir \in Dirs \cup {NoDir}
    BY <1>1, <1>7 DEF Symlink, PlanInv, PlanOf, TypeOK
  <2>2. farm' \in [Builds -> [Members -> Dirs \cup {NoDir}]] /\ raced' \subseteq Launchers
    BY <1>1, <1>5, <1>7, <2>1 DEF Symlink, Linking, TypeOK
  <2>3. Tail(todo[a]) \in Seq(Members) BY <1>1, <2>1, TodoTypes DEF TypeOK
  <2> QED BY <1>1, <1>7, <2>2, <2>3 DEF Symlink, NextMember, TypeOK
<1>8. CASE SymlinkStops(a)
  <2>1. release(a) \in Builds
    BY <1>8, LivePlans DEF SymlinkStops, Live, Linking, release
  <2>2. faults' \in 0 .. MaxFaults BY <1>2, <1>8, FaultTypes DEF SymlinkStops
  <2> QED BY <1>1, <1>8, <2>1, <2>2 DEF SymlinkStops, TypeOK
<1>9. CASE FarmBuilt(a)
  <2>1. faults' \in 0 .. MaxFaults BY <1>2, <1>9, FaultTypes DEF FarmBuilt
  <2> QED BY <1>1, <1>9, <2>1 DEF FarmBuilt, TypeOK, links
<1>10. CASE SelfTest(a)
  <2>1. faults' \in 0 .. MaxFaults BY <1>2, <1>10, FaultTypes DEF SelfTest
  <2> QED BY <1>1, <1>10, <2>1 DEF SelfTest, TypeOK, links
<1>11. CASE Exec(a)
  <2>1. plan[a].ld \in Dirs BY <1>11, LivePlans DEF Exec, Live, Linked
  <2>2. host[plan[a].ld]["ld.so"] \in Files BY <1>1, <2>1, MembersAre DEF TypeOK
  <2>3. mapped' \in [Launchers -> [Members -> Files]]
    <3>1. CASE config[a].probe BY <1>1, <1>11, <3>1 DEF Exec, TypeOK
    <3>2. CASE ~config[a].probe
      <4>1. [mapped[a] EXCEPT !["ld.so"] = host[plan[a].ld]["ld.so"]] \in [Members -> Files]
        BY <1>1, <2>2, MembersAre DEF TypeOK
      <4>2. mapped' = [mapped EXCEPT ![a]["ld.so"] = host[plan[a].ld]["ld.so"]]
        BY <1>11, <3>2 DEF Exec
      <4> QED BY <1>1, <4>1, <4>2 DEF TypeOK
    <3> QED BY <3>1, <3>2
  <2> QED BY <1>1, <1>11, <2>3 DEF Exec, TypeOK, links
<1>12. CASE Exit(a)
  <2>1. NoConfig \in ConfigType /\ Unmapped \in [Members -> Files]
    BY DEF NoConfig, ConfigType, Files, Absent, Forced, Unmapped
  <2> QED BY <1>1, <1>12, <2>1 DEF Exit, TypeOK, NoPlan
<1>13. ASSUME NEW m \in Members, Map(a, m) PROVE TypeOK'
  <2>1. Found(a, m) \in Files BY <1>13, FoundIsFile DEF Map, Live, Linked
  <2> QED BY <1>1, <1>13, <2>1 DEF Map, TypeOK, links
<1> QED BY <1>3, <1>4, <1>6, <1>7, <1>8, <1>9, <1>10, <1>11, <1>12, <1>13 DEF ActsFor

------------------------------------------------------------------------------
\* What an action does to the launchers that it is not of.
LEMMA OthersKept ==
  ASSUME SelectInv, NEW a \in Launchers, ActsFor(a), NEW k \in Launchers \ {a}
  PROVE /\ pc'[k] = pc[k] /\ config'[k] = config[k] /\ plan'[k] = plan[k]
        /\ todo'[k] = todo[k] /\ mapped'[k] = mapped[k] /\ tested'[k] = tested[k]
        /\ k \notin raced' => k \notin raced
        /\ faults' = 0 => faults = 0
<1>1. TypeOK BY DEF SelectInv
<1>2. ASSUME Fault PROVE faults' # 0
  BY <1>1, <1>2 DEF Fault, TypeOK
<1>3. pc'[k] = pc[k]
  BY <1>1 DEF ActsFor, Decide, MakeFarm, Unlink, Symlink, NextMember, SymlinkStops,
              FarmBuilt, SelfTest, Exec, Exit, Map, Goto, TypeOK
<1>4. config'[k] = config[k] /\ plan'[k] = plan[k] /\ tested'[k] = tested[k]
  BY <1>1 DEF ActsFor, Decide, MakeFarm, Unlink, Symlink, NextMember, SymlinkStops,
              FarmBuilt, SelfTest, Exec, Exit, Map, TypeOK
<1>5. todo'[k] = todo[k]
  BY <1>1 DEF ActsFor, Decide, MakeFarm, Unlink, Symlink, NextMember, SymlinkStops,
              FarmBuilt, SelfTest, Exec, Exit, Map, TypeOK
<1>6. mapped'[k] = mapped[k]
  BY <1>1 DEF ActsFor, Decide, MakeFarm, Unlink, Symlink, SymlinkStops,
              FarmBuilt, SelfTest, Exec, Exit, Map, TypeOK
<1>7. k \notin raced' => k \notin raced
  BY DEF ActsFor, Decide, MakeFarm, Unlink, Symlink, SymlinkStops, Relink,
         FarmBuilt, SelfTest, Exec, Exit, Map, links
<1>8. faults' = 0 => faults = 0
  BY <1>2 DEF ActsFor, Decide, MakeFarm, Unlink, Symlink, SymlinkStops,
         FarmBuilt, SelfTest, Exec, Exit, Map
<1> QED BY <1>3, <1>4, <1>5, <1>6, <1>7, <1>8

LEMMA PlanOfOthers ==
  ASSUME SelectInv, NEW a \in Launchers, ActsFor(a), NEW k \in Launchers \ {a}
  PROVE PlanOf(k)'
<1>1. PlanOf(k) BY DEF SelectInv, PlanInv
<1> QED BY <1>1, OthersKept, HostKept, HostStays DEF PlanOf

LEMMA PlanKept ==
  ASSUME SelectInv, NEW a \in Launchers, ActsFor(a)
  PROVE PlanInv'
<1> USE DEF Goto, Live, Linking, Linked
<1>1. TypeOK /\ PlanOf(a) BY DEF SelectInv, PlanInv
<1>2. \A c : Plan(c)' = Plan(c) /\ (UseHost(c)' <=> UseHost(c))
  BY HostKept, HostStays
<1>3. \A p : PlannedSet(p)' = PlannedSet(p) BY HostKept, HostStays
<1>4. PlanOf(a)'
  <2>1. ASSUME NEW c \in Configs, Decide(a, c) PROVE PlanOf(a)'
    <3>1. CASE UseHost(c)
      <4>1. /\ pc'[a] = "mkdir" /\ config'[a] = c /\ plan'[a] = Plan(c)
            /\ tested'[a] = tested[a] /\ mapped'[a] = mapped[a] /\ pc[a] = "idle"
        BY <1>1, <2>1, <3>1 DEF Decide, TypeOK
      <4> QED BY <1>1, <1>2, <3>1, <4>1 DEF PlanOf
    <3>2. CASE ~UseHost(c) BY <1>1, <2>1, <3>2 DEF Decide, TypeOK, PlanOf, links
    <3> QED BY <3>1, <3>2
  <2>2. CASE MakeFarm(a) BY <1>1, <1>2, <2>2 DEF MakeFarm, TypeOK, PlanOf, links
  <2>3. CASE Unlink(a) BY <1>1, <1>2, <2>3 DEF Unlink, TypeOK, PlanOf
  <2>4. CASE Symlink(a)
    BY <1>1, <1>2, <2>4 DEF Symlink, NextMember, TypeOK, PlanOf
  <2>5. CASE SymlinkStops(a) BY <1>1, <1>2, <2>5 DEF SymlinkStops, TypeOK, PlanOf
  <2>6. CASE FarmBuilt(a) BY <1>1, <1>2, <2>6 DEF FarmBuilt, TypeOK, PlanOf, links
  <2>7. CASE SelfTest(a) BY <1>1, <1>2, <2>7 DEF SelfTest, TypeOK, PlanOf, links
  <2>8. CASE Exec(a)
    <3>1. CASE config[a].probe
      BY <1>1, <1>2, <2>8, <3>1 DEF Exec, TypeOK, PlanOf, links
    <3>2. CASE ~config[a].probe
      <4>1. mapped'[a]["ld.so"] = host[plan[a].ld]["ld.so"] /\ pc'[a] = "running"
        BY <1>1, <2>8, <3>2, MembersAre DEF Exec, TypeOK
      <4>2. PlannedSet(plan[a])["ld.so"] = host[plan[a].ld]["ld.so"]
        BY MembersAre DEF PlannedSet
      <4>3. plan'[a] = plan[a] /\ config'[a] = config[a] /\ todo'[a] = todo[a]
        BY <2>8 DEF Exec
      <4> QED BY <1>1, <1>2, <1>3, <2>8, <4>1, <4>2, <4>3 DEF Exec, PlanOf
    <3> QED BY <3>1, <3>2
  <2>9. CASE Exit(a) BY <1>1, <2>9 DEF Exit, TypeOK, PlanOf
  <2>10. ASSUME NEW m \in Members, Map(a, m) PROVE PlanOf(a)'
    <3>1. pc[a] = "running" /\ mapped[a][m] = Absent BY <2>10 DEF Map
    <3>2. mapped[a]["ld.so"] # Absent
      <4>1. UseHost(config[a]) /\ plan[a] = Plan(config[a]) BY <3>1, LivePlans
      <4> QED BY <1>1, <3>1, <4>1, LivePlans, PlannedFiles DEF PlanOf
    <3>3. mapped'[a]["ld.so"] = mapped[a]["ld.so"]
      BY <1>1, <2>10, <3>1, <3>2, MembersAre DEF Map, TypeOK
    <3> QED BY <1>1, <1>2, <1>3, <2>10, <3>1, <3>3 DEF Map, PlanOf, links
  <2> QED BY <2>1, <2>2, <2>3, <2>4, <2>5, <2>6, <2>7, <2>8, <2>9, <2>10 DEF ActsFor
<1> QED
  <2>1. \A k \in Launchers : PlanOf(k)' BY <1>4, PlanOfOthers
  <2> QED BY <2>1 DEF PlanInv

------------------------------------------------------------------------------
\* How an action changes the farms: one member of one of them, if any.
LEMMA RelinkMoves ==
  ASSUME TypeOK, NEW a \in Launchers, release(a) \in Builds, Head(todo[a]) \in Members,
         NEW d, Relink(a, d), NEW r \in Builds, NEW m \in Members
  PROVE farm'[r][m] = IF r = release(a) /\ m = Head(todo[a]) THEN d ELSE farm[r][m]
<1>1. farm' = [farm EXCEPT ![release(a)][Head(todo[a])] = d] BY DEF Relink
<1>2. farm \in [Builds -> [Members -> Dirs \cup {NoDir}]] BY DEF TypeOK
<1>3. CASE r = release(a)
  <2>1. farm'[r] = [farm[r] EXCEPT ![Head(todo[a])] = d] BY <1>1, <1>2, <1>3
  <2> QED BY <1>2, <1>3, <2>1
<1>4. CASE r # release(a) BY <1>1, <1>2, <1>4
<1> QED BY <1>3, <1>4

\* What a launcher in the loop of rs_build_farm is about to link.
LEMMA NextLink ==
  ASSUME SelectInv, NEW a \in Launchers, pc[a] \in Linking, todo[a] # <<>>
  PROVE /\ release(a) \in Builds /\ plan[a].dir # NoDir
        /\ Head(todo[a]) \in Members /\ Head(todo[a]) \in Range(todo[a])
        /\ Range(todo[a]) = {Head(todo[a])} \cup Range(Tail(todo[a]))
<1>1. release(a) \in Builds /\ plan[a].dir # NoDir BY LivePlans DEF Live, release
<1>2. todo[a] \in Seq(Members) BY DEF SelectInv, TypeOK
<1> QED BY <1>1, <1>2, TodoTypes

\* A link that is there, or about to be made, stays so, unless its launcher stops.
LEMMA LinksStay ==
  ASSUME SelectInv, NEW a \in Launchers, ActsFor(a), NEW r \in Builds \ broken',
         NEW m \in Members, farm[r][m] # NoDir \/ AboutToLink(r, m)
  PROVE farm'[r][m] # NoDir \/ AboutToLink(r, m)'
<1> USE DEF Goto
<1>1. TypeOK /\ PlanOf(a) BY DEF SelectInv, PlanInv
<1>2. ASSUME NEW k \in Launchers \ {a}, pc[k] = "symlink", release(k) = r, Head(todo[k]) = m
      PROVE AboutToLink(r, m)'
  <2>1. pc'[k] = "symlink" /\ release(k)' = r /\ Head(todo'[k]) = m
    BY <1>2, OthersKept DEF release
  <2> QED BY <2>1 DEF AboutToLink
<1>3. CASE Unlink(a)
  <2>1. release(a) \in Builds /\ Head(todo[a]) \in Members /\ Relink(a, NoDir)
    BY <1>3, NextLink DEF Unlink, Linking
  <2>2. farm'[r][m] = IF r = release(a) /\ m = Head(todo[a]) THEN NoDir ELSE farm[r][m]
    BY <1>1, <2>1, RelinkMoves
  <2>3. CASE r = release(a) /\ m = Head(todo[a])
    <3>1. pc'[a] = "symlink" /\ release(a)' = r /\ Head(todo'[a]) = m
      BY <1>1, <1>3, <2>3 DEF Unlink, release, TypeOK
    <3> QED BY <3>1 DEF AboutToLink
  <2>4. CASE ~(r = release(a) /\ m = Head(todo[a]))
    <3>1. CASE farm[r][m] # NoDir BY <2>2, <2>4, <3>1
    <3>2. CASE AboutToLink(r, m)
      <4>1. pc[a] # "symlink" BY <1>3 DEF Unlink
      <4> QED BY <1>2, <3>2, <4>1 DEF AboutToLink
    <3> QED BY <3>1, <3>2
  <2> QED BY <2>3, <2>4
<1>4. CASE Symlink(a)
  <2>1. /\ release(a) \in Builds /\ Head(todo[a]) \in Members /\ plan[a].dir # NoDir
    BY <1>1, <1>4, NextLink DEF Symlink, PlanOf, Linking
  <2>2. CASE farm[release(a)][Head(todo[a])] = NoDir
    <3>1. farm'[r][m] = IF r = release(a) /\ m = Head(todo[a]) THEN plan[a].dir ELSE farm[r][m]
      BY <1>1, <1>4, <2>1, <2>2, RelinkMoves DEF Symlink
    <3>2. CASE farm[r][m] # NoDir BY <2>1, <3>1, <3>2
    <3>3. CASE r = release(a) /\ m = Head(todo[a]) BY <2>1, <3>1, <3>3
    <3>4. CASE AboutToLink(r, m) /\ ~(r = release(a) /\ m = Head(todo[a]))
      BY <1>2, <3>4 DEF AboutToLink
    <3> QED BY <3>2, <3>3, <3>4
  <2>3. CASE farm[release(a)][Head(todo[a])] # NoDir
    <3>1. farm' = farm BY <1>4, <2>3 DEF Symlink
    <3>2. CASE farm[r][m] # NoDir BY <3>1, <3>2
    <3>3. CASE AboutToLink(r, m) /\ ~(r = release(a) /\ m = Head(todo[a]))
      BY <1>2, <3>3 DEF AboutToLink
    <3> QED BY <2>3, <3>1, <3>2, <3>3
  <2> QED BY <2>2, <2>3
<1>5. CASE SymlinkStops(a)
  <2>1. farm' = farm /\ release(a) \in broken' BY <1>5 DEF SymlinkStops
  <2>2. CASE AboutToLink(r, m) BY <1>2, <2>1, <2>2 DEF AboutToLink
  <2> QED BY <2>1, <2>2
<1>6. CASE pc[a] # "symlink" /\ farm' = farm
  BY <1>2, <1>6 DEF AboutToLink
<1>7. Unlink(a) \/ Symlink(a) \/ SymlinkStops(a) \/ (pc[a] # "symlink" /\ farm' = farm)
  BY DEF ActsFor, Decide, MakeFarm, FarmBuilt, SelfTest, Exec, Exit, Map, links
<1> QED BY <1>3, <1>4, <1>5, <1>6, <1>7

\* What a launcher has linked grows by the member that it links, and by no other step.
LEMMA DoneGrows ==
  ASSUME SelectInv, NEW a \in Launchers, ActsFor(a), pc'[a] \in Linking \cup Linked
  PROVE /\ release(a)' = release(a) /\ plan'[a] = plan[a] /\ pc[a] \in Live
        /\ \/ Done(a)' = {} /\ pc'[a] # "symlink"
           \/ /\ Symlink(a) /\ Done(a)' \subseteq Done(a) \cup {Head(todo[a])}
              /\ pc'[a] # "symlink"
           \/ /\ Done(a)' = Done(a) /\ pc[a] \in Linking \cup Linked
              /\ Unlink(a) \/ (farm' = farm /\ pc'[a] # "symlink")
<1> USE DEF Goto, Live, Linking, Linked
<1>1. TypeOK /\ PlanOf(a) BY DEF SelectInv, PlanInv
<1>2. CASE MakeFarm(a)
  <2>1. plan'[a] = plan[a] /\ pc'[a] = "unlink" /\ todo'[a] = FarmOrder(plan[a].members)
    BY <1>1, <1>2 DEF MakeFarm, TypeOK
  <2>2. Range(todo'[a]) = plan[a].members \ {"ld.so"} BY <1>1, <2>1, FarmOrderLinks DEF TypeOK
  <2> QED BY <1>2, <2>1, <2>2 DEF Done, release, MakeFarm
<1>3. CASE Unlink(a)
  BY <1>1, <1>3 DEF Unlink, Done, release
<1>4. CASE Symlink(a)
  <2>1. plan'[a] = plan[a] /\ todo'[a] = Tail(todo[a]) /\ pc'[a] = "unlink" /\ pc[a] = "symlink"
    BY <1>1, <1>4 DEF Symlink, NextMember, TypeOK
  <2>2. Range(todo[a]) = {Head(todo[a])} \cup Range(Tail(todo[a]))
    BY <1>1, <2>1, NextLink DEF PlanOf
  <2>3. Done(a)' \subseteq Done(a) \cup {Head(todo[a])} BY <2>1, <2>2 DEF Done
  <2> QED BY <1>4, <2>1, <2>3 DEF release
<1>5. CASE FarmBuilt(a)
  BY <1>1, <1>5 DEF FarmBuilt, TypeOK, Done, release, links
<1>6. CASE SelfTest(a)
  BY <1>1, <1>6 DEF SelfTest, TypeOK, Done, release, links
<1>7. CASE Exec(a)
  BY <1>1, <1>7 DEF Exec, TypeOK, Done, release, links
<1>8. ASSUME NEW m \in Members, Map(a, m)
      PROVE Done(a)' = Done(a) /\ farm' = farm /\ pc[a] = "running" /\ pc' = pc /\ plan' = plan
  BY <1>8 DEF Map, Done, links
<1>9. \A c \in Configs : ~Decide(a, c)
  BY <1>1 DEF Decide, TypeOK
<1>10. ~SymlinkStops(a) /\ ~Exit(a) BY <1>1 DEF SymlinkStops, Exit, TypeOK
<1> QED BY <1>2, <1>3, <1>4, <1>5, <1>6, <1>7, <1>8, <1>9, <1>10 DEF ActsFor, release

LEMMA BrokenGrows == ASSUME NEW a \in Launchers, ActsFor(a) PROVE broken \subseteq broken'
BY DEF ActsFor, Decide, MakeFarm, Unlink, Symlink, SymlinkStops, FarmBuilt, SelfTest,
       Exec, Exit, Map, links

LEMMA LinksKept ==
  ASSUME SelectInv, NEW a \in Launchers, ActsFor(a), NEW l \in Launchers
  PROVE LinksOf(l)'
<1> USE DEF Live, Linking, Linked
<1>1. TypeOK /\ PlanOf(a) /\ LinksOf(l) BY DEF SelectInv, PlanInv, LinksHeal
<1>2. SUFFICES ASSUME pc'[l] \in Linking \cup Linked, release(l)' \notin broken',
                      NEW m \in Done(l)'
               PROVE farm'[release(l)'][m] # NoDir \/ AboutToLink(release(l), m)'
  BY DEF LinksOf
<1>3. CASE l # a
  <2>1. /\ pc[l] \in Linking \cup Linked /\ release(l)' = release(l) /\ m \in Done(l)
        /\ release(l) \notin broken /\ plan[l].release = release(l)
    BY <1>2, <1>3, OthersKept, BrokenGrows DEF Done, release
  <2>2. release(l) \in Builds /\ m \in Members BY <2>1, LivePlans DEF Done, release
  <2>3. farm[release(l)][m] # NoDir \/ AboutToLink(release(l), m) BY <1>1, <2>1 DEF LinksOf
  <2>4. ASSUME NEW r \in Builds \ broken', r = release(l)
        PROVE farm'[r][m] # NoDir \/ AboutToLink(r, m)'
    BY <2>2, <2>3, <2>4, LinksStay
  <2> QED BY <1>2, <2>1, <2>2, <2>4 DEF AboutToLink
<1>4. CASE l = a
  <2>1. /\ release(a)' = release(a) /\ pc[a] \in Live
        /\ release(a) \in Builds /\ m \in Members /\ release(a) \notin broken
    BY <1>2, <1>4, DoneGrows, LivePlans, BrokenGrows DEF Done, release
  <2>2. CASE m \in Done(a) /\ pc[a] \in Linking \cup Linked
    <3>1. farm[release(a)][m] # NoDir \/ AboutToLink(release(a), m)
      BY <1>1, <1>4, <2>1, <2>2 DEF LinksOf
    <3>2. ASSUME NEW r \in Builds \ broken', r = release(a)
          PROVE farm'[r][m] # NoDir \/ AboutToLink(r, m)'
      BY <2>1, <3>1, <3>2, LinksStay
    <3> QED BY <1>2, <1>4, <2>1, <3>2 DEF AboutToLink
  <2>3. CASE Symlink(a) /\ m = Head(todo[a])
    <3>1. Head(todo[a]) \in Members /\ plan[a].dir # NoDir
      BY <1>1, <2>3, NextLink DEF Symlink, PlanOf
    <3>2. CASE farm[release(a)][m] = NoDir
      <4>1. farm'[release(a)][m] = plan[a].dir
        BY <1>1, <2>1, <2>3, <3>1, <3>2, RelinkMoves DEF Symlink
      <4> QED BY <1>4, <2>1, <3>1, <4>1
    <3>3. CASE farm[release(a)][m] # NoDir BY <1>4, <2>1, <2>3, <3>3 DEF Symlink
    <3> QED BY <3>2, <3>3
  <2> QED BY <1>2, <1>4, <2>2, <2>3, DoneGrows DEF Symlink
<1> QED BY <1>3, <1>4

\* Whoever relinks a member of a farm has disturbed the others that use it.
LEMMA OwnFarmStays ==
  ASSUME SelectInv, NEW a \in Launchers, ActsFor(a), NEW l \in Launchers \ {a},
         l \notin raced', pc[l] \in Linking \cup Linked, NEW m \in Members
  PROVE farm'[release(l)][m] = farm[release(l)][m]
<1>1. release(l) \in Builds BY LivePlans DEF Live, release
<1>2. CASE farm' = farm BY <1>2
<1>3. ASSUME NEW d, pc[a] \in Linking, todo[a] # <<>>, Relink(a, d)
      PROVE farm'[release(l)][m] = farm[release(l)][m]
  <2>1. l \notin SharesFarm(a) BY <1>3 DEF Relink
  <2>2. release(l) # release(a) BY <2>1 DEF SharesFarm, Linking, Linked
  <2>3. release(a) \in Builds /\ Head(todo[a]) \in Members BY <1>3, NextLink
  <2> QED BY <1>1, <1>3, <2>2, <2>3, RelinkMoves DEF SelectInv
<1>4. \/ farm' = farm
      \/ \E d : pc[a] \in Linking /\ todo[a] # <<>> /\ Relink(a, d)
  <2>1. CASE Symlink(a)
    BY <2>1 DEF Symlink, SelectInv, PlanInv, PlanOf, Linking
  <2>2. CASE Unlink(a) BY <2>2 DEF Unlink, Linking
  <2> QED BY <2>1, <2>2 DEF ActsFor, Decide, MakeFarm, SymlinkStops, FarmBuilt, SelfTest,
                            Exec, Exit, Map, links
<1> QED BY <1>2, <1>3, <1>4

LEMMA OwnLinksKept ==
  ASSUME SelectInv, NEW a \in Launchers, ActsFor(a), NEW l \in Launchers, l \notin raced'
  PROVE OwnLinksOf(l)'
<1> USE DEF Live, Linking, Linked
<1>1. TypeOK /\ PlanOf(a) /\ PlanOf(l) BY DEF SelectInv, PlanInv
<1>2. CASE l # a
  <2>1. /\ pc'[l] = pc[l] /\ plan'[l] = plan[l] /\ todo'[l] = todo[l]
        /\ l \notin raced /\ OwnLinksOf(l)
    BY <1>2, OthersKept DEF SelectInv, OwnLinks
  <2>2. Done(l)' = Done(l) /\ release(l)' = release(l) BY <2>1 DEF Done, release
  <2>3. Done(l) \subseteq Members BY <1>1 DEF TypeOK, Done
  <2>4. CASE pc[l] \in Linking \cup Linked
    <3>1. \A m \in Members : farm'[release(l)][m] = farm[release(l)][m]
      BY <1>2, <2>4, OwnFarmStays
    <3>2. pc[l] = "symlink" => Head(todo[l]) \in Members
      BY <1>1, NextLink DEF PlanOf
    <3> QED BY <2>1, <2>2, <2>3, <3>1, <3>2 DEF OwnLinksOf
  <2>5. CASE pc[l] \notin Linking \cup Linked BY <2>1, <2>5 DEF OwnLinksOf
  <2> QED BY <2>4, <2>5
<1>3. CASE l = a
  <2>1. CASE pc'[a] \notin Linking \cup Linked BY <1>3, <2>1 DEF OwnLinksOf
  <2>2. CASE pc'[a] \in Linking \cup Linked
    <3>1. /\ release(a)' = release(a) /\ plan'[a] = plan[a] /\ pc[a] \in Live
          /\ release(a) \in Builds
      BY <2>2, DoneGrows, LivePlans DEF release
    <3>2. a \notin raced
      BY <1>3, <2>2, <1>1 DEF ActsFor, Decide, MakeFarm, Unlink, Symlink, SymlinkStops,
           Relink, FarmBuilt, SelfTest, Exec, Exit, Map, links, Goto, TypeOK
    <3>3. OwnLinksOf(a) BY <3>2 DEF SelectInv, OwnLinks
    <3>4. CASE Done(a)' = {} /\ pc'[a] # "symlink" BY <1>3, <3>4 DEF OwnLinksOf
    <3>5. CASE /\ Symlink(a) /\ Done(a)' \subseteq Done(a) \cup {Head(todo[a])}
               /\ pc'[a] # "symlink"
      <4>1. farm[release(a)][Head(todo[a])] = NoDir BY <3>3, <3>5 DEF Symlink, OwnLinksOf
      <4>2. Head(todo[a]) \in Members BY <1>1, <3>5, NextLink DEF Symlink, PlanOf
      <4>3. \A m \in Members : farm'[release(a)][m]
              = IF m = Head(todo[a]) THEN plan[a].dir ELSE farm[release(a)][m]
        BY <1>1, <3>1, <3>5, <4>1, <4>2, RelinkMoves DEF Symlink
      <4>4. \A m \in Done(a) : m \in Members /\ farm[release(a)][m] = plan[a].dir
        BY <1>1, <3>3, <3>5 DEF Symlink, OwnLinksOf, TypeOK, Done
      <4> QED BY <1>3, <3>1, <3>5, <4>2, <4>3, <4>4 DEF OwnLinksOf
    <3>6. CASE /\ Done(a)' = Done(a) /\ pc[a] \in Linking \cup Linked
               /\ Unlink(a)
      <4>1. Head(todo[a]) \in Members /\ Head(todo[a]) \in Range(todo[a])
        BY <3>6, NextLink DEF Unlink
      <4>2. \A m \in Members : farm'[release(a)][m]
              = IF m = Head(todo[a]) THEN NoDir ELSE farm[release(a)][m]
        BY <1>1, <3>1, <3>6, <4>1, RelinkMoves DEF Unlink
      <4>3. \A m \in Done(a) : m \in Members /\ m # Head(todo[a])
                                /\ farm[release(a)][m] = plan[a].dir
        BY <1>1, <3>3, <3>6, <4>1 DEF OwnLinksOf, TypeOK, Done
      <4>4. todo'[a] = todo[a] BY <3>6 DEF Unlink
      <4> QED BY <1>3, <3>1, <3>6, <4>1, <4>2, <4>3, <4>4 DEF OwnLinksOf
    <3>7. CASE /\ Done(a)' = Done(a) /\ pc[a] \in Linking \cup Linked
               /\ farm' = farm /\ pc'[a] # "symlink"
      BY <1>3, <3>1, <3>3, <3>7 DEF OwnLinksOf
    <3> QED BY <2>2, <3>4, <3>5, <3>6, <3>7, DoneGrows
  <2> QED BY <2>1, <2>2
<1> QED BY <1>2, <1>3

------------------------------------------------------------------------------
\* What ld.so finds for a launcher that nobody disturbed is what its plan says.
LEMMA FoundIsPlanned ==
  ASSUME SelectInv, NEW l \in Launchers \ raced, pc[l] \in Linked,
         NEW m \in plan[l].members \ {"ld.so"}
  PROVE /\ Found(l, m) = PlannedSet(plan[l])[m] /\ Found(l, m) # Absent
        /\ Found(l, m) \in Files
<1>1. PlanOf(l) /\ OwnLinksOf(l) BY DEF SelectInv, PlanInv, OwnLinks
<1>2. todo[l] = <<>> BY <1>1 DEF PlanOf
<1>3. m \in Done(l)
  <2>1. Range(todo[l]) = {} BY <1>2 DEF Range
  <2> QED BY <2>1 DEF Done
<1>4. farm[release(l)][m] = plan[l].dir BY <1>1, <1>3 DEF OwnLinksOf
<1>5. /\ UseHost(config[l]) /\ plan[l] = Plan(config[l]) /\ plan[l].members = Bundled(config[l])
      /\ plan[l].members \subseteq Members /\ plan[l].dir # NoDir
      /\ config[l] \in ConfigType /\ host \in [Dirs -> [Members -> Files]]
  BY LivePlans DEF Live
<1>6. /\ PlannedSet(plan[l])[m] = host[plan[l].dir][m] /\ PlannedSet(plan[l])[m] # Absent
      /\ PlannedSet(plan[l])[m] \in Files
  BY <1>5, PlannedFiles
<1> QED BY <1>4, <1>5, <1>6 DEF Found

\* A launcher that is disturbed is so until it ends.
LEMMA OnceRaced ==
  ASSUME SelectInv, NEW a \in Launchers, ActsFor(a), a \notin raced'
  PROVE a \notin raced \/ pc'[a] = "idle"
BY DEF ActsFor, Decide, MakeFarm, Unlink, Symlink, SymlinkStops, Relink, FarmBuilt,
       SelfTest, Exec, Exit, Map, links, Goto, SelectInv, TypeOK

LEMMA OwnLibrariesKept ==
  ASSUME SelectInv, NEW a \in Launchers, ActsFor(a), NEW l \in Launchers, l \notin raced'
  PROVE OwnLibrariesOf(l)'
<1> USE DEF Live, Linking, Linked, Goto
<1>1. TypeOK /\ PlanOf(a) BY DEF SelectInv, PlanInv
<1>2. \A p : PlannedSet(p)' = PlannedSet(p) BY HostKept, HostStays
<1>3. CASE l # a
  <2>1. /\ pc'[l] = pc[l] /\ plan'[l] = plan[l] /\ tested'[l] = tested[l]
        /\ mapped'[l] = mapped[l] /\ OwnLibrariesOf(l)
    BY <1>3, OthersKept DEF SelectInv, OwnLibraries
  <2> QED BY <1>2, <2>1 DEF OwnLibrariesOf, Open
<1>4. ASSUME l = a, pc'[a] \in Live PROVE a \notin raced /\ OwnLibrariesOf(a)
  BY <1>4, OnceRaced DEF SelectInv, OwnLibraries
<1>5. ASSUME l = a, pc'[a] \notin {"running"}, tested'[a] = tested[a], pc'[a] \in Live => plan'[a] = plan[a]
      PROVE OwnLibrariesOf(a)'
  <2>1. CASE pc'[a] \notin Live BY <2>1 DEF OwnLibrariesOf
  <2>2. CASE pc'[a] \in Live /\ tested[a]
    <3>1. pc[a] \in {"exec", "running", "bundled"} BY <1>1, <2>2 DEF PlanOf
    <3>2. pc'[a] \in Live => pc[a] \in Live
      BY <3>1, <1>1 DEF ActsFor, Decide, MakeFarm, Unlink, Symlink, SymlinkStops, FarmBuilt,
                        SelfTest, Exec, Exit, Map, TypeOK
    <3> QED BY <1>2, <1>4, <1>5, <2>2, <3>2 DEF OwnLibrariesOf
  <2>3. CASE ~tested[a] BY <1>5, <2>3 DEF OwnLibrariesOf
  <2> QED BY <2>1, <2>2, <2>3
<1>6. ASSUME l = a, NEW c \in Configs, Decide(a, c) PROVE OwnLibrariesOf(a)'
  <2>1. ~tested'[a] /\ pc'[a] # "running" BY <1>1, <1>6 DEF Decide, PlanOf, TypeOK
  <2> QED BY <2>1 DEF OwnLibrariesOf
<1>7. CASE l = a /\ (MakeFarm(a) \/ Unlink(a) \/ Symlink(a) \/ SymlinkStops(a) \/ FarmBuilt(a) \/ Exit(a))
  <2>1. ~tested'[a] /\ pc'[a] # "running"
    BY <1>1, <1>7 DEF MakeFarm, Unlink, Symlink, NextMember, SymlinkStops, FarmBuilt,
                      Exit, PlanOf, TypeOK
  <2> QED BY <1>7, <2>1 DEF OwnLibrariesOf
<1>8. CASE l = a /\ SelfTest(a)
  <2>1. plan'[a] = plan[a] /\ pc'[a] # "running" /\ pc[a] \in Linked
    BY <1>1, <1>8 DEF SelfTest, TypeOK
  <2>2. CASE ProbeRuns(a) /\ pc'[a] \in Live
    <3>1. "libc" \in plan[a].members BY <2>1, LivePlans, UseHostFacts
    <3>2. Found(a, "libc") = PlannedSet(plan[a])["libc"]
      BY <1>4, <1>8, <2>1, <2>2, <3>1, FoundIsPlanned
    <3>3. PlannedSet(plan[a])["ld.so"] = host[plan[a].ld]["ld.so"]
      BY MembersAre DEF PlannedSet
    <3> QED BY <1>2, <1>8, <2>1, <2>2, <3>2, <3>3 DEF ProbeRuns, OwnLibrariesOf
  <2>3. CASE tested'[a] = tested[a] BY <1>5, <1>8, <2>1, <2>3
  <2>4. CASE pc'[a] \notin Live BY <1>8, <2>1, <2>4 DEF OwnLibrariesOf
  <2> QED BY <1>8, <2>2, <2>3, <2>4 DEF SelfTest
<1>9. CASE l = a /\ Exec(a)
  <2>1. plan'[a] = plan[a] /\ tested'[a] = tested[a] /\ pc[a] = "exec" BY <1>9 DEF Exec
  <2>2. CASE config[a].probe
    <3>1. pc'[a] = "bundled" BY <1>1, <1>9, <2>2 DEF Exec, TypeOK
    <3> QED BY <1>5, <1>9, <2>1, <3>1
  <2>3. CASE ~config[a].probe
    <3>1. pc'[a] = "running" /\ mapped[a] = Unmapped
      BY <1>1, <1>9, <2>1, <2>3 DEF Exec, TypeOK, PlanOf
    <3>2. mapped' = [mapped EXCEPT ![a]["ld.so"] = host[plan[a].ld]["ld.so"]]
      BY <1>9, <2>3 DEF Exec
    <3>3. /\ UseHost(config[a]) /\ plan[a] = Plan(config[a]) /\ config[a] \in ConfigType
          /\ host \in [Dirs -> [Members -> Files]]
      BY <2>1, LivePlans
    <3>4. \A m \in Members : mapped'[a][m]
             = IF m = "ld.so" THEN host[plan[a].ld]["ld.so"] ELSE Absent
      BY <1>1, <3>1, <3>2 DEF TypeOK, Unmapped
    <3>5. /\ PlannedSet(plan[a])["ld.so"] = host[plan[a].ld]["ld.so"]
          /\ PlannedSet(plan[a])["ld.so"] \in Files /\ PlannedSet(plan[a])["ld.so"] # Absent
      BY <3>3, PlannedFiles, MembersAre
    <3>6. PlannedSet(plan[a])["ld.so"] # Unreadable BY <3>3, UseHostFacts DEF Consistent
    <3>7. PlannedSet(plan[a])["ld.so"] \in Builds BY <3>5, <3>6 DEF Files
    <3>8. OwnLibrariesOf(a) BY <1>4, <1>9, <3>1
    <3>9. \A m \in Open(a)' : m = "ld.so" BY <3>4 DEF Open
    <3>10. tested[a] => PlannedSet(plan[a])["libc"] = PlannedSet(plan[a])["ld.so"]
      BY <2>1, <3>8 DEF OwnLibrariesOf
    <3> QED BY <1>2, <1>9, <2>1, <3>4, <3>5, <3>7, <3>9, <3>10, MembersAre DEF OwnLibrariesOf
  <2> QED BY <2>2, <2>3
<1>10. ASSUME l = a, NEW m \in Members, Map(a, m) PROVE OwnLibrariesOf(a)'
  <2>1. /\ pc' = pc /\ plan' = plan /\ tested' = tested /\ pc[a] = "running"
        /\ m \in plan[a].members /\ mapped[a][m] = Absent /\ Found(a, m) # Unreadable
        /\ mapped' = [mapped EXCEPT ![a][m] = Found(a, m)]
    BY <1>10 DEF Map
  <2>2. a \notin raced /\ OwnLibrariesOf(a) BY <1>4, <1>10, <2>1
  <2>3. m # "ld.so"
    <3>1. mapped[a]["ld.so"] = PlannedSet(plan[a])["ld.so"] BY <1>1, <2>1 DEF PlanOf
    <3>2. PlannedSet(plan[a])["ld.so"] # Absent BY <2>1, LivePlans, PlannedFiles
    <3> QED BY <2>1, <3>1, <3>2
  <2>4. /\ Found(a, m) = PlannedSet(plan[a])[m] /\ Found(a, m) \in Builds
    BY <2>1, <2>2, <2>3, FoundIsPlanned DEF Files
  <2>5. \A n \in Members : mapped'[a][n] = IF n = m THEN Found(a, m) ELSE mapped[a][n]
    BY <1>1, <2>1 DEF TypeOK
  <2>6. Open(a)' \subseteq Open(a) \cup {m} BY <2>5 DEF Open
  <2>7. m \in Members /\ Open(a) \subseteq Members BY DEF Open
  <2> QED BY <1>2, <2>1, <2>2, <2>4, <2>5, <2>6, <2>7 DEF OwnLibrariesOf
<1> QED BY <1>3, <1>6, <1>7, <1>8, <1>9, <1>10 DEF ActsFor

LEMMA KeepsBundleKept ==
  ASSUME SelectInv, NEW a \in Launchers, ActsFor(a), NEW l \in Launchers, l \notin raced'
  PROVE KeepsBundleOf(l)'
<1> USE DEF Goto
<1>1. TypeOK /\ PlanOf(a) BY DEF SelectInv, PlanInv
<1>2. /\ \A p : PlannedSet(p)' = PlannedSet(p)
      /\ \A c : Plan(c)' = Plan(c) /\ (UseHost(c)' <=> UseHost(c))
  BY HostKept, HostStays
<1>3. CASE l # a
  <2>1. /\ pc'[l] = pc[l] /\ config'[l] = config[l] /\ faults' = 0 => faults = 0
        /\ KeepsBundleOf(l)
    BY <1>3, OthersKept DEF SelectInv, KeepsBundle
  <2> QED BY <1>2, <1>3, <2>1, OthersKept DEF KeepsBundleOf
<1>4. SUFFICES ASSUME l = a, pc'[a] = "bundled", faults' = 0, ~config'[a].probe,
                      UseHost(config[a])' 
               PROVE Wanting(PlannedSet(Plan(config[a])), config[a])'
  BY <1>3 DEF KeepsBundleOf
<1>5. ~Fault BY <1>1, <1>4 DEF Fault, TypeOK
<1>6. ASSUME NEW c \in Configs, Decide(a, c) PROVE FALSE
  <2>1. config'[a] = c /\ ~UseHost(c) BY <1>1, <1>4, <1>6 DEF Decide, TypeOK
  <2> QED BY <1>2, <1>4, <2>1
<1>7. ~MakeFarm(a) /\ ~SymlinkStops(a) /\ ~FarmBuilt(a)
  BY <1>1, <1>4, <1>5 DEF MakeFarm, SymlinkStops, FarmBuilt, TypeOK
<1>8. ~Unlink(a) /\ ~Symlink(a) /\ ~Exit(a)
  BY <1>1, <1>4 DEF Unlink, Symlink, NextMember, Exit, TypeOK
<1>9. ~Exec(a) BY <1>1, <1>4 DEF Exec, TypeOK
<1>10. \A m \in Members : ~Map(a, m) BY <1>4 DEF Map
<1>11. SelfTest(a) BY <1>6, <1>7, <1>8, <1>9, <1>10 DEF ActsFor
<1>12. /\ ~(ProbeRuns(a) /\ ProbeServed(a)) /\ config' = config /\ pc[a] = "self_test"
  BY <1>1, <1>4, <1>5, <1>11 DEF SelfTest, TypeOK
<1>13. a \notin raced BY <1>4, OnceRaced
<1>14. /\ plan[a] = Plan(config[a]) /\ "libc" \in plan[a].members
  BY <1>12, LivePlans, UseHostFacts DEF Live, Linked
<1>15. Found(a, "libc") = PlannedSet(plan[a])["libc"]
  BY <1>12, <1>13, <1>14, FoundIsPlanned DEF Linked
<1>16. PlannedSet(plan[a])["ld.so"] = host[plan[a].ld]["ld.so"]
  BY MembersAre DEF PlannedSet
<1>17. PlannedSet(plan[a])["libc"] \in Files /\ config[a].bundle["libc"] \in Files
  <2>1. Found(a, "libc") \in Files BY <1>12, <1>13, <1>14, FoundIsPlanned DEF Linked
  <2>2. config[a] \in ConfigType BY <1>1 DEF TypeOK
  <2> QED BY <1>15, <2>1, <2>2, MembersAre DEF ConfigType
<1>18. Wanting(PlannedSet(plan[a]), config[a])
  <2>1. /\ Defines("libc", PlannedSet(plan[a])["libc"]) \in 0 .. 3
        /\ Defines("libc", config[a].bundle["libc"]) \in 0 .. 3
    BY <1>17, DefinesRange, MembersAre
  <2> QED BY <1>12, <1>15, <1>16, <2>1 DEF ProbeRuns, ProbeServed, Wanting
<1> QED BY <1>2, <1>12, <1>14, <1>18 DEF Wanting

------------------------------------------------------------------------------
LEMMA SelectInvInit == Init => SelectInv
<1> SUFFICES ASSUME Init PROVE SelectInv OBVIOUS
<1>1. TypeOK BY InitTypes
<1>2. \A l \in Launchers : pc[l] = "idle" /\ mapped[l] = Unmapped /\ tested[l] = FALSE
  BY DEF Init
<1>3. PlanInv BY <1>2 DEF PlanInv, PlanOf, Live, Linking, Linked
<1>4. LinksHeal BY <1>2 DEF LinksHeal, LinksOf, Linking, Linked
<1>5. OwnLinks BY <1>2 DEF OwnLinks, OwnLinksOf, Linking, Linked
<1>6. OwnLibraries BY <1>2 DEF OwnLibraries, OwnLibrariesOf, Live, Linking, Linked
<1>7. KeepsBundle BY <1>2 DEF KeepsBundle, KeepsBundleOf
<1> QED BY <1>1, <1>3, <1>4, <1>5, <1>6, <1>7 DEF SelectInv

LEMMA SelectInvStutters == SelectInv /\ UNCHANGED vars => SelectInv'
<1> SUFFICES ASSUME SelectInv, UNCHANGED vars PROVE SelectInv' OBVIOUS
<1> USE DEF vars
<1>1. TypeOK' BY DEF SelectInv, TypeOK
<1>2. \A p : PlannedSet(p)' = PlannedSet(p) BY HostStays
<1>3. \A c : Plan(c)' = Plan(c) /\ (UseHost(c)' <=> UseHost(c)) BY HostStays
<1>4. PlanInv' BY <1>2, <1>3 DEF SelectInv, PlanInv, PlanOf
<1>5. LinksHeal'
  BY DEF SelectInv, LinksHeal, LinksOf, Done, AboutToLink, release
<1>6. OwnLinks' BY DEF SelectInv, OwnLinks, OwnLinksOf, Done, release
<1>7. OwnLibraries' BY <1>2 DEF SelectInv, OwnLibraries, OwnLibrariesOf, Open
<1>8. KeepsBundle' BY <1>2, <1>3 DEF SelectInv, KeepsBundle, KeepsBundleOf
<1> QED BY <1>1, <1>4, <1>5, <1>6, <1>7, <1>8 DEF SelectInv

LEMMA SelectInvStep == SelectInv /\ [Next]_vars => SelectInv'
<1> SUFFICES ASSUME SelectInv, Next PROVE SelectInv' BY SelectInvStutters
<1>1. PICK a \in Launchers : ActsFor(a) BY NextActs
<1>2. TypeOK' BY <1>1, TypesKept
<1>3. PlanInv' BY <1>1, PlanKept
<1>4. LinksHeal' BY <1>1, LinksKept DEF LinksHeal
<1>5. OwnLinks' BY <1>1, OwnLinksKept DEF OwnLinks
<1>6. OwnLibraries' BY <1>1, OwnLibrariesKept DEF OwnLibraries
<1>7. KeepsBundle' BY <1>1, KeepsBundleKept DEF KeepsBundle
<1> QED BY <1>2, <1>3, <1>4, <1>5, <1>6, <1>7 DEF SelectInv

LEMMA SelectInvHolds == Spec => []SelectInv
BY SelectInvInit, SelectInvStep, PTL DEF Spec

\* Every variable keeps to what the code can put in it.
THEOREM SelectTypes == Spec => []TypeOK
<1>1. SelectInv => TypeOK BY DEF SelectInv
<1> QED BY <1>1, SelectInvHolds, PTL

\* rs_build_farm has no lock, yet a farm that no launcher is between unlink and
\* symlink of, and that none has died over, has every member of its set.
THEOREM FarmsHeal == Spec => []FarmHeals
<1>1. ASSUME SelectInv PROVE FarmHeals
  <2> SUFFICES ASSUME NEW l \in Launchers, pc[l] \in {"self_test", "exec", "running"},
                      release(l) \notin broken,
                      \A k \in Launchers : pc[k] = "symlink" => release(k) # release(l),
                      NEW m \in plan[l].members \ {"ld.so"}
               PROVE farm[release(l)][m] # NoDir
    BY DEF FarmHeals
  <2>1. LinksOf(l) /\ PlanOf(l) BY <1>1 DEF SelectInv, LinksHeal, PlanInv
  <2>2. todo[l] = <<>> BY <2>1 DEF PlanOf, Linked
  <2>3. m \in Done(l)
    <3>1. Range(todo[l]) = {} BY <2>2 DEF Range
    <3> QED BY <3>1 DEF Done
  <2>4. ~AboutToLink(release(l), m) BY DEF AboutToLink
  <2> QED BY <2>1, <2>3, <2>4 DEF LinksOf, Linked
<1> QED BY <1>1, SelectInvHolds, PTL

------------------------------------------------------------------------------
\* rs_set_consistent: libdl has libc's private symbols only in libc's own build.
LEMMA LibdlIsLibcs ==
  ASSUME NEW set \in [Members -> Files], NEW members \in SUBSET Members,
         Consistent(set, members), "libdl" \in members, set["libdl"] # Unreadable
  PROVE set["libdl"] = set["libc"]
<1>1. ~Unsatisfied("libdl", set) BY DEF Consistent, SymbolsAgree
<1>2. <<"libc", set["libdl"]>> \in Exports(set) BY <1>1 DEF Unsatisfied
<1> QED BY <1>2 DEF Exports

\* An undisturbed launcher runs, under the host's runtime, the set that it verified.
LEMMA RunsItsPlan ==
  ASSUME SelectInv, NEW l \in Launchers \ raced, NEW m \in Open(l)
  PROVE /\ pc[l] = "running" /\ config[l] \in ConfigType
        /\ host \in [Dirs -> [Members -> Files]]
        /\ UseHost(config[l]) /\ plan[l] = Plan(config[l])
        /\ m \in Bundled(config[l]) \cup {"ld.so"} /\ m \in Members
        /\ mapped[l][m] = PlannedSet(plan[l])[m] /\ mapped[l][m] \in Builds
        /\ tested[l] => PlannedSet(plan[l])["libc"] = PlannedSet(plan[l])["ld.so"]
<1>1. PlanOf(l) /\ OwnLibrariesOf(l) BY DEF SelectInv, PlanInv, OwnLibraries
<1>2. pc[l] = "running" BY <1>1 DEF PlanOf, Open, Unmapped
<1> QED BY <1>1, <1>2, LivePlans, MembersAre DEF OwnLibrariesOf, Live, Linked, Open

\* A tested launcher's libraries, libm aside, are of its libc's build; those of one
\* that was not tested are, ld.so aside.
LEMMA OfLibcsBuild ==
  ASSUME SelectInv, NEW l \in Launchers \ raced,
         NEW m \in Open(l) \ ({"libm"} \cup (IF tested[l] THEN {} ELSE {"ld.so"}))
  PROVE mapped[l][m] = PlannedSet(plan[l])["libc"]
<1>1. /\ config[l] \in ConfigType /\ host \in [Dirs -> [Members -> Files]]
      /\ UseHost(config[l]) /\ plan[l] = Plan(config[l])
      /\ m \in Bundled(config[l]) \cup {"ld.so"} /\ m \in Members
      /\ mapped[l][m] = PlannedSet(plan[l])[m] /\ mapped[l][m] \in Builds
      /\ tested[l] => PlannedSet(plan[l])["libc"] = PlannedSet(plan[l])["ld.so"]
  BY RunsItsPlan
<1>2. CASE m = "libc" BY <1>1, <1>2
<1>3. CASE m = "ld.so" BY <1>1, <1>3
<1>4. CASE m = "libdl"
  <2>1. PlannedSet(plan[l]) \in [Members -> Files] BY <1>1, PlannedFiles
  <2>2. Bundled(config[l]) \in SUBSET Members BY DEF Bundled
  <2>3. Consistent(PlannedSet(plan[l]), Bundled(config[l])) BY <1>1, UseHostFacts
  <2>4. PlannedSet(plan[l])["libdl"] # Unreadable BY <1>1, <1>4 DEF Builds, Unreadable
  <2> QED BY <1>1, <1>4, <2>1, <2>2, <2>3, <2>4, LibdlIsLibcs
<1> QED BY <1>1, <1>2, <1>3, <1>4, MembersAre

\* The verification does what it says, libm aside: libraries of two builds meet in a
\* process only when another launcher changed its farm, or ld.so was not tried.
THEOREM OnlyRacesMix == Spec => []MixedOnlyByRace
<1>1. SelectInv => MixedOnlyByRace BY OfLibcsBuild DEF MixedOnlyByRace
<1> QED BY <1>1, SelectInvHolds, PTL

------------------------------------------------------------------------------
\* The ld.so that the host's release is read from is the one that is planned.
LEMMA OwnLdFirst ==
  ASSUME NEW c \in ConfigType, host \in [Dirs -> [Members -> Files]], UseHost(c),
         host[Plan(c).dir]["ld.so"] # Absent
  PROVE host[Plan(c).dir]["ld.so"] = PlannedSet(Plan(c))["ld.so"]
<1>1. Plan(c).dir = HostDir(c) /\ Plan(c).dir # NoDir BY PlanFacts, UseHostFacts
<1>2. Plan(c).ld = LdOf(HostDir(c), c) BY <1>1 DEF Plan
<1>3. LdOf(HostDir(c), c) = HostDir(c) BY <1>1 DEF LdOf
<1> QED BY <1>1, <1>2, <1>3, MembersAre DEF PlannedSet

\* The libraries of a bundle are of one build of glibc.
OneBuild(c) == \E b \in Builds : \A m \in Members : c.bundle[m] \in {b, Absent}

\* rs_set_release's comparison is right about libc, though other members may decide
\* it: a libm of a later build would show in what it asks of libc.
LEMMA HigherReleaseIsNewer ==
  ASSUME NEW c \in ConfigType, host \in [Dirs -> [Members -> Files]], UseHost(c),
         c.forced = "auto", NEW b \in Builds, \A m \in Members : c.bundle[m] \in {b, Absent},
         PlannedSet(Plan(c))["libc"] = PlannedSet(Plan(c))["ld.so"]
  PROVE PlannedSet(Plan(c))["libc"] >= b
<1> DEFINE set == PlannedSet(Plan(c))
           files == host[Plan(c).dir]
           members == Bundled(c)
           libc == set["libc"]
<1>1. /\ set \in [Members -> Files] /\ members \subseteq Members
      /\ files \in [Members -> Files] /\ c.bundle \in [Members -> Files]
  BY PlannedFiles, PlanFacts, UseHostFacts DEF Bundled, ConfigType
<1>2. /\ Plan(c).release = Release(files, members) /\ "libc" \in members
      /\ Release(c.bundle, members) > 0 /\ Consistent(set, members)
      /\ Release(files, members) > Release(c.bundle, members)
  BY PlanFacts, UseHostFacts DEF Forced
<1>3. \A m \in Members \ {"ld.so"} : set[m] = files[m] BY PlannedFiles
<1>4. files["ld.so"] \in {libc, Absent}
  BY OwnLdFirst
<1>5. libc \in Builds
  <2>1. libc # Absent BY <1>2, PlannedFiles
  <2>2. libc # Unreadable BY <1>2 DEF Consistent
  <2> QED BY <1>1, <2>1, <2>2, MembersAre DEF Files
<1>6. "libm" \in members => Defines("libc", set["libm"]) <= Defines("libc", libc)
  <2>1. "libm" \in members => Needs("libm", "libc", set) <= Defines("libc", libc)
    BY <1>2 DEF Consistent, VersionsAgree
  <2> QED BY <2>1 DEF Needs
<1>7. \A m \in members : c.bundle[m] = b BY DEF Bundled
<1> HIDE DEF set, files, members, libc
<1>8. \A x \in Files : x \in Int /\ x \in -1 .. 3
  BY DEF Files, Builds, Absent, Unreadable
<1>9. /\ Release(files, members) \in 0 .. 3 /\ Release(c.bundle, members) \in 0 .. 3
  BY <1>1, ReleaseIsHighest
<1>10. /\ Defines("libc", files["libc"]) = IF libc = 1 THEN 1 ELSE 2
       /\ Defines("ld.so", files["ld.so"]) <= IF libc = 1 THEN 1 ELSE 2
       /\ Defines("libdl", files["libdl"]) <= 1
  <2>1. files["libc"] = libc BY <1>3, MembersAre DEF libc
  <2>2. files["libdl"] \in Files /\ libc \in Files /\ files["ld.so"] \in Files
    BY <1>1, <1>5, MembersAre DEF Files
  <2>3. /\ Defines("libc", libc) = IF libc = 1 THEN 1 ELSE 2
        /\ Defines("ld.so", libc) = IF libc = 1 THEN 1 ELSE 2
    BY <1>5, <2>2, DefinesTable DEF Builds
  <2>4. Defines("ld.so", Absent) = 0 BY DefinesTable DEF Files, Absent
  <2>5. Defines("libdl", files["libdl"]) <= 1
    <3>1. Defines("libdl", files["libdl"]) \in {0, 1} BY <2>2, DefinesTable
    <3> QED BY <3>1
  <2> QED BY <1>4, <2>1, <2>3, <2>4, <2>5
<1>11. "libm" \in members =>
         Defines("libm", files["libm"]) <= IF libc = 1 THEN 1 ELSE 3
  <2>1. files["libm"] = set["libm"] /\ files["libm"] \in Files /\ libc \in Files
    BY <1>1, <1>3, <1>5, MembersAre DEF Files
  <2>2. files["libm"] \in -1 .. 3 BY <1>8, <2>1
  <2> QED BY <1>5, <1>6, <2>1, <2>2, DefinesTable DEF Builds
<1>12. CASE libc = 1
  <2>1. \A m \in members : Defines(m, files[m]) <= 1
    BY <1>1, <1>10, <1>11, <1>12, MembersAre
  <2>2. Release(files, members) <= 1 BY <1>1, <2>1, ReleaseIsHighest
  <2> QED BY <1>2, <1>9, <2>2
<1>13. CASE libc = 2
  <2>1. CASE b # 3 BY <1>13, <2>1 DEF Builds, libc, set
  <2>2. CASE b = 3 /\ "libm" \in members
    <3>1. Defines("libm", c.bundle["libm"]) = 3
      BY <1>7, <2>2, DefinesTable DEF Files, Builds
    <3>2. Release(c.bundle, members) >= 3 BY <1>1, <1>9, <2>2, <3>1, ReleaseIsHighest
    <3> QED BY <1>2, <1>9, <3>2
  <2>3. CASE b = 3 /\ "libm" \notin members
    <3>1. Defines("libc", c.bundle["libc"]) = 2
      BY <1>2, <1>7, <2>3, DefinesTable DEF Files, Builds
    <3>2. Release(c.bundle, members) >= 2 BY <1>1, <1>2, <1>9, <3>1, ReleaseIsHighest
    <3>3. \A m \in members : Defines(m, files[m]) <= 2
      <4>1. Defines("libdl", files["libdl"]) <= 2
        <5>1. files["libdl"] \in Files BY <1>1, MembersAre
        <5> QED BY <1>10, <5>1, DefinesRange, MembersAre
      <4> QED BY <1>1, <1>10, <1>13, <2>3, <4>1, MembersAre
    <3>4. Release(files, members) <= 2 BY <1>1, <3>3, ReleaseIsHighest
    <3> QED BY <1>2, <1>9, <3>2, <3>4
  <2> QED BY <2>1, <2>2, <2>3
<1>14. CASE libc = 3 BY <1>14 DEF Builds, libc, set
<1> QED BY <1>5, <1>12, <1>13, <1>14 DEF Builds

\* With bundles that are each of one build, as they are built, a launcher that is
\* not told to never exchanges a library for an older one.
THEOREM HostIsNeverOlder ==
  ASSUME \A c \in Configs : OneBuild(c)
  PROVE Spec => []NeverOlder
<1>1. ASSUME SelectInv PROVE NeverOlder
  <2> SUFFICES ASSUME NEW l \in Launchers \ raced, config[l].forced = "auto", tested[l],
                      NEW m \in Open(l) \ {"libm"}
               PROVE mapped[l][m] >= config[l].bundle[m]
    BY DEF NeverOlder
  <2>1. /\ pc[l] = "running" /\ config[l] \in ConfigType
        /\ host \in [Dirs -> [Members -> Files]]
        /\ UseHost(config[l]) /\ plan[l] = Plan(config[l]) /\ m \in Members
        /\ mapped[l][m] \in Builds
        /\ PlannedSet(plan[l])["libc"] = PlannedSet(plan[l])["ld.so"]
    BY <1>1, RunsItsPlan
  <2>2. config[l] \in Configs BY <1>1, <2>1 DEF SelectInv, PlanInv, PlanOf
  <2>3. PICK b \in Builds : \A n \in Members : config[l].bundle[n] \in {b, Absent}
    BY <2>2 DEF OneBuild
  <2>4. PlannedSet(plan[l])["libc"] >= b BY <2>1, <2>3, HigherReleaseIsNewer
  <2>5. mapped[l][m] = PlannedSet(plan[l])["libc"] BY <1>1, OfLibcsBuild
  <2> QED BY <2>1, <2>3, <2>4, <2>5 DEF Builds, Absent
<1> QED BY <1>1, SelectInvHolds, PTL

------------------------------------------------------------------------------
\* rs_decide takes a host's set that is whole, of one build and newer, and the self
\* test has nothing against it.
LEMMA MatchedIsUsed ==
  ASSUME NEW c \in ConfigType, host \in [Dirs -> [Members -> Files]],
         NEW b \in Builds, Matched(c, b), c.bundle["libc"] > 0, c.forced # "bundled"
  PROVE UseHost(c) /\ ~Wanting(PlannedSet(Plan(c)), c)
<1> DEFINE set == PlannedSet(Plan(c))
           files == host[Plan(c).dir]
           members == Bundled(c)
<1>1. HostDir(c) # NoDir /\ \A m \in members \cup {"ld.so"} : set[m] = b /\ c.bundle[m] < b
  BY DEF Matched
<1>2. PICK m \in members : \A n \in members : Defines(m, b) > Defines(n, c.bundle[n])
  BY DEF Matched
<1>3. /\ Plan(c).members = members /\ Plan(c).dir = HostDir(c) /\ Plan(c).dir \in Dirs
      /\ Plan(c).ld \in Dirs /\ Plan(c).release = Release(files, members)
  BY <1>1, PlanFacts
<1>4. /\ members \subseteq Members /\ c.bundle \in [Members -> Files]
      /\ files \in [Members -> Files] /\ c.bundle["libc"] \in Files
      /\ set \in [Members -> Files]
  BY <1>3, MembersAre DEF Bundled, ConfigType, PlannedSet
<1>5. "libc" \in members /\ c.bundle["libc"] \in Builds
  BY <1>4, MembersAre DEF Bundled, Files, Builds, Absent, Unreadable
<1>6. \A n \in members \ {"ld.so"} : files[n] = b
  BY <1>1, <1>4 DEF PlannedSet
<1>7. b \in Files /\ set["libc"] = b /\ set["ld.so"] = b BY <1>1, <1>5 DEF Files
<1>8. Consistent(set, members)
  <2>1. b # Unreadable BY DEF Builds, Unreadable
  <2>2. Defines("ld.so", b) = Defines("libc", b) /\ Defines("libc", b) \in 0 .. 3
    BY <1>7, DefinesTable, DefinesRange, MembersAre
  <2>3. VersionsAgree(set, members)
    <3>1. \A n \in members \ {"ld.so", "libc"} : Needs(n, "libc", set) <= Defines("libc", b)
      BY <1>1, <2>2 DEF Needs
    <3>2. Needs("libc", "ld.so", set) <= Defines("ld.so", b)
      BY <1>7, <2>2 DEF Needs
    <3> QED BY <1>7, <3>1, <3>2 DEF VersionsAgree
  <2>4. SymbolsAgree(set, members)
    BY <1>1, <1>7 DEF SymbolsAgree, Unsatisfied, Exports
  <2> QED BY <1>7, <2>1, <2>3, <2>4 DEF Consistent
<1>9. Release(c.bundle, members) \in 0 .. 3 /\ Release(files, members) \in 0 .. 3
  BY <1>4, ReleaseIsHighest
<1>10. Release(c.bundle, members) > 0
  <2>1. Defines("libc", c.bundle["libc"]) >= 1 /\ Defines("libc", c.bundle["libc"]) \in 0 .. 3
    BY <1>4, <1>5, DefinesRange, MembersAre
  <2>2. Defines("libc", c.bundle["libc"]) <= Release(c.bundle, members)
    BY <1>4, <1>5, ReleaseIsHighest
  <2> QED BY <1>9, <2>1, <2>2
<1>11. Defines(m, b) <= Release(files, members)
  <2>1. CASE m # "ld.so" BY <1>4, <1>6, <2>1, ReleaseIsHighest
  <2>2. CASE m = "ld.so"
    <3>1. Defines("libc", files["libc"]) <= Release(files, members)
      BY <1>4, <1>5, ReleaseIsHighest
    <3> QED BY <1>5, <1>6, <1>7, <2>2, <3>1, DefinesTable
  <2> QED BY <2>1, <2>2
<1>12. Release(c.bundle, members) < Defines(m, b)
  <2>1. Defines(m, b) \in 0 .. 3 BY <1>4, <1>7, DefinesRange
  <2>2. \A n \in members : Defines(n, c.bundle[n]) \in 0 .. 3 BY <1>4, DefinesRange
  <2>3. Defines(m, b) - 1 \in Nat BY <1>2, <2>1, <2>2
  <2>4. \A n \in members : Defines(n, c.bundle[n]) <= Defines(m, b) - 1
    BY <1>2, <2>1, <2>2
  <2>5. Release(c.bundle, members) <= Defines(m, b) - 1
    BY <1>4, <2>3, <2>4, ReleaseIsHighest
  <2> QED BY <1>9, <2>1, <2>5
<1>13. Defines(m, b) \in 0 .. 3 BY <1>4, <1>7, DefinesRange
<1>14. UseHost(c)
  <2>1. Plan(c).release > 0 /\ Plan(c).release > Release(c.bundle, members)
    BY <1>3, <1>9, <1>10, <1>11, <1>12, <1>13
  <2> QED BY <1>1, <1>3, <1>5, <1>8, <1>10, <2>1 DEF UseHost, Bundled
<1>15. ~Wanting(set, c)
  <2>1. Defines("libc", b) >= Defines("libc", c.bundle["libc"])
    <3>1. c.bundle["libc"] < b BY <1>1, <1>5
    <3> QED BY <1>4, <1>5, <1>7, <3>1, DefinesTable DEF Builds
  <2>2. Defines("libc", b) \in 0 .. 3 /\ Defines("libc", c.bundle["libc"]) \in 0 .. 3
    BY <1>4, <1>7, DefinesRange, MembersAre
  <2> QED BY <1>7, <2>1, <2>2 DEF Wanting
<1> QED BY <1>14, <1>15

\* "if the host's glibc is newer than the one we bundle and a complete matched set is
\* present": then that is what runs, unless something fails or is raced.
THEOREM NewerHostIsTaken == Spec => []NewerHostIsUsed
<1>1. ASSUME SelectInv PROVE NewerHostIsUsed
  <2> SUFFICES ASSUME NEW l \in Launchers \ raced, pc[l] = "bundled", faults = 0,
                      config[l].bundle["libc"] > 0, config[l].forced # "bundled",
                      ~config[l].probe, NEW b \in Builds, Matched(config[l], b)
               PROVE FALSE
    BY DEF NewerHostIsUsed
  <2>1. config[l] \in ConfigType /\ host \in [Dirs -> [Members -> Files]]
    BY <1>1 DEF SelectInv, TypeOK
  <2>2. UseHost(config[l]) /\ ~Wanting(PlannedSet(Plan(config[l])), config[l])
    BY <2>1, MatchedIsUsed
  <2>3. KeepsBundleOf(l) BY <1>1 DEF SelectInv, KeepsBundle
  <2> QED BY <2>2, <2>3 DEF KeepsBundleOf
<1> QED BY <1>1, SelectInvHolds, PTL
==============================================================================
