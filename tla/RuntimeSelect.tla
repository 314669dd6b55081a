----------------------------- MODULE RuntimeSelect -----------------------------
(***************************************************************************)
(* src/runtime-select.c: a launcher decides whether its application runs   *)
(* under the bundled glibc or the host's, links the host's set into a farm *)
(* that goes ahead of the bundle in the library path, tries it, and        *)
(* becomes the application, whose libraries ld.so opens one after another. *)
(* Launchers share the farm of their host's version.                       *)
(*                                                                         *)
(* A library is the number of the glibc build it comes from.  Builds       *)
(* differ in the versions a member defines (`defines`) and in the private  *)
(* symbols the members of one build have for each other.  "libdl" stands   *)
(* for the last five members of rs_runtime_set, which are treated alike.   *)
(* The host does not change.  ld.so is external: it takes the first file   *)
(* of its own class that the library path has under a name.                *)
(***************************************************************************)
EXTENDS Integers, Sequences, FiniteSetsExt, SequencesExt

CONSTANTS
  Launchers,
  Dirs,         \* host library directories
  Class,        \* ELF class of what each holds
  Hosts,        \* what may be installed: directory -> member -> build
  Configs,      \* how a launcher may be started; see ConfigType
  NoDir,
  MaxLaunches, MaxFaults   \* bounds

Absent == -1
Unreadable == 0   \* a file that rs_open declines, and ld.so too
Builds == 1 .. 3
Files == Builds \cup {Absent, Unreadable}
RuntimeSet == <<"ld.so", "libc", "libm", "libdl">>
Members == Range(RuntimeSet)
Forced == {"auto", "host", "bundled"}

ConfigType ==
  [bundle : [Members -> Files], search : Seq(Dirs), forced : Forced,
   probe : BOOLEAN, self_test : BOOLEAN]

ASSUME HostsAssumption == Hosts \subseteq [Dirs -> [Members -> Files]]
ASSUME ConfigsAssumption == Configs \subseteq ConfigType
ASSUME NoDirAssumption == NoDir \notin Dirs
ASSUME BoundsAssumption == MaxLaunches \in Nat /\ MaxFaults \in Nat

VARIABLES
  host,
  farm,      \* release -> member -> the directory its link leads to
  pc, config, plan,
  todo,      \* members still to be linked
  mapped,    \* the build of each library the process has open
  tested,    \* its self test was run, and passed
  raced,     \* another launcher changed its farm since it began
  broken,    \* releases whose farm lost a link to a launcher that stopped
  launches, faults

vars == <<host, farm, pc, config, plan, todo, mapped, tested, raced, broken,
          launches, faults>>

\* The highest version a member of a build defines: a release that adds no
\* symbol to libc leaves libc's at the one before.
Defines(m, b) ==
  IF b < 1 THEN 0
  ELSE CASE m \in {"ld.so", "libc"} -> <<1, 2, 2>>[b]
         [] m = "libm" -> <<1, 2, 3>>[b]
         [] m = "libdl" -> 1

\* Variant of Release: the members' versions are added up.
ReleaseSum(files, members) == MapThenSumSet(LAMBDA m : Defines(m, files[m]), members)

\* rs_set_release: over all the members that are there.
Release(files, members) == Max({0} \cup {Defines(m, files[m]) : m \in members})

Bundled(c) == {m \in Members : c.bundle[m] # Absent}

\* The directory of the search that has everything the bundle has, and ld.so
\* there or in the first directory that has one.
Complete(d, members) == \A m \in (members \cup {"libc"}) \ {"ld.so"} : host[d][m] # Absent
LdOf(d, c) ==
  LET has(e) == host[e]["ld.so"] # Absent
  IN  IF has(d) THEN d
      ELSE IF \E i \in DOMAIN c.search : has(c.search[i])
             THEN c.search[SelectInSeq(c.search, has)]
             ELSE NoDir
HostDir(c) ==
  LET fits(d) == Complete(d, Bundled(c)) /\ LdOf(d, c) # NoDir
      i == SelectInSeq(c.search, fits)
  IN  IF i = 0 THEN NoDir ELSE c.search[i]

\* The highest version a member asks of a peer: libdl asks for old ones only.
Needs(m, peer, set) ==
  IF <<m, peer>> \in {<<"libc", "ld.so">>, <<"libm", "libc">>}
    THEN Defines(peer, set[m]) ELSE 0

VersionsAgree(set, members) ==
  /\ Needs("libc", "ld.so", set) <= Defines("ld.so", set["ld.so"])
  /\ \A m \in members \ {"ld.so", "libc"} :
       Needs(m, "libc", set) <= Defines("libc", set["libc"])

\* Symbols: those of libc, ld.so and libm, among them the private ones of their build.
Exports(set) == {<<m, set[m]>> : m \in {"ld.so", "libc", "libm"}}

\* A member that can be read wants the private symbols of its own libc.
Unsatisfied(m, set) ==
  set[m] # Unreadable /\ <<"libc", set[m]>> \notin Exports(set)

\* Variant of SymbolsAgree: version names are all that is compared.
NoSymbolsCompared(set, members) == set["libc"] # Unreadable

\* libc, ld.so and libm themselves are not looked at.
SymbolsAgree(set, members) ==
  \A m \in members \ {"ld.so", "libc", "libm"} : ~Unsatisfied(m, set)

\* rs_set_consistent, of the host's files a plan would put in the farm.
Consistent(set, members) ==
  /\ set["ld.so"] # Unreadable /\ set["libc"] # Unreadable
  /\ VersionsAgree(set, members) /\ SymbolsAgree(set, members)

Plan(c) ==
  LET d == HostDir(c)
  IN  [dir |-> d, ld |-> IF d = NoDir THEN NoDir ELSE LdOf(d, c),
       members |-> Bundled(c),
       release |-> IF d = NoDir THEN 0 ELSE Release(host[d], Bundled(c))]

PlannedSet(p) ==
  [m \in Members |-> IF m = "ld.so" THEN host[p.ld][m] ELSE host[p.dir][m]]

\* Variant of UseHost: the release is read out of libc alone.
UseHostByLibc(c) ==
  LET p == Plan(c)
  IN  /\ c.forced # "bundled"
      /\ c.bundle["libc"] # Absent /\ Release(c.bundle, {"libc"}) > 0
      /\ p.dir # NoDir /\ Release(host[p.dir], {"libc"}) > 0
      /\ c.forced = "host" \/ Release(host[p.dir], {"libc"}) > Release(c.bundle, {"libc"})
      /\ Consistent(PlannedSet(p), p.members)

\* Variant of UseHost: the host's runtime is taken whenever it is whole.
UseHostAnyRelease(c) ==
  LET p == Plan(c)
  IN  /\ c.forced # "bundled"
      /\ c.bundle["libc"] # Absent /\ p.dir # NoDir
      /\ Consistent(PlannedSet(p), p.members)

\* rs_decide: the host's runtime, if it is newer, or asked for, and consistent.
UseHost(c) ==
  LET p == Plan(c)
  IN  /\ c.forced # "bundled"
      /\ c.bundle["libc"] # Absent /\ Release(c.bundle, p.members) > 0
      /\ p.dir # NoDir /\ p.release > 0
      /\ c.forced = "host" \/ p.release > Release(c.bundle, p.members)
      /\ Consistent(PlannedSet(p), p.members)

------------------------------------------------------------------------------
NoPlan == [dir |-> NoDir, ld |-> NoDir, members |-> {}, release |-> 0]
NoConfig == [bundle |-> [m \in Members |-> Absent], search |-> <<>>,
             forced |-> "bundled", probe |-> FALSE, self_test |-> FALSE]
Unmapped == [m \in Members |-> Absent]

Init ==
  /\ host \in Hosts
  /\ farm = [r \in Builds |-> [m \in Members |-> NoDir]]
  /\ pc = [l \in Launchers |-> "idle"]
  /\ config = [l \in Launchers |-> NoConfig]
  /\ plan = [l \in Launchers |-> NoPlan]
  /\ todo = [l \in Launchers |-> <<>>]
  /\ mapped = [l \in Launchers |-> Unmapped]
  /\ tested = [l \in Launchers |-> FALSE]
  /\ raced = {} /\ broken = {}
  /\ launches = 0 /\ faults = 0

Goto(l, where) == pc' = [pc EXCEPT ![l] = where]
Fault == faults < MaxFaults /\ faults' = faults + 1
release(l) == plan[l].release
links == <<host, farm, raced, broken>>

\* What the library path has under m: the farm, then the bundle.
Found(l, m) ==
  LET d == farm[release(l)][m]
  IN  IF d # NoDir /\ Class[d] = Class[plan[l].dir] /\ host[d][m] # Absent
        THEN host[d][m] ELSE config[l].bundle[m]

Decide(l, c) ==
  /\ pc[l] = "idle" /\ launches < MaxLaunches
  /\ launches' = launches + 1
  /\ config' = [config EXCEPT ![l] = c]
  /\ plan' = [plan EXCEPT ![l] = IF UseHost(c) THEN Plan(c) ELSE NoPlan]
  /\ Goto(l, IF UseHost(c) THEN "mkdir" ELSE "bundled")
  /\ UNCHANGED <<links, todo, mapped, tested, faults>>

\* What a farm links, in the order of rs_runtime_set; ld.so is named directly.
FarmOrder(members) ==
  LET only(m) == IF m \in members THEN <<m>> ELSE <<>>
  IN  only("libc") \o only("libm") \o only("libdl")

\* rs_build_farm.
MakeFarm(l) ==
  /\ pc[l] = "mkdir"
  /\ \/ Goto(l, "unlink") /\ UNCHANGED faults
     \/ Goto(l, "bundled") /\ Fault
  /\ todo' = [todo EXCEPT ![l] = FarmOrder(plan[l].members)]
  /\ UNCHANGED <<links, config, plan, mapped, tested, launches>>

SharesFarm(l) ==
  {k \in Launchers \ {l} :
     pc[k] \in {"unlink", "symlink", "self_test", "exec", "running"}
       /\ release(k) = release(l)}

Relink(l, d) ==
  /\ farm' = [farm EXCEPT ![release(l)][Head(todo[l])] = d]
  /\ raced' = raced \cup SharesFarm(l)

Unlink(l) ==
  /\ pc[l] = "unlink" /\ todo[l] # <<>>
  /\ Relink(l, NoDir)
  /\ Goto(l, "symlink")
  /\ UNCHANGED <<host, broken, config, plan, todo, mapped, tested, launches, faults>>

NextMember(l) == todo' = [todo EXCEPT ![l] = Tail(@)] /\ Goto(l, "unlink")

\* Variant of Symlink: a name that has come back meanwhile is unlinked once more.
SymlinkForced(l) ==
  /\ pc[l] = "symlink"
  /\ IF farm[release(l)][Head(todo[l])] = NoDir
       THEN Relink(l, plan[l].dir)
       ELSE Relink(l, NoDir)
  /\ NextMember(l)
  /\ UNCHANGED <<host, broken, config, plan, mapped, tested, launches, faults>>

\* symlink refuses a name that another launcher has linked meanwhile: so be it.
Symlink(l) ==
  /\ pc[l] = "symlink"
  /\ IF farm[release(l)][Head(todo[l])] = NoDir
       THEN Relink(l, plan[l].dir)
       ELSE UNCHANGED <<farm, raced>>
  /\ NextMember(l)
  /\ UNCHANGED <<host, broken, config, plan, mapped, tested, launches, faults>>

\* Or it fails, and the launcher keeps the bundle; or the launcher is killed.
SymlinkStops(l) ==
  /\ pc[l] = "symlink"
  /\ Fault
  /\ broken' = broken \cup {release(l)}
  /\ Goto(l, "bundled")
  /\ UNCHANGED <<host, farm, raced, config, plan, todo, mapped, tested, launches>>

\* rs_library_path has room for its string, or not.
FarmBuilt(l) ==
  /\ pc[l] = "unlink" /\ todo[l] = <<>>
  /\ \/ Goto(l, "self_test") /\ UNCHANGED faults
     \/ Goto(l, "bundled") /\ Fault
  /\ UNCHANGED <<links, config, plan, todo, mapped, tested, launches>>

\* The launcher itself under the candidate: it needs ld.so and libc, and a libc that
\* has the versions of the one it was built with.
ProbeRuns(l) == Found(l, "libc") = host[plan[l].ld]["ld.so"]
ProbeServed(l) ==
  Defines("libc", Found(l, "libc")) >= Defines("libc", config[l].bundle["libc"])

\* rs_self_test: not run, or run and passed, or run and failed.
SelfTest(l) ==
  /\ pc[l] = "self_test"
  /\ \/ /\ config[l].self_test /\ ProbeRuns(l)
        /\ tested' = [tested EXCEPT ![l] = TRUE]
        /\ Goto(l, "exec") /\ UNCHANGED faults
     \/ /\ config[l].self_test /\ ~(ProbeRuns(l) /\ ProbeServed(l))
        /\ Goto(l, "bundled") /\ UNCHANGED <<tested, faults>>
     \/ /\ ~config[l].self_test
        /\ Goto(l, "exec") /\ UNCHANGED <<tested, faults>>
     \/ /\ config[l].self_test /\ Fault   \* no fork, or no path of its own
        /\ Goto(l, "exec") /\ UNCHANGED tested
  /\ UNCHANGED <<links, config, plan, todo, mapped, launches>>

\* A probe prints its plan; else the host's ld.so replaces the launcher.
Exec(l) ==
  /\ pc[l] = "exec"
  /\ IF config[l].probe
       THEN Goto(l, "bundled") /\ UNCHANGED mapped
       ELSE /\ Goto(l, "running")
            /\ mapped' = [mapped EXCEPT ![l]["ld.so"] = host[plan[l].ld]["ld.so"]]
  /\ UNCHANGED <<links, config, plan, todo, tested, launches, faults>>

\* ld.so opens a member, at start or for a dlopen later.
Map(l, m) ==
  /\ pc[l] = "running" /\ m \in plan[l].members /\ mapped[l][m] = Absent
  /\ Found(l, m) # Unreadable
  /\ mapped' = [mapped EXCEPT ![l][m] = Found(l, m)]
  /\ UNCHANGED <<links, pc, config, plan, todo, tested, launches, faults>>

\* The process ends, and the slot may launch again.
Exit(l) ==
  /\ pc[l] \in {"running", "bundled"}
  /\ Goto(l, "idle")
  /\ config' = [config EXCEPT ![l] = NoConfig]
  /\ plan' = [plan EXCEPT ![l] = NoPlan]
  /\ todo' = [todo EXCEPT ![l] = <<>>]
  /\ mapped' = [mapped EXCEPT ![l] = Unmapped]
  /\ tested' = [tested EXCEPT ![l] = FALSE]
  /\ raced' = raced \ {l}
  /\ UNCHANGED <<host, farm, broken, launches, faults>>

Next ==
  \E l \in Launchers :
    \/ \E c \in Configs : Decide(l, c)
    \/ MakeFarm(l) \/ Unlink(l) \/ Symlink(l) \/ SymlinkStops(l) \/ FarmBuilt(l)
    \/ SelfTest(l) \/ Exec(l) \/ Exit(l)
    \/ \E m \in Members : Map(l, m)

Spec == Init /\ [][Next]_vars

------------------------------------------------------------------------------
TypeOK ==
  /\ host \in [Dirs -> [Members -> Files]]
  /\ farm \in [Builds -> [Members -> Dirs \cup {NoDir}]]
  /\ pc \in [Launchers -> {"idle", "mkdir", "unlink", "symlink", "self_test", "exec",
                           "running", "bundled"}]
  /\ config \in [Launchers -> ConfigType]
  /\ plan \in [Launchers -> [dir : Dirs \cup {NoDir}, ld : Dirs \cup {NoDir},
                              members : SUBSET Members, release : {0} \cup Builds]]
  /\ todo \in [Launchers -> Seq(Members)]
  /\ mapped \in [Launchers -> [Members -> Files]]
  /\ tested \in [Launchers -> BOOLEAN]
  /\ raced \subseteq Launchers /\ broken \subseteq Builds
  /\ launches \in 0 .. MaxLaunches /\ faults \in 0 .. MaxFaults

Open(l) == {m \in Members : mapped[l][m] # Absent}

\* "a MIXED runtime set segfaults instantly. So the set is verified whole": a
\* process never has members of two builds.
NeverMixed == \A l \in Launchers : \A m, n \in Open(l) : mapped[l][m] = mapped[l][n]

\* What the verification does give, libm aside, which it does not look at: a process
\* has members of two builds only if another launcher changed its farm, and an
\* ld.so of another build only if the self test was left out.
MixedOnlyByRace ==
  \A l \in Launchers \ raced :
    \A m, n \in Open(l) \ ({"libm"} \cup (IF tested[l] THEN {} ELSE {"ld.so"})) :
      mapped[l][m] = mapped[l][n]

\* "old host libraries cannot require newer symbols, so there is nothing to bridge":
\* unless it is told to, a launcher never exchanges a library for an older one.
NeverOlder ==
  \A l \in Launchers \ raced :
    config[l].forced = "auto" /\ tested[l] =>
      \A m \in Open(l) \ {"libm"} : mapped[l][m] >= config[l].bundle[m]

\* "if the host's glibc is newer than the one we bundle and a complete matched set
\* is present": then the host's is run, unless something fails on the way.
Matched(c, b) ==
  LET d == HostDir(c)
  IN  /\ d # NoDir
      /\ \A m \in Bundled(c) \cup {"ld.so"} : PlannedSet(Plan(c))[m] = b /\ c.bundle[m] < b
      /\ \E m \in Bundled(c) : \A n \in Bundled(c) :
           Defines(m, b) > Defines(n, c.bundle[n])
NewerHostIsUsed ==
  \A l \in Launchers \ raced :
    pc[l] = "bundled" /\ faults = 0 /\ config[l].bundle["libc"] > 0 =>
      config[l].forced = "bundled" \/ config[l].probe
        \/ ~\E b \in Builds : Matched(config[l], b)

\* However many launchers relink one farm at a time, each of its members is there
\* once none of them is between its unlink and its symlink.
FarmHeals ==
  \A l \in Launchers :
    /\ pc[l] \in {"self_test", "exec", "running"}
    /\ release(l) \notin broken
    /\ \A k \in Launchers : pc[k] = "symlink" => release(k) # release(l)
    => \A m \in plan[l].members \ {"ld.so"} : farm[release(l)][m] # NoDir
==============================================================================
