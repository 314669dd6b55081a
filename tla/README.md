# A verification project for dlopen-experiment

The repository (see `src/README.md`, `src/REPORT.md`) holds preload libraries
that let a bundled application with its own glibc use the host's graphics
drivers, whatever libc the host is built on.  This directory holds TLA+ models of
the parts of them whose order of events matters, the configurations that check
the models with TLC, and proofs that TLAPS checks.

Paths below are relative to the directory above; line numbers are those of
`PROJECT.json`, whose `map` gives the source lines of every definition.

## 1. The system

| component | state it keeps | operations | what must hold |
|---|---|---|---|
| handle cache and first scan (`foreign-dlopen.c` 471-524, 1170-1195) | `fgn_cache[128]`, `fgn_cache_lock`, `fgn_providers_scanned`, the provider versions of our libc | get, put, scan, each under one test-and-set lock | a recorded path keeps its handle; nobody sees half an entry; our libc is scanned once and before anything is decided from it; the lock is always given back |
| foreign open of one library (1061-1168, 1705-1770; sweep 98-135) | a runtime directory shared by processes; per process the cache, ld.so's list of objects | emit a private copy (unlink, nameless file and link, or template and rename), load it, fall back, record; sweep day-old files at start | no half-written image under a name; one handle per driver and process; nothing accumulates |
| closure walk (`fgn_load` 1470-1770, `fgn_harvest`, `fgn_find_candidate`) | `fgn_active_stack` and its depth, per thread; the objects ld.so has | walk DT_NEEDED: core, bundled, probe, harvest, hunt; then keep, rewrite, fall back, or report | bundled beats host where the bundle's file loads; one object per library; no second libc; the walk ends; a closure that can load does |
| version requirement tables (527-720) | the provider table of 16 files and its lock | first answer for a provider is kept | agrees with ld.so; bounded; its lock never meets ld.so's in the wrong order |
| ELF reading (178-470, 732-807) | none | count a file's symbols, walk its version definitions, tell a name's default version | no symbol left out, nothing read past a table; a file that cannot be read is declined |
| rewrite of the image (722-1060) | none | clear version tags, drop DT_NEEDED, rename undefined symbols in place | no other name that shares the string table's bytes changes |
| unresolved-symbol report, global-scope preload (1290-1470, 1772-1813) | none of their own | print; open a fixed list | |
| GL lazy binding (`gl-fwd.c` 640-946) | `glfwd_load_state`, `glfwd_tab`, `glfwd_addr`, counters, `glfwd_in_load` per thread | resolve a name, load the host stack once, fill the addresses in one pass, patch the slot; an eager constructor | one loader; every answer is the host's; a slot is written once; counters count names; waits end |
| GL host search (`gl-fwd.c` 404-638) | none | search the host's directories for a vendor library and for the name itself; open the bundle's or the host's object | the shim forwards to the object its rules call best, whatever the two walks find or drop |
| GL trampolines (`gl-fwd-*.h`) | none | generated code | |
| runtime selection (`runtime-select.c`) | a symlink farm per host version, shared by processes | find a host directory with the whole set, rank it, check it for consistency, link it into the farm, test it, become the application | no process has members of two glibc builds; no library is exchanged for an older one; a newer whole host set is used; the farm is whole when nobody is relinking it |
| loader configuration (`ld-conf.h`) | a budget per walk | read a file, follow its includes | the directories come in the order of the files; whether what it drops is said |
| version compatibility (`version-compat.c`) | a slot per name, a busy guard per thread | resolve a versioned symbol on first use | the default version, or no worse than without the forwarder; re-entry ends |
| forward shim (`forward-shim.c`) | none | generated one-line bodies | |
| build, generators, inventories, experiments, tests | none at run time | | |

How they meet.  A `dlopen` of the program enters `fgn_attempt`, which scans our
libc's versions (once), asks the handle cache, and calls `fgn_load`; `fgn_load`
recurses over the closure, asks the provider table, writes copies into the
runtime directory and calls the real `dlopen`, which runs constructors that may
enter all of this again with ld.so's lock held.  The GL shim is another client:
it searches the host's directories by the loader's configuration, `dlopen`s the
host's GL stack through the same interception, and the stack's constructors call
back into the shim.  The version forwarders read libc's tables through the foreign loader's
ELF reader.  Processes meet only in the
runtime directory and the symlink farm.

What is hard to test there: which of two threads is between two steps (cache,
lazy binding), what another process does to a file between its creation and its
opening, a kill between two writes, constructors that re-enter, locks of ours
held while ld.so's is taken, the order in which a closure happens to be reached,
a resolver that is entered from its own reading, strings that share their
bytes, and tables at their limit.  `PROJECT.json` lists each at its line under
`hazards`, with the property that covers it; those that have none say why.

## 2. Modules

| module | what it is | state and actions against the code |
|---|---|---|
| `HandleMap` | abstract: an atomic map that keeps its first answer | – |
| `FgnCache` | the locked table | `fgn_cache_lock`, `fgn_cache`, `fgn_providers_scanned` under their own names; `pc[t]` is the place in `fgn_scan_providers`, `fgn_cache_get`, `fgn_load`, `fgn_cache_put`; every loop turn and each of an entry's two stores is a step; `chain` is the thread's recursion through `fgn_load` |
| `FgnCacheProofs` | its invariants; that it implements `HandleMap` | – |
| `FgnElf` | what is read out of an ELF file | no state; a file is a record of what its bytes say, `DynsymCount`, `Verdefs`, `VerdefName`, `DefaultVersion` are the functions of those names |
| `FgnImage` | the rewrite of one image; EXTENDS `FgnElf` | `image` is the buffer; `Parse`, `Strip` and one `Rename` per symbol and rule, as the two loops of `fgn_apply_renames`; `RangeOccupied` is the test before a write in place |
| `FgnReentry` | opens that constructors start inside other opens, on several threads | `calls[t]` is the nest of `fgn_load`s and of `dlopen`s inside ld.so; the two spin locks, the provider table and `fgn_active_stack` under their own names; `fgn_provider_for` is `LockProviders`, `Search`, `Add`, `Ask`; the table keeps 127 bytes of a name (624), and the model's files differ in those |
| `FgnReentryProofs` | the provider table is sound; a walk reads its own chain | – |
| `ForeignOpen` | one library, opened by threads of processes that share the directory | one action per system call of `fgn_emit_copy`, one per `dlopen_orig` of `fgn_load`, the sweep's stat and unlink as two; `Exit` is a kill or an exit anywhere |
| `ForeignOpenProofs` | no copy is ever half written; one opener has one handle and writes once; only faults leave templates | – |
| `FgnWalk` | `fgn_load` over a closure, one thread | one action per early return of `fgn_load` (`TooDeep`, `Cached`, `AlreadyOpen`, `OpenCore`, `Cycle`, `OpenOpaque`), one per way a dependency is handled (`SkipCore`, `TakeBundled`, `Probe`, `Harvest`, `Hunt`, `NotFound`), one per way a frame ends (`Keep`, `Rewrite`, `DryRun`); `stack` is `fgn_active_stack` with each frame's loop counter |
| `FgnWalkProofs` | the bundle wins; answers kept are true; no library twice; one refusal is overcome; musl's libc stays out of hosts that do not mix libraries with its edge and without | – |
| `GlBinding` | abstract: each name is bound once, to what the host has | – |
| `GlFwd` | the lazy binding | the code's statics under their own names; one action per atomic access, per turn of the fill and store loops, and per entry to and return from the load's `dlopen` |
| `GlFwdProofs` | its invariants; its counters; that it implements `GlBinding` | – |
| `LdConf` | the walk over the loader's configuration | `frames` is the recursion through `ldconf_walk_file`; `EnterFile`, `ReadLine`, `EnterName`, `LeaveFile`; the budget and the bounds under their own names.  What a line drops is part of it: an include's `fault`, the names that make too long a path (`cut`), long names, files that cannot be opened, and whether a directory is absolute |
| `GlSearch` | which object the GL shim forwards to; EXTENDS `LdConf` | one action per part of `glfwd_each_dir` (`EnvDir`, `ConfDir`, `FixedDir`) in each of the two passes, one per `dlopen` of `glfwd_open_target` |
| `GlSearchProofs` | the walk's order; the target is the best there is | – |
| `VersionCompat` | the version forwarders, on several threads; EXTENDS `FgnElf` | `slot`, `busy` as in the code; `calls[t]` is the nest of resolutions; `Resolve`, `ReadCalls`, `ReadVersion`, `Lookup`, `Store` are the places of `vc_resolve` and of the slot macro |
| `FgnElfProofs` | the symbol count; which names a rewrite leaves alone; the forwarders' slots, what one may do worse, re-entry | – |
| `RuntimeSelect` | launchers of one host | a library is the number of its build; `host` and `farm` are the directories; `Defines`, `Release`, `HostDir`, `Needs`, `Unsatisfied`, `Consistent`, `UseHost` are the functions of `rs_decide`; `pc[l]` is the place in `main`, with the farm's `unlink` and `symlink` as two steps per member; `mapped` is what the process's ld.so has opened since the `exec` |
| `RuntimeSelectProofs` | the farm; what a process is made of; old and new | – |
| `MC...` | instances for TLC; they list the hosts, files, images and libcs that are checked | – |

The modules of `foreign-dlopen.c` meet as follows.  `FgnCache` takes what a load returns
as any handle; `ForeignOpen` and `FgnWalk` take the cache's get and put as atomic, which
`CacheImplementsMap` justifies; `FgnWalk` takes the writing of a copy as one step that
succeeds, which `ForeignOpen` takes apart, and its content as "rewritten", which
`FgnImage` takes apart.  `FgnReentry` leaves what a load decides open, dry runs
included, and keeps when it takes which lock and what it reads and writes; `FgnWalk` has
the decisions.  `GlFwd` takes the outcome of `GlSearch` as an input.  `FgnImage` and
`VersionCompat` share `FgnElf`: in the code `fgn_parse_elf` and `fgn_walk_verdefs` serve
the rewrite, the provider table and the forwarders; the search through DT_VERSYM for a
name's default version is `fgn_default_version_of`'s own (752-807) and only the forwarders'.
`RuntimeSelect` stands alone: what it decides is the libc of the process in which
the others run.  Operators named "Variant of X" are faulty forms of X, which no
specification uses: each property is known to fail when X is replaced by one.

External parts are modelled from how the code uses them:

- ld.so.  In `ForeignOpen` and `GlFwd` a `dlopen` holds ld.so's recursive lock; in
  `FgnReentry` it also runs constructors with the lock held, which may open any
  library, and a question about a symbol or a loaded object takes the lock too.  In
  `VersionCompat` `dlvsym` finds a definition by name and version, hidden or not, and
  an unversioned reference finds the base or oldest definition; so does `dlsym`, but
  for a newer libc's, which finds the default one.  In `FgnWalk` it resolves a soname
  to the first object that was loaded under it, else to the bundle's file if `dlopen`
  takes that, else to what its search finds; which bundled files load is settled for
  good, and those that do need nothing from the host; it loads a closure whole or not
  at all; checks a required version against the object that answers to the name, and
  takes an object without version definitions for satisfied; names in its error the
  first object, breadth first, whose version is missing.  In `RuntimeSelect` it takes
  the first file of its own class on the library path, one library at a time, at start
  or for a later `dlopen`; a program runs under an ld.so only with the libc of the
  same build.
- the file system.  `unlink`, `linkat`, `rename` and a whole `write` are atomic; a
  write may stop in the middle, a creation may fail, a process may end between
  any two calls.

## 3. Runs

Passing runs:

| run | instance | what it shows |
|---|---|---|
| `cache_table` | 2 threads, 2 paths, 2 handles, a table of 2, recursion 2, 2 opens each; 80 k states | `TypeOK`; `ScannedOnce` and `VersionsBeforeLoad` (the flag is set before the scan is done, the lock makes that harmless); `NoTornEntry`; `AnswersNeverChange` (a full table and double records included); `ImplementsHandleMap`; `EveryOpenReturns` (no path keeps the lock) |
| `open_processes` | 2 processes of one thread with different NOSTRIP settings, 2 drivers of which one loads only rewritten, 3 opens, 1 fault, 1 day; 3.75 M states | `WholeImages`: no kill, short write or race ever leaves a half image under a name; `OneHandle` and `EmittedOnce` for a process with one opening thread, other processes notwithstanding; `LeftoversAreFaults` |
| `walk_worlds` | every host of three libraries and a core one in `MCFgnWalk`: glibc hosts, musl hosts, hosts that mix libraries with musl's edge and without, bundled files that do not load, musl hosts that lack a library, dry runs; 2 opens; 177 k states | `BundledWins`, `OneOfEach`, `KeptObjectsLoad`, `MuslStaysOut`, `OneRefusalOpens`, `EveryOpenReturns` |
| `reentry` | 2 threads, 2 files of which one is the bundle's, a table of 1, depth 2, 2 opens each that may nest, 1 dependency; 523 k states | `OneEntryPerFile`: the provider table never overfills; `StackIsOwn`: a walk reads its own chain; `OpensReturn`: every open comes back unless two threads have crossed ld.so's lock with one of ours |
| `image` | every string table of six bytes over two letters and the terminator, two symbols, a library's name and a version's name anywhere in it; every hash table of up to five symbols beside the null one in two chains, the empty ones of bfd and of lld, a symbol table that runs out of the file; 809 k states | `OtherNamesKept`: a rewrite changes the names in its table and no other; `SymbolsAllSeen`: the loops reach every symbol |
| `version_compat` | 2 threads, 2 names of which one is called by the reading, 2 calls each; libcs that define a name at two, one or no versions, in either order, with tables damaged in four ways; 591 k states | `SlotsAreDefault`, `NeverWorse`, `OneLevel` |
| `gl_binding` | 2 threads, 2 names, 2 calls each, eager or not, plugins, load failures; 534 k states | `OneLoader`, `AnswersAreTheHosts`, `CountsAreNames`, `SlotsSettle`, `ImplementsBinding`, `WaitEndsButForPlugins` |
| `gl_search` | 3 directories with absent, broken or good files, include depth 2, a budget of 4 files, 2 names of a directory, thirteen shapes of configuration, five of them with includes, files or lines that the walk drops; 651 k states | `DirsInFileOrder`: the callback sees the directories in the order of the files, less what the walk passes over in silence, which is all that is written in them where everything can be followed, or the walk has warned; `TargetIsBest`: bundle, host, bundle again or nothing, as the rules say |
| `select_launchers` | 2 launchers, 2 launches, 1 fault, 63 hosts with two 64-bit directories and a 32-bit one, five ways to start; 1.3 M states | `MixedOnlyByRace`: a process that no other launcher disturbs has one build's libraries, libm and an untested ld.so aside; `NeverOlder`; `NewerHostIsUsed` (a libc that lags behind its release included); `FarmHeals`: the farm is whole once nobody is between an unlink and its symlink |

Runs that end in a counterexample; each checks one sentence the repository says
of the program (quoted in `findings`):

| run | the sentence | what happens |
|---|---|---|
| `two_handles` | "the cache hands the same handle out to everyone" | two threads open one driver for the first time; one's `unlink(final)` takes the other's copy away between its `linkat` and its `dlopen`; that one falls back to the driver itself, so the process has both |
| `gl_plugin` | the waited-for load "is inside a dlopen, which finishes" | the waiting thread is in a constructor, under the lock that the load needs |
| `farm_race` | "a MIXED runtime set segfaults instantly. So the set is verified whole" | on a sound host, one launcher is between a member's `unlink` and its `symlink` while another's ld.so looks for that member and takes the bundle's, beside the host's ld.so |

What the passing properties except is as much a result as what they state.  Each
exception below is a behaviour of the code that the model shows; without it the
property fails.

- `OpensReturn` excepts `Crossed`: the first scan asks ld.so with the cache lock held
  (517), the provider table does with its own (634), and a constructor that opens a
  host library takes them in the other order.  Two threads then wait for ever.  It
  happens with these two locks and no other: nobody waits for a get or a put.
- `StackIsOwn` excepts threads in `nested`: a constructor that opens a host library in
  the middle of a walk starts at level 0 of the same stack (1515) and leaves paths
  there that it frees.
- `SlotsAreDefault` excepts names in `nested`: a name first resolved from inside another
  resolution gets the unversioned answer, and its slot keeps it.  `NeverWorse` bounds
  what that answer can be.
- `OtherNamesKept` excepts `RunsIntoOverwritten`: the test before a write in place asks
  whether anything begins inside the string, not whether something that begins at
  or before it runs into it.  The one rule of the shipped table moves `st_name` and
  never comes to that.  It speaks of names that end inside their table.
- `SymbolsAllSeen` excepts tables that hash no symbol and have no DT_HASH: `last` starts
  at `symoffset` (246), the `else` at 265-267 is never reached, and the bytes after the
  buckets are followed as a chain.
- `BundledWins` speaks of bundled files that load: where `dlopen` refuses one, the walk goes
  on to probe and hunt for the host's (1587-1598).  It excepts a file of the host that the
  program opens by its own path, which `fgn_attempt` never compares with the bundle; the
  bundle's library of that name may then be loaded beside it.  `OneOfEach` excepts the same
  pair, and is stated for hosts whose dependencies make no cycle and no chain beyond
  `MaxDepth`.
- `MuslStaysOut` is stated for hosts that are orderly and unmixed.  Not orderly: where the
  rewritten copy does not load, the fallback (1721) opens the file as it is, whose edge to
  musl's libc is still there.  Not unmixed: `musl_guest` is of the library being walked
  (1533-1547), so one without the edge has its dependencies probed as they are (1599), and
  one that has the edge then brings musl's libc in, against "a second libc may never enter
  the process" (1455).  Without `Unmixed` TLC finds it among the `MixedWorlds`.  A musl host
  with a library under a glibc core name is mixed too: the walk takes that name for the
  process's own libc (1564) and leaves it to ld.so's search.
- `DirsInFileOrder` counts only what the walk does not pass over in silence (`Given`): an
  include beyond the depth limit (`ld-conf.h` 81-82), a file that cannot be opened (93), an
  include without a slash (121), one whose directory cannot be opened, a relative one
  included (140), a name that makes too long a path with it (176), a directory that is not
  absolute (181).  A directory too long for its buffer (124) is one more such fault in the
  model, but the line has been read into a buffer of the same size, so no line has it.
  "Never drop anything silently" (`ld-conf.h` 64) is not true of these.  It is true of files
  that hold none of them (`Followable`), down to the depth limit, which is the property's
  last part: names, suffixes and numbers of files beyond their bounds are all warned of.
- `TargetIsBest`: the host's directories are those same `Given` ones, so a vendor in a
  directory that was lost in silence is not found, and the host does not change while the
  shim decides.  The first file of the name decides for the host, readable or not; one
  that does not load hides a later one that would.
- `OneRefusalOpens` is about one refusal: where a dependency needs two libraries that
  both want a version ours lacks, the error names one, the walk rewrites it and goes
  on, and the other is left to a load that fails.  Core libraries have to be the
  process's own: the walk does not look below them, so nothing would rewrite a library
  that only one of them needs.
- `MixedOnlyByRace` leaves libm out: no symbol check looks at it (683), and the self test
  does not load it.
- `OneHandle` is for a handle cache with room: once it is full, a library may be loaded
  again under another handle.

Bounds.  Two threads suffice for each race: every interleaving property relates a writer
and a reader or two writers of one location, and the proofs show that no third thread,
process or launcher changes what they are about.  A table of two entries is the least in
which an entry is not the first, a duplicate is not the last, and the table is full; the
provider table has one, which the second file overfills, and its proof is for any size.
`MaxOpens` = 2 or 3 lets an open meet what an earlier one left.  Three libraries are the
least with a dependency reached along two paths, a cycle of length three and a refusal
two edges away; `MaxDepth` = 3 in `FgnWalk` is reached by the chain a, b, c and exceeded
where a harvest enters a fourth frame; depth 2 in `FgnReentry` is the least with a walk
inside a walk, and its refusal at a third.  Six bytes hold two strings that share a
tail, one that contains another, and one that begins before another and runs into it.
Three builds are the least of which one adds no version to its libc and one is older
than a bundle that is not the oldest; the five small members of the runtime set are
treated alike by the code and are one member here.  Two launches are one that relinks a
farm and one that lives through it.  An include depth of 2, a budget of 4 and 2 names
are each exceeded by one of the configurations.  `MaxFaults`, `MaxDays`, `MaxLaunches`
and `MaxCalls` bound the environment.

`CHECK_DEADLOCK FALSE` is set everywhere because each bounded program comes to its
end: when every open, call or fault is used up nothing is left to do.  A thread
that is stuck is found by the liveness properties instead.

Fairness.  `FgnCache`, `GlFwd` and `FgnReentry` assume weak fairness of each thread's
steps inside a call: the scheduler runs every runnable thread, every wait of the
code calls `sched_yield`, ld.so's lock is a mutex, and constructors end.  A
test-and-set lock is not fair, but a thread makes finitely many opens, so the lock is
in the end free for whoever still wants it, and weak fairness is all that is needed.
Starting an open, a call or a plugin is never fair.  `FgnWalk` assumes that `fgn_load`
goes on until it returns.  The other modules state no liveness and assume no fairness.

## 4. Proofs

No model is about a number of threads, a table's size or a host: the theorems hold for
every value of the constants that their assumptions allow, and `PROJECT.json` lists
them under `theorems`.  The assumptions say what the constants are; none of them says
what the code has to achieve.

`FgnCacheProofs`, for any sets of threads, paths and handles, any recursion depth
and any table of at least one entry (`CacheMaxAssumption`; `NoKeyAssumption` and
`NoHandleAssumption` say that the empty values are none of the others):

- `TypeCorrect`, `LockExcludes`, `ScanHappensOnce`, `ScanBeforeLoad`,
  `AnswersAreStable`, `LookupsAreWhole`, `CacheImplementsMap`.

The lock excludes (`LockExcludes`, a theorem no run repeats) because it is 1 exactly
while some thread is between lock and unlock (`LockInv`).  The table's properties need
that entries fill from the front, that an entry without a handle belongs to the
one thread that is about to write it (`TableInv`), that a thread in either loop has
passed only entries that are not its own (`LookupInv`), and that what a lookup has
found is the table's answer (`RecordedInv`).  Each is preserved given the ones
before it, action by action.  In `CacheImplementsMap` the lookup takes effect at the
loop's last turn, the record at the store of the handle (or at the loop's last turn
when the table is full), and every other step maps to a stutter or to the abstract
step of the same name.

`GlFwdProofs`, for any threads and any `Count` of names (`CountAssumption`,
`MaxCallsAssumption`, `NoneAssumption`; a finite number of threads,
`ThreadsAssumption`, for the counting):

- `TypeCorrect`, `OneThreadLoads`, `AnswersAreRight`, `SlotsAreWrittenOnce`,
  `NamesAreCountedOnce`, `ShimImplementsBinding`.

The inductive invariant is `TypeInv`, `OneLoader` (only its thread touches the
address table), `PassInv` (what the pass has reached is the host's answer; all of it
is once the state is 2; nobody is past the wait before that) and `SlotInv` (a slot
off the resolver holds the host's answer).  The eager constructor's plain stores
are harmless because every value they may overwrite is the one they write.  For the
counters, a step that binds a name puts exactly one thread among those that are about
to count, and counting moves it from there to the counter.

`ForeignOpenProofs`, for any processes, threads, objects, kills and failed writes
(`NoImageAssumption`, `NoHandleAssumption`, `RefusedAssumption` and the bounds' types):

- `CopiesAreWhole`, `OnlyFaultsLeave`; and for one opening thread per process
  (`OneOpener`), finitely many objects and a cache with room for them,
  `SingleOpenerHasOneHandle` and `SingleOpenerEmitsOnce`.

That the names hold whole images is not inductive: a thread between its write and its
`linkat` or `rename` is about to name what it has in hand.  `WholeInv` adds that this
image is whole (`ReadyIsWhole`) and is some object's (`Busy`).  `LeftInv` counts what a
kill or a failed write can leave against the faults used.  One handle per object needs
`HandleInv`: an object that the cache does not have has no caller (`Unrecorded`), what a
thread has in hand is the one handle there is (`InHand`), whatever has been given out,
the driver itself included, is recorded (`GivenIsRecorded`, `PlainIsRecorded`), and the
cache's counter counts its objects (`UsedCounts`), so that it has room for the next.
Other processes' steps change nothing it speaks of.

`FgnWalkProofs`, for any sonames, hosts, depth and number of opens
(`SonamesAssumption`, which wants them finite, `NoneAssumption`, `WorldsAssumption`:
hosts of `WorldType`, where ld.so's search reaches nothing that is not installed, and
`LimitsAssumption`):

- `WalkTypes`, `BundleBeatsHost`, `SatisfiedIsNotRefused`, `NoLibraryTwice`,
  `OneRefusalIsOvercome`, `MuslNeverEnters`.

`WalkInv` is the types; where an object may come from (`WellPlaced`): the bundle's are of
names that the bundle can serve, one from the host under such a name is there only if the
program opened it, and who has a name is in the process (`FirstIs`); that the walk is
inside libraries of that kind only (`HostsAreWalked`); and that what the provider table
says of a bundled library is so (`ProvidedIsTrue`).  ld.so's own closure of a load is a
fixed point; what holds along it is proved level by level (`ClosureWithin`).  `OneOfEach`
speaks of hosts whose dependencies make no cycle and no chain beyond `MaxDepth`.  Its
invariant (`LayeredOnce`, for each layering of the host's libraries) is that the frames
descend (`Descends`), that the library of a frame is not in the process, the bundle's
object of its name aside, and not recorded until the frame ends (`FramesAreFresh`), because
everything loaded in between lies below it, and that whoever has a rewritten copy has its
handle recorded (`CopyIsRecorded`).

The last two follow many loads of one closure, and share their shape.  For each
dependency that a frame has passed, the library that stands for it is done with or
is what the frame is waiting for (`Settled`): the call, or the library of the frame
inside it.  What has a handle on record is in the process (`Recorded`), and frames that
descend never meet a cycle or the depth limit (`NeverTooDeep`), so what is waited for
does come.  For `OneRefusalIsOvercome` a dependency stands for itself, or the one
library that is refused stands for it: once that one is in, nothing is refused any more,
and while it is not, everything that the frame needs is there, so that its own library
is the only one ld.so could still refuse (`OnlyItselfRefused`), which is then rewritten.
For `MuslNeverEnters` a dependency is done with (`Fared`) when it is in the process, core,
or not to be had: the host and the bundle do not have all that it needs (`Whole`,
`Loadable`), and whatever ld.so does load is whole (`LoadsWhole`).  On an unmixed host a
probe that succeeds brings nothing that names musl's libc (`ClosureIsClean`), since ld.so
refuses none of the libraries without that edge (`NoneRefused`), and when a walk is done the
frame's copy loads if its library can be loaded by any means, with nothing beside it
(`AllThereLoads`, `FrameLoads`), so that the fallback to the file as it is never loads.
That a closure which loads is whole needs it to be closed (`ClosureIsClosed`): ld.so's
closure follows as many edges as there are names, the root counted apart, so one of the
steps adds nothing (`ReachStops`), and then none does.

`FgnReentryProofs`, for any threads, files, table size, depth and nest of opens
(`FilesAssumption`: no file is the empty entry; `LimitsAssumption`): `TableIsSound`,
`OneThreadInTable`, `StackIsTheChain`.  The spin lock has no owner, so `LockCovers` says
whose it is: the thread whose innermost load is inside `fgn_provider_for`.
`BuriedOutside` says that a load which has opened something in between is not inside it;
without that a constructor could come back to a search that others have made stale.
`RoomForNew` says that who is about to add has found the table with room and without the
file.  The invariant behind `StackIsTheChain` (`StackInv`) is about a thread's calls as a
whole: each load of a thread that has not nested is inside the walk of the one before
and one level deeper (`InChain`), and each that has entered the stack is still what its
own level holds (`Sound`).  A return needs this of every level below the one it leaves.

`RuntimeSelectProofs`, for any launchers, directories, hosts and ways to start
(`HostsAssumption`, `ConfigsAssumption`, `NoDirAssumption`, `BoundsAssumption`), over the
three builds of glibc that the model describes:

- `SelectTypes`, `FarmsHeal`, `OnlyRacesMix`, `HostIsNeverOlder`, `NewerHostIsTaken`.

`SelectInv` is the types; that a launcher which goes on with the host's runtime does so
by the decision of `rs_decide` about its configuration (`PlanInv`); that every member a
launcher has been through has a link, or somebody is between its `unlink` and its
`symlink`, unless a launcher died over the farm (`LinksHeal`); and, of a launcher that no
other has disturbed, that the links it has made are still its own (`OwnLinks`), that its
process has mapped what its plan says (`OwnLibraries`), and that it keeps the bundle
only if it was told to, something failed or the host's set is wanting (`KeepsBundle`).
`HostIsNeverOlder` supposes that each bundle is of one build (`OneBuild`), as a bundle
is made: the comparison of releases looks at all members, and for a bundle mixed by hand
it may go by another member than the one that is exchanged.

`FgnElfProofs` is about what is read out of an ELF file and the two parts that read it.
`SymbolsAreCounted` is what both rest on: whichever hash tables a linker wrote
(`HashTables`: DT_HASH with the symbols' number, DT_GNU_HASH with chains of any lengths
that stand one after the other), following the chain of the bucket that starts last ends
at the last symbol.  `ChainEnds` is its core.

For any image that a linker wrote and any table of names of which none is what another
becomes (`ImagesAssumption`, `RulesAssumption`): `RewriteInvariant`,
`RewriteKeepsOtherNames`, `RewriteSeesEverySymbol`.  That names are kept is not
inductive: the range test (`RangeOccupied`) looks at the image as earlier renames left
it.  `RewriteInv` says that a byte which has changed lies in a string that was
overwritten (`BytesWritten`, `Written`), that such a string is clear of every name but
those moved into it later, that a symbol which still has to be renamed is at its old
place with its old name or runs into an overwritten one (`NamesLeft`), so that a later
write never meets an earlier one, and that a symbol moves inside its own name only
(`PlacesMoved`).

For any threads, names and well-formed libcs (`LibcsAssumption`, `NamesAssumption`):
`SlotsHoldDefaults`, `ForwardersNeverWorse`, `ReentryEnds`.  `CompatInv` says that a thread is in no resolution, in one, or in one
inside the reading of another, which does not read itself because the guard is set
(`StackOf`); what each knows at each of its steps, the default version wherever the file
can be read and it was not entered from a reading (`FrameOf`); and which definitions a
slot may hold (`SlotOf`).

`GlSearchProofs`, for any tree of configuration files, any order of readdir, any limits
and any host (`LimitsAssumption`, `HostsAssumption`, `NoDirAssumption`):
`DirsComeInOrder` and `ForwardsToTheBest`.  The walk's invariant
(`Progress`) is that what the callback has been given and what the open files still have
to give (`Todo` of each frame, `Left` of all), put together, are what the files say less
what is passed over in silence (`Given`); the names of an include are what its line
means (`IncludedIs`).  Where all can be followed that is all that is written
(`FollowedIsWritten`, level by level).  The search's (`SearchInv`) is that no directory
asked so far was a hit but one that stopped the walk (`Searching`), that the choice of
the bundle is the rules' wherever nothing was dropped, and in any case where the host
need not be asked (`Deciding`), and that the host's object is the first file of its
name, or that nothing loads under it (`Answered`).

Induction over numbers (the levels of an include, the sequences that `FlattenSeq` joins, the
levels of a closure, the members of a sorted set) is done by a least counterexample: `Least`
says that a set of numbers that is not empty has a least member, and `FlattenUnfolds` and
`LevelsUnfold` unfold a recursive function once.  The library's
own induction theorems take an operator as a parameter, which the installed provers
cannot instantiate.

Only model-checked:

- liveness (`EveryOpenReturns` of `FgnCache` and of `FgnWalk`, `OpensReturn`,
  `WaitEndsButForPlugins`): weak fairness and ENABLED are outside what the provers
  handle.

Every invariant, action property and refinement that a passing run checks is proved.

## 5. Not modelled, and why

- The unresolved-symbol report only prints.
- The global-scope preload opens a fixed list once, from the constructor, and keeps
  nothing another part reads.
- GL trampolines and symbol lists, and the forward shim, are generated and stateless.
- The build, the offline tools, experiments and tests have no run-time state.

What the models leave out of parts they do model: driver-specific names, paths outside
the host and the logging in `FgnWalk`; the content of a driver changing under its path,
and processes with different settings taking each other's image of one name
(`ForeignOpen`; nothing in the repository says which of the two images such a process
must get); two paths with one hash; `dlclose`, which `RTLD_NODELETE` makes without
effect; the translation of addresses to file offsets and the bounds of each header,
which are one set of faults for which a file is declined (`FgnElf`); the text of a
configuration's lines, the matching of patterns and lines longer than the buffer
(`LdConf`); the entry points that
`VersionCompat` forwards to, once resolved; in `RuntimeSelect` the symbol tables (one
private symbol per build stands for what the members of a build have for each other),
the walk over `PATH` for the launcher's own file, library directories behind the bundle,
hosts that are upgraded while a launcher runs and the links an older host left in a
farm.

## 6. Plan

1. Hosts that are upgraded under a farm, and the links an older host left in it
   (`RuntimeSelect`).
2. Images of one name written under different settings, once the code says what a
   process is owed.
3. `FgnReentry` composed with the decisions of `FgnWalk`: what a nested open decides from
   a stack it has overwritten.
4. The global-scope preload as the first open of `FgnReentry`.
