------------------------------- MODULE LdConf -------------------------------
(***************************************************************************)
(* The walk of src/ld-conf.h over /etc/ld.so.conf and the files it         *)
(* includes: line by line, includes as a recursion with a depth limit, a   *)
(* budget of files for the whole walk, and a callback that may stop it.    *)
(*                                                                         *)
(* tree.files gives each readable file's lines, tree.listing what readdir  *)
(* returns for the one directory of conf files, in its order.  Files are   *)
(* numbers, 0 the root, and sort as numbers.                               *)
(*                                                                         *)
(* The walk leaves things out, with a warning or without one: a name that  *)
(* is too long (tree.long), a file that cannot be opened (tree.closed), a  *)
(* directory that is not absolute, an include with a fault, and a name     *)
(* that makes too long a path with the include's directory (cut).  A fault *)
(* is the first that bites.  An include that is not absolute is looked up  *)
(* in the current directory, so for it there is no such directory.  Empty  *)
(* lines and comments are no lines here; every line fits the buffer.       *)
(***************************************************************************)
EXTENDS Integers, Sequences, SequencesExt

CONSTANTS
  Dirs,     \* directories that a line may name
  LDCONF_MAX_DEPTH, LDCONF_DEFAULT_BUDGET,
  MaxNames  \* conf files that are kept of one directory

ASSUME LimitsAssumption ==
  LDCONF_MAX_DEPTH \in Nat /\ LDCONF_DEFAULT_BUDGET \in Nat /\ MaxNames \in Nat

\* What an include may have wrong.  "long directory" is a test that no line
\* fails: the line is read into a buffer as long as the directory's.
Faults == {"none", "no slash", "long directory", "long suffix", "no such directory"}
Silent == Faults \ {"none", "long suffix"}

\* match: the names that end as the include's pattern does, fault or not.
Line ==
  [kind : {"directory"}, dir : Dirs, absolute : BOOLEAN] \cup
  [kind : {"include"}, match : SUBSET Nat, cut : SUBSET Nat, fault : Faults]
IsTree(t) ==
  /\ DOMAIN t.files \subseteq Nat /\ \A f \in DOMAIN t.files : t.files[f] \in Seq(Line)
  /\ t.long \subseteq Nat /\ t.closed \subseteq Nat
  /\ t.listing \in Seq(Nat) /\ \A i, j \in DOMAIN t.listing : i < j => t.listing[i] # t.listing[j]

VARIABLES
  tree,     \* the host's files
  frames,   \* the recursion through ldconf_walk_file, innermost last
  budget, stopped,
  warned,   \* something has been dropped, and said so
  seen      \* history: the directories the callback was given

walkVars == <<frames, budget, stopped, warned, seen>>

Frame(f, d) == [file |-> f, depth |-> d, open |-> FALSE, line |-> 1, names |-> <<>>]

NoWalk ==
  frames = <<>> /\ budget = LDCONF_DEFAULT_BUDGET /\ stopped = FALSE /\ warned = FALSE /\ seen = <<>>

\* ldconf_each_dir.
StartWalk ==
  /\ frames' = <<Frame(0, 0)>>
  /\ budget' = LDCONF_DEFAULT_BUDGET
  /\ stopped' = FALSE
  /\ seen' = <<>>
  /\ UNCHANGED warned

Top == frames[Len(frames)]
SetTop(f) == frames' = [frames EXCEPT ![Len(frames)] = f]
Pop == frames' = SubSeq(frames, 1, Len(frames) - 1)

\* The numbers of a set, ascending.
InOrder(S) ==
  CHOOSE s \in [1 .. Cardinality(S) -> S] : \A i, j \in DOMAIN s : i < j => s[i] < s[j]

\* The entries whose names fit, those of them short enough to keep, and of
\* these the first that readdir returns.
Fitting(line) == {i \in DOMAIN tree.listing : tree.listing[i] \in line.match}
Short(line) == {i \in Fitting(line) : tree.listing[i] \notin tree.long}
Kept(line) ==
  {i \in Short(line) : Cardinality({j \in Short(line) : j <= i}) <= MaxNames}

\* What an include drops and warns of.
Spilt(line) ==
  \/ line.fault = "long suffix"
  \/ line.fault = "none" /\ (Short(line) # Fitting(line) \/ Cardinality(Short(line)) > MaxNames)

\* Variant of Included: the names are taken in readdir's order.
IncludedAsListed(line) ==
  LET entries == InOrder({i \in Kept(line) : tree.listing[i] \notin line.cut})
  IN  IF line.fault # "none" THEN <<>>
      ELSE [n \in DOMAIN entries |-> tree.listing[entries[n]]]

\* The names whose files an include enters, sorted.
Included(line) ==
  IF line.fault # "none" THEN <<>>
  ELSE InOrder({tree.listing[i] : i \in Kept(line)} \ line.cut)

\* ldconf_walk_file opens its file, or is too deep, out of budget, or without
\* one; a file that cannot be opened has cost its budget.  It warns only of the
\* budget.
EnterFile ==
  /\ frames # <<>> /\ ~Top.open
  /\ IF Top.depth > LDCONF_MAX_DEPTH
       THEN Pop /\ UNCHANGED <<budget, warned>>
     ELSE IF budget <= 0
       THEN Pop /\ warned' = TRUE /\ UNCHANGED budget
     ELSE /\ budget' = budget - 1
          /\ IF Top.file \in DOMAIN tree.files \ tree.closed
               THEN SetTop([Top EXCEPT !.open = TRUE]) ELSE Pop
          /\ UNCHANGED warned
  /\ UNCHANGED <<tree, stopped, seen>>

\* The next included name, while nothing has stopped the walk.
EnterName ==
  /\ frames # <<>> /\ Top.open /\ ~stopped /\ Top.names # <<>>
  /\ frames' = SubSeq(frames, 1, Len(frames) - 1)
                 \o <<[Top EXCEPT !.names = Tail(@)],
                      Frame(Head(Top.names), Top.depth + 1)>>
  /\ UNCHANGED <<tree, budget, stopped, warned, seen>>

\* A line names a directory, which the callback is given if it is absolute and
\* stops at if it is among the hits, or is an include.
ReadLine(hits) ==
  /\ frames # <<>> /\ Top.open /\ ~stopped /\ Top.names = <<>>
  /\ Top.line <= Len(tree.files[Top.file])
  /\ LET line == tree.files[Top.file][Top.line]
     IN  \/ /\ line.kind = "directory"
            /\ IF line.absolute
                 THEN seen' = Append(seen, line.dir) /\ stopped' = (line.dir \in hits)
                 ELSE UNCHANGED <<seen, stopped>>
            /\ SetTop([Top EXCEPT !.line = @ + 1])
            /\ UNCHANGED warned
         \/ /\ line.kind = "include"
            /\ SetTop([Top EXCEPT !.line = @ + 1, !.names = Included(line)])
            /\ warned' = (warned \/ Spilt(line))
            /\ UNCHANGED <<seen, stopped>>
  /\ UNCHANGED <<tree, budget>>

\* The end of a file, or of the walk, one return after the other.
LeaveFile ==
  /\ frames # <<>> /\ Top.open
  /\ \/ stopped
     \/ Top.names = <<>> /\ Top.line > Len(tree.files[Top.file])
  /\ Pop
  /\ UNCHANGED <<tree, budget, stopped, warned, seen>>

WalkStep(hits) == EnterFile \/ EnterName \/ ReadLine(hits) \/ LeaveFile

------------------------------------------------------------------------------
\* What a tree of files says: every include in place of its line, its files by
\* name, down to the depth limit; said gives what is said one level below.
\* With all, what is written in them; without, what is left of that when
\* everything the walk passes over in silence is taken out.
Files(t) == {0} \cup DOMAIN t.files \cup ToSet(t.listing)
Meant(t, line, all) ==
  IF all THEN line.match \cap ToSet(t.listing)
  ELSE IF line.fault \in Silent THEN {}
  ELSE (line.match \ line.cut) \cap ToSet(t.listing)
NamesSay(names, said) == FlattenSeq([i \in DOMAIN names |-> said[names[i]]])
LineSays(t, line, said, all) ==
  IF line.kind = "include" THEN NamesSay(InOrder(Meant(t, line, all)), said)
  ELSE IF all \/ line.absolute THEN <<line.dir>>
  ELSE <<>>
FileSays(t, f, said, all) ==
  IF f \notin DOMAIN t.files \/ (~all /\ f \in t.closed) THEN <<>>
  ELSE FlattenSeq([l \in DOMAIN t.files[f] |-> LineSays(t, t.files[f][l], said, all)])

\* What each file says with so many levels left.
Levels(t, all) ==
  LET said[k \in 0 .. LDCONF_MAX_DEPTH + 1] ==
        [f \in Files(t) |-> IF k = 0 THEN <<>> ELSE FileSays(t, f, said[k - 1], all)]
  IN  said
Given == Levels(tree, FALSE)[LDCONF_MAX_DEPTH + 1][0]
Written == Levels(tree, TRUE)[LDCONF_MAX_DEPTH + 1][0]

\* Nothing in the files that the walk would pass over in silence.
Followable(t) ==
  /\ t.closed = {}
  /\ \A f \in DOMAIN t.files : \A l \in DOMAIN t.files[f] :
       LET line == t.files[f][l]
       IN  IF line.kind = "directory" THEN line.absolute
           ELSE line.fault \notin Silent /\ line.cut = {}

\* "Called once per directory named, in file order": the directories given so
\* far are the beginning of what the files say, each include in its place and
\* its files by name whatever order readdir has, and a walk that ends without
\* having been stopped has given them all; or it has warned that it dropped
\* some.  What the walk passes over without a warning does not count as said:
\* "Never drop anything silently" is not true of it.  It is true of the rest:
\* where every file can be opened, every directory is absolute and every
\* include can be followed, such a walk has given all that is written in the
\* files, down to the depth limit.
DirsInFileOrder ==
  ~warned =>
    /\ IsPrefix(seen, Given)
    /\ frames = <<>> /\ ~stopped /\ budget < LDCONF_DEFAULT_BUDGET =>
         seen = Given /\ (Followable(tree) => seen = Written)
==============================================================================
