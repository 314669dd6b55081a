------------------------------- MODULE FgnElf -------------------------------
(***************************************************************************)
(* What src/foreign-dlopen.c reads out of an ELF file: whether it is one   *)
(* that can be used at all, how many dynamic symbols it has, which         *)
(* versions it defines and which version of a name is the default one.     *)
(*                                                                         *)
(* A file is a record of what its bytes say:                               *)
(*   faults   why fgn_parse_elf would give it up, out of Faults            *)
(*   nchain   DT_HASH's symbol count, 0 without the table                  *)
(*   gnu      DT_GNU_HASH: symoffset; starts, the buckets' values (empty   *)
(*            without the table); ends, the indexes whose chain word is    *)
(*            odd; words, the first index for which the file has no word   *)
(*   room     symbols that fit between the table and the end of the file   *)
(*   syms     the dynamic symbols, the null symbol first                   *)
(*   versym   DT_VERSYM is there and covers the table                      *)
(*   verdef   the chain of DT_VERDEF; whole is FALSE where the chain       *)
(*            leaves the file, name is NoName where the name does          *)
(* Indexes are the code's, from 0: the symbol i is syms[i + 1].            *)
(***************************************************************************)
EXTENDS Integers, Sequences, FiniteSetsExt

CONSTANT NoName

\* fgn_parse_elf: every check it makes before it trusts a header.
Faults == {"unopened", "size", "memory", "short_read", "not_ours",
           "program_headers", "segment", "dynamic"}
Parses(f) == f.faults = {}

GnuTable == [symoffset : Nat, starts : SUBSET Nat, ends : SUBSET Nat, words : Nat]

\* DT_GNU_HASH as linkers write it: the chains of the buckets in use stand one after
\* the other from symoffset to the last symbol, and no symbol is defined before
\* them.  With nothing to hash one bucket is empty, and symoffset is past the null
\* symbol (bfd) or past all of them (lld).
GnuHash(f) ==
  LET n == Len(f.syms)
      first == f.gnu.symoffset
  IN  \/ /\ first \in 1 .. n - 1 /\ f.gnu.words >= n
         /\ first \in f.gnu.starts /\ f.gnu.starts \subseteq {0} \cup first .. n - 1
         /\ n - 1 \in f.gnu.ends
         /\ \A i \in f.gnu.ends \cap first .. n - 2 : i + 1 \in f.gnu.starts
      \/ /\ f.gnu.starts = {0} /\ first \in {1, n} /\ f.gnu.words >= first
         /\ \A i \in DOMAIN f.syms : ~f.syms[i].defined

\* The hash tables of a file: DT_HASH counts its symbols.
HashTables(f) ==
  /\ f.nchain \in {0, Len(f.syms)}
  /\ f.gnu.starts # {} => GnuHash(f)

\* Variant of DynsymCount: the bucket that starts last is not followed to the
\* end of its chain.
CountToLastBucket(f) ==
  LET count == IF f.nchain # 0 THEN f.nchain
               ELSE IF f.gnu.starts = {} THEN 0
               ELSE Max(f.gnu.starts \cup {f.gnu.symoffset}) + 1
  IN  IF count > f.room THEN 0 ELSE count

\* fgn_locate_dynsym: DT_HASH says it, else the chain of the bucket that starts
\* last is followed to its end.  0: the table is left alone.
DynsymCount(f) ==
  LET last == Max(f.gnu.starts \cup {f.gnu.symoffset})
      count == IF f.nchain # 0 THEN f.nchain
               ELSE IF f.gnu.starts = {} THEN 0
               ELSE Min({i \in f.gnu.ends : i >= last} \cup {f.gnu.words}) + 1
  IN  IF count > f.room THEN 0 ELSE count

\* The symbols that the code's loops over dynsym look at.
Dynsym(f) == 1 .. (IF DynsymCount(f) < Len(f.syms) THEN DynsymCount(f) ELSE Len(f.syms))

\* fgn_walk_verdefs: the entries it visits; it stops at the first that is cut off.
Verdefs(f) ==
  {i \in DOMAIN f.verdef : (\A j \in 1 .. i : f.verdef[j].whole) /\ f.verdef[i].name # NoName}

\* fgn_verdef_name: the first entry with that index.
VerdefName(f, ndx) ==
  LET hits == {i \in Verdefs(f) : f.verdef[i].ndx = ndx}
  IN  IF hits = {} THEN NoName ELSE f.verdef[Min(hits)].name

\* Variant of DefaultVersion: the bit that marks a hidden version is not
\* looked at.
FirstVersion(f, sym) ==
  LET hits == {i \in Dynsym(f) : f.syms[i].defined /\ f.syms[i].name = sym}
  IN  IF ~Parses(f) \/ ~f.versym \/ hits = {} \/ f.syms[Min(hits)].ndx <= 1
        THEN NoName ELSE VerdefName(f, f.syms[Min(hits)].ndx)

\* fgn_default_version_of, given the file that defines sym: the version of the
\* definition that is not hidden.
DefaultVersion(f, sym) ==
  LET hits == {i \in Dynsym(f) : /\ f.syms[i].defined /\ f.syms[i].name = sym
                                 /\ ~f.syms[i].hidden}
  IN  IF ~Parses(f) \/ ~f.versym \/ hits = {} \/ f.syms[Min(hits)].ndx <= 1
        THEN NoName ELSE VerdefName(f, f.syms[Min(hits)].ndx)
==============================================================================
