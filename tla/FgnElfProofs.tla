------------------------------ MODULE FgnElfProofs ------------------------------
(***************************************************************************)
(* What is read out of an ELF file, whatever the file, and what two parts  *)
(* of the program make of it: the rewrite of an image (FgnImage), for any  *)
(* image a linker wrote and any table of names, and libc's version-compat  *)
(* forwarders (VersionCompat), for any threads, names and libcs and any    *)
(* number of calls.  Both rest on the same count of a file's symbols.      *)
(*                                                                         *)
(* The rewrite: RewriteInv says how each string came to be what it is.     *)
(* What has been written over (Written) is clear of every name that was    *)
(* not pointed into it later, and a symbol that is still to be renamed is  *)
(* at its old place (NamesLeft), so that a later write never meets an      *)
(* earlier one.                                                            *)
(*                                                                         *)
(* The forwarders: a resolution is one of two kinds, the outer one, which  *)
(* may read libc's file, and the one that reading may start, which finds   *)
(* `busy` set and does not read.  FrameOf says what each knows at each of  *)
(* its steps; the rest is about what ld.so and the file make of one name.  *)
(***************************************************************************)
EXTENDS VersionCompat, FgnImage, SequenceTheorems, WellFoundedInduction, TLAPS

LEMMA MinIn ==
  ASSUME NEW S \in SUBSET Nat, S # {}
  PROVE Min(S) \in S /\ \A y \in S : Min(S) <= y
<1>1. PICK x \in S : \A y \in S : ~(<<y, x>> \in OpToRel(<, Nat))
  BY WFMin, NatLessThanWellFounded
<1>2. ASSUME NEW y \in S PROVE x <= y
  <2>1. y \in Nat /\ x \in Nat /\ <<y, x>> \in Nat \X Nat OBVIOUS
  <2>2. ~(y < x) BY <1>1, <2>1 DEF OpToRel
  <2> QED BY <2>1, <2>2
<1> QED BY <1>2 DEF Min

LEMMA MaxIn ==
  ASSUME NEW n \in Nat, NEW S \in SUBSET (0 .. n), S # {}
  PROVE Max(S) \in S /\ \A y \in S : y <= Max(S)
<1> DEFINE T == {n - x : x \in S}
<1>0. \A x \in S : x \in 0 .. n
  OBVIOUS
<1>1. T \in SUBSET Nat /\ T # {}
  <2>1. \A x \in S : n - x \in Nat
    BY <1>0
  <2> QED BY <2>1
<1>2. PICK m \in T : \A t \in T : m <= t
  BY <1>1, MinIn
<1>3. PICK x \in S : m = n - x
  OBVIOUS
<1>4. ASSUME NEW y \in S PROVE y <= x
  <2>1. n - y \in T
    OBVIOUS
  <2>2. n - x <= n - y /\ x \in 0 .. n /\ y \in 0 .. n
    BY <1>0, <1>2, <1>3, <2>1
  <2> QED BY <2>2
<1> QED BY <1>4 DEF Max

------------------------------------------------------------------------------
(* The symbol count.                                                          *)

\* What fgn_locate_dynsym takes for the last index, of a table that hashes symbols.
LEMMA ChainEnds ==
  ASSUME NEW n \in Nat, NEW g \in GnuTable,
         g.symoffset \in 1 .. n - 1, g.words >= n,
         g.starts \subseteq {0} \cup g.symoffset .. n - 1, n - 1 \in g.ends,
         \A i \in g.ends \cap g.symoffset .. n - 2 : i + 1 \in g.starts
  PROVE  Min({i \in g.ends : i >= Max(g.starts \cup {g.symoffset})} \cup {g.words}) = n - 1
<1> DEFINE M == g.starts \cup {g.symoffset}
           last == Max(M)
           E == {i \in g.ends : i >= last} \cup {g.words}
<1>0. /\ g.symoffset \in Nat /\ g.words \in Nat
      /\ g.starts \in SUBSET Nat /\ g.ends \in SUBSET Nat
  BY DEF GnuTable
<1>1. M \in SUBSET (0 .. n - 1) /\ n - 1 \in Nat
  BY <1>0
<1>2. last \in M /\ \A y \in M : y <= last
  BY <1>1, MaxIn
<1>3. last \in g.symoffset .. n - 1
  <2>1. g.symoffset <= last
    BY <1>2
  <2>2. last \in 0 .. n - 1
    BY <1>1, <1>2
  <2> QED BY <2>1, <2>2, <1>0
<1> HIDE DEF last
<1>4. E \in SUBSET Nat /\ n - 1 \in E
  BY <1>0, <1>3
<1>5. ASSUME NEW i \in E, i < n - 1 PROVE FALSE
  <2>1. i \in g.ends /\ i >= last /\ i \in Nat
    BY <1>0, <1>5
  <2>2. i \in g.symoffset .. n - 2
    BY <1>0, <1>3, <1>5, <2>1
  <2>3. i + 1 \in M
    BY <2>1, <2>2
  <2> QED BY <1>2, <1>3, <2>1, <2>3
<1>6. Min(E) \in E /\ Min(E) <= n - 1
  BY <1>4, MinIn
<1>7. Min(E) = n - 1
  BY <1>4, <1>5, <1>6
<1> QED BY <1>7 DEF last

FileOf(f) ==
  /\ f.nchain \in Nat /\ f.room \in Nat /\ f.gnu \in GnuTable
  /\ DOMAIN f.syms = 1 .. Len(f.syms) /\ Len(f.syms) \in Nat

\* The count is the symbol table's, or the table runs out of the file.
LEMMA SymbolsAreCounted ==
  ASSUME NEW f, FileOf(f), HashTables(f),
         f.nchain # 0 \/ (f.gnu.starts # {} /\ \E i \in DOMAIN f.syms : f.syms[i].defined)
  PROVE  DynsymCount(f) = IF Len(f.syms) <= f.room THEN Len(f.syms) ELSE 0
<1>1. CASE f.nchain # 0
  BY <1>1 DEF HashTables, DynsymCount, FileOf
<1>2. CASE f.nchain = 0
  <2>1. GnuHash(f) /\ f.gnu.starts # {} /\ \E i \in DOMAIN f.syms : f.syms[i].defined
    BY <1>2 DEF HashTables
  <2>2. Min({i \in f.gnu.ends : i >= Max(f.gnu.starts \cup {f.gnu.symoffset})} \cup {f.gnu.words})
          = Len(f.syms) - 1
    BY <2>1, ChainEnds DEF GnuHash, FileOf
  <2>3. Len(f.syms) \in Nat /\ f.room \in Nat
    BY DEF FileOf
  <2> DEFINE count == Min({i \in f.gnu.ends : i >= Max(f.gnu.starts \cup {f.gnu.symoffset})}
                            \cup {f.gnu.words}) + 1
  <2>4. DynsymCount(f) = IF count > f.room THEN 0 ELSE count
    BY <1>2, <2>1 DEF DynsymCount
  <2>5. count = Len(f.syms)
    BY <2>2, <2>3
  <2> QED BY <2>3, <2>4, <2>5
<1> QED BY <1>1, <1>2

\* Where a table that hashes nothing has its chains start behind the symbols, what
\* is read there counts them all the same.
LEMMA EmptyTableIsPassed ==
  ASSUME NEW f, FileOf(f), f.gnu.starts = {0}, f.gnu.symoffset = Len(f.syms),
         f.gnu.words >= Len(f.syms), f.nchain = 0
  PROVE  DynsymCount(f) # 0 => DynsymCount(f) \in Nat /\ DynsymCount(f) > Len(f.syms)
<1> DEFINE n == Len(f.syms)
           M == f.gnu.starts \cup {f.gnu.symoffset}
           E == {i \in f.gnu.ends : i >= Max(M)} \cup {f.gnu.words}
<1>0. n \in Nat /\ f.gnu.words \in Nat /\ f.gnu.ends \in SUBSET Nat
  BY DEF FileOf, GnuTable
<1>1. M \in SUBSET (0 .. n) /\ M # {} /\ n \in M
  BY <1>0
<1>2. Max(M) \in 0 .. n /\ n <= Max(M)
  BY <1>0, <1>1, MaxIn
<1>3. E \in SUBSET Nat /\ E # {} /\ \A i \in E : i >= n
  BY <1>0, <1>2
<1> HIDE DEF E
<1>4. Min(E) \in E
  BY <1>3, MinIn
<1>6. Min(E) \in Nat /\ Min(E) >= n
  BY <1>3, <1>4
<1>5. DynsymCount(f) = IF Min(E) + 1 > f.room THEN 0 ELSE Min(E) + 1
  BY DEF DynsymCount, E
<1>7. Min(E) + 1 \in Nat /\ Min(E) + 1 > n
  BY <1>0, <1>6
<1> HIDE DEF n
<1> QED BY <1>5, <1>7 DEF n

------------------------------------------------------------------------------
(* Strings that share their bytes.                                            *)

Bytes == Chars \cup {Nul}

\* The string at an offset, byte by byte.
Holds(tab, off, s) ==
  /\ off + Len(s) + 1 \in DOMAIN tab /\ tab[off + Len(s) + 1] = Nul
  /\ \A n \in 1 .. Len(s) : tab[off + n] = s[n]

LEMMA StrHolds ==
  ASSUME NEW tab \in Seq(Bytes), NEW off \in Nat, ValidCstr(tab, off)
  PROVE  Str(tab, off) \in Seq(Chars) /\ Holds(tab, off, Str(tab, off))
<1> DEFINE e == Min(Ends(tab, off))
           s == Str(tab, off)
<1>1. Ends(tab, off) \in SUBSET Nat /\ Ends(tab, off) # {}
  BY DEF Ends, ValidCstr
<1>2. e \in Ends(tab, off) /\ \A y \in Ends(tab, off) : e <= y
  BY <1>1, MinIn
<1>3. e \in 1 .. Len(tab) /\ e > off /\ tab[e] = Nul
  BY <1>2 DEF Ends
<1>4. \A q \in off + 1 .. e - 1 : tab[q] \in Chars
  <2> TAKE q \in off + 1 .. e - 1
  <2>1. q \in 1 .. Len(tab) /\ q < e /\ q > off
    BY <1>3
  <2>2. q \notin Ends(tab, off)
    BY <1>2, <1>3, <2>1
  <2> QED BY <2>1, <2>2 DEF Ends, Bytes
<1> HIDE DEF e
<1>5. off + 1 \in 1 .. Len(tab) + 1 /\ e - 1 \in off .. Len(tab)
  BY <1>3
<1>6. /\ s = SubSeq(tab, off + 1, e - 1) /\ s \in Seq(Bytes) /\ Len(s) = e - 1 - off
      /\ \A n \in 1 .. e - 1 - off : s[n] = tab[off + n]
  <2>1. s = SubSeq(tab, off + 1, e - 1)
    BY DEF Str, e
  <2> HIDE DEF s
  <2> QED BY <1>5, <2>1, SubSeqProperties
<1> HIDE DEF s
<1>7. \A n \in 1 .. Len(s) : s[n] \in Chars
  BY <1>3, <1>4, <1>6
<1>8. s \in Seq(Chars)
  <2>0. s \in Seq(Bytes)
    BY <1>6
  <2>1. Len(s) \in Nat /\ s \in [1 .. Len(s) -> Bytes]
    BY <2>0
  <2>2. s \in [1 .. Len(s) -> Chars]
    BY <1>7, <2>1
  <2> QED BY <2>1, <2>2
<1>9. Holds(tab, off, s)
  BY <1>3, <1>6 DEF Holds
<1> QED BY <1>8, <1>9 DEF s

LEMMA HoldsIsStr ==
  ASSUME NEW tab \in Seq(Bytes), NEW off \in Nat, NEW s \in Seq(Chars), Holds(tab, off, s)
  PROVE  ValidCstr(tab, off) /\ Str(tab, off) = s
<1> DEFINE e == off + Len(s) + 1
<1>1. e \in 1 .. Len(tab) /\ tab[e] = Nul /\ Len(s) \in Nat
  BY DEF Holds
<1>2. e \in Ends(tab, off)
  BY <1>1 DEF Ends
<1>3. ValidCstr(tab, off)
  BY <1>2 DEF ValidCstr
<1> DEFINE r == Str(tab, off)
<1>4. r \in Seq(Chars) /\ Holds(tab, off, r)
  BY <1>3, StrHolds
<1> HIDE DEF r
<1>5. Len(r) \in Nat
  BY <1>4
<1>6. ~(Len(r) < Len(s))
  <2>1. SUFFICES ASSUME Len(r) < Len(s) PROVE FALSE
    OBVIOUS
  <2>2. Len(r) + 1 \in 1 .. Len(s)
    BY <1>1, <1>5, <2>1
  <2>3. tab[off + (Len(r) + 1)] = s[Len(r) + 1] /\ s[Len(r) + 1] \in Chars
    BY <2>2 DEF Holds
  <2>4. off + (Len(r) + 1) = off + Len(r) + 1
    BY <1>5
  <2> QED BY <1>4, <2>3, <2>4, RulesAssumption DEF Holds
<1>7. ~(Len(s) < Len(r))
  <2>1. SUFFICES ASSUME Len(s) < Len(r) PROVE FALSE
    OBVIOUS
  <2>2. Len(s) + 1 \in 1 .. Len(r)
    BY <1>1, <1>5, <2>1
  <2>3. tab[off + (Len(s) + 1)] = r[Len(s) + 1] /\ r[Len(s) + 1] \in Chars
    BY <1>4, <2>2 DEF Holds
  <2>4. off + (Len(s) + 1) = off + Len(s) + 1
    BY <1>1
  <2> QED BY <1>1, <2>3, <2>4, RulesAssumption DEF Holds
<1>8. Len(r) = Len(s) /\ \A n \in 1 .. Len(s) : r[n] = s[n]
  BY <1>1, <1>4, <1>5, <1>6, <1>7 DEF Holds
<1>9. r = s
  BY <1>4, <1>8, SeqEqual
<1> QED BY <1>3, <1>9 DEF r

\* No terminator inside a string.
LEMMA InsideIsChar ==
  ASSUME NEW tab \in Seq(Bytes), NEW off \in Nat, NEW s \in Seq(Chars), Holds(tab, off, s),
         NEW q \in off + 1 .. off + Len(s)
  PROVE  q \in DOMAIN tab /\ tab[q] # Nul
<1>1. Len(s) \in Nat /\ q - off \in 1 .. Len(s) /\ off + (q - off) = q
  OBVIOUS
<1>2. tab[q] = s[q - off] /\ s[q - off] \in Chars
  BY <1>1 DEF Holds
<1>3. off + Len(s) + 1 \in 1 .. Len(tab)
  BY DEF Holds
<1>4. q \in 1 .. Len(tab)
  BY <1>1, <1>3
<1> QED BY <1>2, <1>4, RulesAssumption

\* Two tables with the same bytes up to a string's end have the same string.
LEMMA StrAgrees ==
  ASSUME NEW tab \in Seq(Bytes), NEW tab2 \in Seq(Bytes), Len(tab) = Len(tab2),
         NEW off \in Nat, ValidCstr(tab, off),
         \A q \in off + 1 .. off + Len(Str(tab, off)) + 1 : tab2[q] = tab[q]
  PROVE  ValidCstr(tab2, off) /\ Str(tab2, off) = Str(tab, off)
<1> DEFINE s == Str(tab, off)
<1>1. s \in Seq(Chars) /\ Holds(tab, off, s)
  BY StrHolds
<1> HIDE DEF s
<1>2. Len(s) \in Nat
  BY <1>1
<1>3. \A q \in off + 1 .. off + Len(s) + 1 : tab2[q] = tab[q]
  BY DEF s
<1>4. \A n \in 1 .. Len(s) : tab2[off + n] = s[n]
  <2> TAKE n \in 1 .. Len(s)
  <2>1. off + n \in off + 1 .. off + Len(s) + 1
    BY <1>2
  <2> QED BY <1>1, <1>3, <2>1 DEF Holds
<1>5. off + Len(s) + 1 \in off + 1 .. off + Len(s) + 1
  BY <1>2
<1>6. off + Len(s) + 1 \in DOMAIN tab2 /\ tab2[off + Len(s) + 1] = Nul
  BY <1>1, <1>3, <1>5 DEF Holds
<1>7. Holds(tab2, off, s)
  BY <1>4, <1>6 DEF Holds
<1> QED BY <1>1, <1>7, HoldsIsStr DEF s

\* The tail of a name is the string further on.
LEMMA SuffixHolds ==
  ASSUME NEW tab \in Seq(Bytes), NEW off \in Nat, NEW from \in Seq(Chars), NEW to \in Seq(Chars),
         Holds(tab, off, from), IsSuffix(to, from)
  PROVE  Holds(tab, off + Len(from) - Len(to), to)
<1> DEFINE d == Len(from) - Len(to)
<1>1. Len(from) \in Nat /\ Len(to) \in Nat /\ Len(to) <= Len(from) /\ d \in Nat
  BY DEF IsSuffix
<1>2. d + 1 \in 1 .. Len(from) + 1 /\ Len(from) \in d .. Len(from)
  BY <1>1
<1>3. to = SubSeq(from, d + 1, Len(from))
  BY DEF IsSuffix
<1>4. \A n \in 1 .. Len(from) - d : SubSeq(from, d + 1, Len(from))[n] = from[d + n]
  BY <1>1, <1>2, SubSeqProperties
<1>5. \A n \in 1 .. Len(to) : to[n] = from[d + n]
  BY <1>1, <1>3, <1>4
<1>6. \A n \in 1 .. Len(to) : tab[off + d + n] = to[n]
  <2> TAKE n \in 1 .. Len(to)
  <2>1. d + n \in 1 .. Len(from)
    BY <1>1
  <2>2. tab[off + (d + n)] = from[d + n]
    BY <2>1 DEF Holds
  <2>3. off + (d + n) = off + d + n
    BY <1>1
  <2> QED BY <1>5, <2>2, <2>3
<1>7. off + d + Len(to) + 1 = off + Len(from) + 1 /\ off + d = off + Len(from) - Len(to)
  BY <1>1
<1> HIDE DEF d
<1>8. Holds(tab, off + d, to)
  BY <1>6, <1>7 DEF Holds
<1> QED BY <1>7, <1>8

\* What a write in place changes.
LEMMA OverwriteIs ==
  ASSUME NEW tab \in Seq(Bytes), NEW off \in Nat, NEW from \in Seq(Chars), NEW to \in Seq(Chars),
         Holds(tab, off, from), Len(to) <= Len(from)
  PROVE  /\ Overwrite(tab, off, to) \in Seq(Bytes)
         /\ Len(Overwrite(tab, off, to)) = Len(tab)
         /\ Holds(Overwrite(tab, off, to), off, to)
         /\ \A q \in DOMAIN tab :
              q \notin off + 1 .. off + Len(from) => Overwrite(tab, off, to)[q] = tab[q]
<1> DEFINE new == Overwrite(tab, off, to)
<1>1. /\ Len(from) \in Nat /\ Len(to) \in Nat /\ Len(tab) \in Nat
      /\ off + Len(from) + 1 \in 1 .. Len(tab) /\ tab[off + Len(from) + 1] = Nul
  BY DEF Holds
<1>2. DOMAIN new = 1 .. Len(tab)
  BY DEF Overwrite
<1>3. \A q \in 1 .. Len(tab) :
        new[q] = IF q \in off + 1 .. off + Len(to) THEN to[q - off]
                 ELSE IF q = off + Len(to) + 1 THEN Nul ELSE tab[q]
  BY DEF Overwrite
<1> HIDE DEF new
<1>4. \A q \in 1 .. Len(tab) : new[q] \in Bytes
  <2> TAKE q \in 1 .. Len(tab)
  <2>1. CASE q \in off + 1 .. off + Len(to)
    <3>1. q - off \in 1 .. Len(to)
      BY <1>1, <2>1
    <3>2. to[q - off] \in Chars
      BY <3>1
    <3> QED BY <1>3, <2>1, <3>2 DEF Bytes
  <2>2. CASE q \notin off + 1 .. off + Len(to)
    <3>1. tab[q] \in Bytes
      OBVIOUS
    <3> QED BY <1>3, <2>2, <3>1 DEF Bytes
  <2> QED BY <2>1, <2>2
<1>5. new \in [1 .. Len(tab) -> Bytes]
  <2>1. new = [q \in 1 .. Len(tab) |-> new[q]]
    BY <1>2 DEF new, Overwrite
  <2> QED BY <1>4, <2>1
<1>6. new \in Seq(Bytes) /\ Len(new) = Len(tab)
  BY <1>1, <1>5
<1>7. Holds(new, off, to)
  <2>1. off + Len(to) + 1 \in 1 .. Len(tab) /\ off + Len(to) + 1 \notin off + 1 .. off + Len(to)
    BY <1>1
  <2>2. new[off + Len(to) + 1] = Nul
    BY <1>3, <2>1
  <2>3. \A n \in 1 .. Len(to) : new[off + n] = to[n]
    <3> TAKE n \in 1 .. Len(to)
    <3>1. off + n \in 1 .. Len(tab) /\ off + n \in off + 1 .. off + Len(to) /\ off + n - off = n
      BY <1>1
    <3> QED BY <1>3, <3>1
  <2> QED BY <1>2, <2>1, <2>2, <2>3 DEF Holds
<1>8. \A q \in DOMAIN tab : q \notin off + 1 .. off + Len(from) => new[q] = tab[q]
  <2> TAKE q \in DOMAIN tab
  <2> HAVE q \notin off + 1 .. off + Len(from)
  <2>1. q \in 1 .. Len(tab) /\ q \notin off + 1 .. off + Len(to)
    BY <1>1
  <2>2. q = off + Len(to) + 1 => q = off + Len(from) + 1
    BY <1>1
  <2> QED BY <1>1, <1>3, <2>1, <2>2
<1> QED BY <1>6, <1>7, <1>8 DEF new

------------------------------------------------------------------------------
(* What a rewrite has done.                                                   *)

Place(i) == image.syms[i].st_name
OldPlace(i) == before.syms[i].st_name
From(r) == fgn_renames[r].from
To(r) == fgn_renames[r].to
NotFrom(s) == \A r \in DOMAIN fgn_renames : s # From(r)

\* The symbols whose strings are to be overwritten, and where a name that comes
\* after one of them would begin.
Victim(i, r) ==
  /\ i \in DOMAIN before.syms /\ r \in DOMAIN fgn_renames
  /\ ~IsSuffix(To(r), From(r)) /\ Wanted(before, i - 1, fgn_renames[r])
Inside(i, r) == OldPlace(i) + 1 .. OldPlace(i) + Len(From(r))

\* One of them has been, and what has come to point inside it since is a name that
\* ran into it.
Written(i, r) ==
  /\ Victim(i, r) /\ Place(i) = OldPlace(i) /\ Str(image.strtab, OldPlace(i)) = To(r)
  /\ \A ref \in Refs(image) : Offset(image, ref) \in Inside(i, r) =>
       /\ ref[1] = "symbol" /\ Place(ref[2]) # OldPlace(ref[2])
       /\ ValidCstr(before.strtab, OldPlace(ref[2])) => RunsIntoOverwritten(ref)
       /\ NotFrom(Str(image.strtab, Place(ref[2])))

\* The rest of the image is what was read.
SameImage ==
  /\ before \in Images /\ image \in ImageType
  /\ Len(image.syms) = Len(before.syms) /\ Len(image.strtab) = Len(before.strtab)
  /\ \A i \in DOMAIN before.syms : image.syms[i].defined = before.syms[i].defined
  /\ image.gnu = before.gnu /\ image.nchain = before.nchain /\ image.room = before.room
  /\ Len(image.dyn) = Len(before.dyn)
  /\ \A d \in DOMAIN before.dyn : image.dyn[d].val = before.dyn[d].val
  /\ before.syms # <<>> => Place(1) = 0
  /\ phase \in {"parse", "strip"} => image = before /\ rule = 1 /\ index = 0
  /\ phase = "rename" =>
       rule \in DOMAIN fgn_renames /\ index \in Nat /\ index + 1 \in Dynsym(image)

\* A byte that has changed was overwritten.
BytesWritten ==
  \A q \in DOMAIN image.strtab : image.strtab[q] # before.strtab[q] =>
    \E i \in DOMAIN before.syms, r \in DOMAIN fgn_renames : Written(i, r) /\ q \in Inside(i, r)

\* A symbol that still has to be renamed has the name it had, or runs into an
\* overwritten one, which keeps it from being overwritten.
NamesLeft ==
  \A k \in DOMAIN before.syms : ValidCstr(image.strtab, Place(k)) =>
    LET name == Str(image.strtab, Place(k))
    IN  \/ Place(k) = OldPlace(k) /\ name = Str(before.strtab, OldPlace(k))
        \/ NotFrom(name)
        \/ \E i \in DOMAIN before.syms, r \in DOMAIN fgn_renames :
             Written(i, r) /\ OldPlace(i) \in Place(k) + 1 .. Place(k) + Len(name)

\* A symbol moves inside its name, for a rule, or because it ran into another.
PlacesMoved ==
  \A k \in DOMAIN before.syms : Place(k) # OldPlace(k) =>
    LET name == Str(before.strtab, OldPlace(k))
    IN  /\ ValidCstr(before.strtab, OldPlace(k))
        /\ Place(k) \in OldPlace(k) .. OldPlace(k) + Len(name)
        /\ \/ RunsIntoOverwritten(<<"symbol", k>>)
           \/ \E r \in DOMAIN fgn_renames :
                /\ IsSuffix(To(r), From(r)) /\ Wanted(before, k - 1, fgn_renames[r])
                /\ Place(k) = OldPlace(k) + Len(From(r)) - Len(To(r))

RewriteInv == SameImage /\ BytesWritten /\ NamesLeft /\ PlacesMoved

LEMMA RuleIs ==
  ASSUME NEW r \in DOMAIN fgn_renames
  PROVE  /\ From(r) \in Seq(Chars) /\ To(r) \in Seq(Chars) /\ NotFrom(To(r))
         /\ Len(From(r)) \in Nat /\ Len(To(r)) \in Nat
<1> DEFINE Rule == [from : Seq(Chars), to : Seq(Chars)]
<1>0. fgn_renames \in Seq(Rule)
  BY RulesAssumption
<1> HIDE DEF Rule
<1>1. fgn_renames[r] \in Rule
  BY <1>0
<1>2. From(r) \in Seq(Chars) /\ To(r) \in Seq(Chars)
  BY <1>1 DEF From, To, Rule
<1>3. NotFrom(To(r))
  BY RulesAssumption DEF NotFrom, From, To
<1> QED BY <1>2, <1>3

LEMMA TypeOf ==
  ASSUME NEW img \in ImageType
  PROVE  /\ img.strtab \in Seq(Bytes) /\ Len(img.strtab) \in Nat
         /\ DOMAIN img.strtab = 1 .. Len(img.strtab)
         /\ img.syms \in Seq([st_name : Nat, defined : BOOLEAN])
         /\ Len(img.syms) \in Nat /\ DOMAIN img.syms = 1 .. Len(img.syms)
         /\ \A i \in DOMAIN img.syms : img.syms[i].st_name \in Nat
         /\ FileOf(img)
<1>1. /\ img.strtab \in Seq(Bytes) /\ img.syms \in Seq([st_name : Nat, defined : BOOLEAN])
      /\ img.nchain \in Nat /\ img.room \in Nat /\ img.gnu \in GnuTable
  BY DEF ImageType, Bytes
<1> DEFINE Sym == [st_name : Nat, defined : BOOLEAN]
<1>2. Len(img.strtab) \in Nat /\ DOMAIN img.strtab = 1 .. Len(img.strtab)
  BY <1>1
<1>3. img.syms \in Seq(Sym)
  BY <1>1
<1>4. \A s \in Sym : s.st_name \in Nat
  OBVIOUS
<1> HIDE DEF Sym
<1>5. /\ Len(img.syms) \in Nat /\ DOMAIN img.syms = 1 .. Len(img.syms)
      /\ \A i \in DOMAIN img.syms : img.syms[i] \in Sym
  BY <1>3
<1> QED BY <1>1, <1>2, <1>4, <1>5 DEF FileOf

LEMMA SettingIs ==
  ASSUME SameImage
  PROVE  /\ before \in ImageType /\ HashTables(before)
         /\ image.strtab \in Seq(Bytes) /\ before.strtab \in Seq(Bytes)
         /\ Len(image.strtab) = Len(before.strtab) /\ Len(before.strtab) \in Nat
         /\ DOMAIN image.strtab = DOMAIN before.strtab
         /\ DOMAIN image.syms = DOMAIN before.syms
         /\ DOMAIN before.syms = 1 .. Len(before.syms) /\ Len(before.syms) \in Nat
         /\ \A i \in DOMAIN before.syms : Place(i) \in Nat /\ OldPlace(i) \in Nat
<1>1. before \in ImageType /\ HashTables(before) /\ image \in ImageType
  BY ImagesAssumption DEF SameImage
<1>2. Len(image.strtab) = Len(before.strtab) /\ Len(image.syms) = Len(before.syms)
  BY DEF SameImage
<1> QED BY <1>1, <1>2, TypeOf DEF Place, OldPlace

\* A symbol that is to be renamed.
LEMMA WantedIs ==
  ASSUME NEW img \in ImageType, NEW k \in DOMAIN img.syms, NEW r \in DOMAIN fgn_renames,
         Wanted(img, k - 1, fgn_renames[r])
  PROVE  /\ img.syms[k].st_name \in Nat \ {0}
         /\ ValidCstr(img.strtab, img.syms[k].st_name)
         /\ Str(img.strtab, img.syms[k].st_name) = From(r)
         /\ Holds(img.strtab, img.syms[k].st_name, From(r))
         /\ Len(To(r)) <= Len(From(r)) /\ ~img.syms[k].defined
         /\ img.gnu.symoffset # 0 => k - 1 < img.gnu.symoffset
<1>1. k \in Nat /\ k - 1 + 1 = k /\ img.syms[k].st_name \in Nat /\ img.gnu.symoffset \in Nat
  <2>1. k \in 1 .. Len(img.syms) /\ img.gnu \in GnuTable
    BY TypeOf DEF FileOf
  <2>2. img.gnu.symoffset \in Nat
    BY <2>1 DEF GnuTable
  <2> QED BY <2>1, <2>2, TypeOf
<1>2. /\ ~img.syms[k].defined /\ img.syms[k].st_name # 0
      /\ ValidCstr(img.strtab, img.syms[k].st_name)
      /\ Str(img.strtab, img.syms[k].st_name) = From(r)
      /\ Len(To(r)) <= Len(From(r))
      /\ ~(img.gnu.symoffset # 0 /\ k - 1 >= img.gnu.symoffset)
  BY <1>1 DEF Wanted, From, To
<1>3. Holds(img.strtab, img.syms[k].st_name, From(r))
  BY <1>1, <1>2, TypeOf, StrHolds
<1> QED BY <1>1, <1>2, <1>3

LEMMA VictimIs ==
  ASSUME SameImage, NEW i, NEW r, Victim(i, r)
  PROVE  /\ i \in DOMAIN before.syms /\ r \in DOMAIN fgn_renames
         /\ OldPlace(i) \in Nat \ {0} /\ Holds(before.strtab, OldPlace(i), From(r))
         /\ ValidCstr(before.strtab, OldPlace(i))
         /\ Str(before.strtab, OldPlace(i)) = From(r)
         /\ Len(To(r)) <= Len(From(r)) /\ Len(From(r)) > 0
<1>1. i \in DOMAIN before.syms /\ r \in DOMAIN fgn_renames /\ before \in ImageType
      /\ Wanted(before, i - 1, fgn_renames[r])
  BY SettingIs DEF Victim
<1>2. /\ OldPlace(i) \in Nat \ {0} /\ Holds(before.strtab, OldPlace(i), From(r))
      /\ ValidCstr(before.strtab, OldPlace(i))
      /\ Str(before.strtab, OldPlace(i)) = From(r) /\ Len(To(r)) <= Len(From(r))
  BY <1>1, WantedIs DEF OldPlace
<1>3. Len(From(r)) # 0
  <2>1. SUFFICES ASSUME Len(From(r)) = 0 PROVE FALSE
    OBVIOUS
  <2>2. Len(To(r)) = 0 /\ From(r) \in Seq(Chars) /\ To(r) \in Seq(Chars)
    BY <1>1, <1>2, <2>1, RuleIs
  <2>3. To(r) = <<>> /\ From(r) = <<>>
    BY <2>1, <2>2, EmptySeq
  <2> QED BY <1>1, <2>3, RuleIs DEF NotFrom
<1>4. Len(From(r)) \in Nat
  BY <1>1, RuleIs
<1> QED BY <1>1, <1>2, <1>3, <1>4

\* A terminator is never written over.
LEMMA NulsStay ==
  ASSUME SameImage, BytesWritten
  PROVE  \A q \in DOMAIN before.strtab : before.strtab[q] = Nul => image.strtab[q] = Nul
<1> TAKE q \in DOMAIN before.strtab
<1> HAVE before.strtab[q] = Nul
<1>1. SUFFICES ASSUME image.strtab[q] # Nul PROVE FALSE
  OBVIOUS
<1>2. q \in DOMAIN image.strtab /\ before.strtab \in Seq(Bytes)
  BY SettingIs
<1>3. PICK i \in DOMAIN before.syms, r \in DOMAIN fgn_renames :
        Written(i, r) /\ q \in Inside(i, r)
  BY <1>1, <1>2 DEF BytesWritten
<1>4. Victim(i, r)
  BY <1>3 DEF Written
<1>5. OldPlace(i) \in Nat /\ Holds(before.strtab, OldPlace(i), From(r)) /\ From(r) \in Seq(Chars)
  BY <1>4, VictimIs, RuleIs
<1>6. before.strtab[q] # Nul
  BY <1>2, <1>3, <1>5, InsideIsChar DEF Inside
<1> QED BY <1>6

\* The string of a written symbol, and where the one before it ended.
LEMMA WrittenIs ==
  ASSUME SameImage, BytesWritten, NEW i, NEW r, Written(i, r)
  PROVE  /\ Victim(i, r) /\ Place(i) = OldPlace(i)
         /\ ValidCstr(image.strtab, OldPlace(i)) /\ Str(image.strtab, OldPlace(i)) = To(r)
         /\ Holds(image.strtab, OldPlace(i), To(r))
         /\ OldPlace(i) + Len(From(r)) + 1 \in DOMAIN image.strtab
         /\ image.strtab[OldPlace(i) + Len(From(r)) + 1] = Nul
<1>1. Victim(i, r) /\ Place(i) = OldPlace(i) /\ Str(image.strtab, OldPlace(i)) = To(r)
  BY DEF Written
<1>2. OldPlace(i) \in Nat /\ Holds(before.strtab, OldPlace(i), From(r)) /\ Len(From(r)) \in Nat
  BY <1>1, VictimIs, RuleIs
<1> DEFINE e == OldPlace(i) + Len(From(r)) + 1
<1>3. e \in DOMAIN before.strtab /\ before.strtab[e] = Nul
  BY <1>2 DEF Holds
<1>4. e \in DOMAIN image.strtab /\ image.strtab[e] = Nul
  BY <1>3, NulsStay, SettingIs
<1>5. e > OldPlace(i)
  BY <1>2
<1>6. ValidCstr(image.strtab, OldPlace(i))
  BY <1>4, <1>5 DEF ValidCstr, Ends
<1>7. Holds(image.strtab, OldPlace(i), To(r))
  BY <1>1, <1>2, <1>6, SettingIs, StrHolds
<1> QED BY <1>1, <1>4, <1>6, <1>7

\* A name that can be read now could be read before.
LEMMA OldIsValid ==
  ASSUME SameImage, BytesWritten, NEW off \in Nat, ValidCstr(image.strtab, off)
  PROVE  ValidCstr(before.strtab, off)
<1>1. PICK q \in DOMAIN image.strtab : q > off /\ image.strtab[q] = Nul
  BY DEF ValidCstr, Ends
<1>2. q \in DOMAIN before.strtab /\ q \in Nat
  BY SettingIs
<1>3. CASE before.strtab[q] = Nul
  BY <1>1, <1>2, <1>3 DEF ValidCstr, Ends
<1>4. CASE before.strtab[q] # Nul
  <2>1. PICK i \in DOMAIN before.syms, r \in DOMAIN fgn_renames :
          Written(i, r) /\ q \in Inside(i, r)
    BY <1>1, <1>4 DEF BytesWritten
  <2>2. Victim(i, r)
    BY <2>1 DEF Written
  <2>3. OldPlace(i) \in Nat /\ Holds(before.strtab, OldPlace(i), From(r)) /\ Len(From(r)) \in Nat
    BY <2>2, VictimIs, RuleIs
  <2> DEFINE e == OldPlace(i) + Len(From(r)) + 1
  <2>4. e \in DOMAIN before.strtab /\ before.strtab[e] = Nul
    BY <2>3 DEF Holds
  <2>5. e > off
    BY <1>1, <1>2, <2>1, <2>3 DEF Inside
  <2> QED BY <2>4, <2>5 DEF ValidCstr, Ends
<1> QED BY <1>3, <1>4

\* A name is what it was, or a byte of it was overwritten.
LEMMA NameIsOrWritten ==
  ASSUME SameImage, BytesWritten, NEW off \in Nat, ValidCstr(before.strtab, off)
  PROVE  \/ ValidCstr(image.strtab, off) /\ Str(image.strtab, off) = Str(before.strtab, off)
         \/ \E i \in DOMAIN before.syms, r \in DOMAIN fgn_renames :
              /\ Written(i, r)
              /\ \E q \in off + 1 .. off + Len(Str(before.strtab, off)) : q \in Inside(i, r)
<1> DEFINE s == Str(before.strtab, off)
           e == off + Len(s) + 1
<1>1. s \in Seq(Chars) /\ Holds(before.strtab, off, s) /\ Len(s) \in Nat
  BY SettingIs, StrHolds
<1> HIDE DEF s
<1>2. e \in DOMAIN before.strtab /\ before.strtab[e] = Nul /\ image.strtab[e] = Nul
  BY <1>1, NulsStay DEF Holds
<1>3. CASE \A q \in off + 1 .. off + Len(s) : image.strtab[q] = before.strtab[q]
  <2>1. \A q \in off + 1 .. off + Len(s) + 1 : image.strtab[q] = before.strtab[q]
    BY <1>1, <1>2, <1>3
  <2> QED BY <2>1, SettingIs, StrAgrees DEF s
<1>4. CASE \E q \in off + 1 .. off + Len(s) : image.strtab[q] # before.strtab[q]
  <2>1. PICK q \in off + 1 .. off + Len(s) : image.strtab[q] # before.strtab[q]
    BY <1>4
  <2>2. q \in DOMAIN image.strtab
    BY <1>1, InsideIsChar, SettingIs
  <2> QED BY <2>1, <2>2 DEF BytesWritten, s
<1> QED BY <1>3, <1>4

------------------------------------------------------------------------------
(* Which names a range of the string table is clear of.                       *)

\* A table with a symbol to rename is walked to its end.
LEMMA DynsymIsAll ==
  ASSUME SameImage, NEW k \in DOMAIN before.syms, NEW r \in DOMAIN fgn_renames,
         Wanted(image, k - 1, fgn_renames[r]), Dynsym(image) # {}
  PROVE  Dynsym(image) = DOMAIN before.syms
<1> DEFINE n == Len(before.syms)
           c == DynsymCount(before)
<1>1. /\ before \in ImageType /\ HashTables(before) /\ n \in Nat /\ DOMAIN before.syms = 1 .. n
      /\ FileOf(before) /\ DOMAIN image.syms = DOMAIN before.syms /\ image \in ImageType
  BY SettingIs, TypeOf DEF SameImage
<1>2. Dynsym(image) = 1 .. (IF c < n THEN c ELSE n)
  BY DEF SameImage, Dynsym, DynsymCount
<1>3. ~(c < n) => Dynsym(image) = DOMAIN before.syms
  BY <1>1, <1>2
<1>4. c # 0
  BY <1>1, <1>2
<1>5. Place(k) # 0 /\ (before.gnu.symoffset # 0 => k - 1 < before.gnu.symoffset)
  <2>1. image.gnu = before.gnu /\ k \in DOMAIN image.syms
    BY <1>1 DEF SameImage
  <2>2. /\ image.syms[k].st_name \in Nat \ {0}
        /\ image.gnu.symoffset # 0 => k - 1 < image.gnu.symoffset
    BY <1>1, <2>1, WantedIs
  <2> QED BY <2>1, <2>2 DEF Place
<1>6. k # 1 /\ k \in 1 .. n
  <2>1. before.syms # <<>>
    BY <1>1
  <2> QED BY <1>1, <1>5, <2>1 DEF SameImage
<1>7. CASE before.nchain # 0
  <2>1. c = n \/ c = 0
    BY <1>1, <1>7 DEF DynsymCount, HashTables
  <2> QED BY <1>1, <1>3, <1>4, <2>1
<1>8. CASE before.nchain = 0 /\ before.gnu.starts = {}
  <2>1. c = 0
    BY <1>8 DEF DynsymCount
  <2> QED BY <1>4, <2>1
<1>9. CASE before.nchain = 0 /\ before.gnu.starts # {}
  <2>1. GnuHash(before) /\ before.gnu \in GnuTable
    BY <1>1, <1>9 DEF HashTables, FileOf
  <2>2. CASE before.gnu.symoffset \in 1 .. n - 1
    <3>1. CASE \E i \in DOMAIN before.syms : before.syms[i].defined
      <4>1. c = n \/ c = 0
        BY <1>1, <1>9, <3>1, SymbolsAreCounted
      <4> QED BY <1>1, <1>3, <1>4, <4>1
    <3>2. CASE before.gnu.starts = {0} /\ before.gnu.symoffset \in {1, n}
      <4>1. before.gnu.symoffset = 1
        BY <1>1, <2>2, <3>2
      <4> QED BY <1>1, <1>5, <1>6, <4>1
    <3>3. CASE ~(\E i \in DOMAIN before.syms : before.syms[i].defined)
               /\ ~(before.gnu.starts = {0} /\ before.gnu.symoffset \in {1, n})
      <4>1. Min({i \in before.gnu.ends : i >= Max(before.gnu.starts \cup {before.gnu.symoffset})}
                  \cup {before.gnu.words}) = n - 1
        BY <1>1, <2>1, <2>2, <3>3, ChainEnds DEF GnuHash
      <4> DEFINE m == Min({i \in before.gnu.ends :
                             i >= Max(before.gnu.starts \cup {before.gnu.symoffset})}
                            \cup {before.gnu.words}) + 1
      <4>2. c = IF m > before.room THEN 0 ELSE m
        BY <1>9 DEF DynsymCount
      <4>3. m = n
        BY <1>1, <4>1
      <4> HIDE DEF m
      <4>4. c = n \/ c = 0
        BY <4>2, <4>3
      <4> QED BY <1>1, <1>3, <1>4, <4>4
    <3> QED BY <3>1, <3>2, <3>3
  <2>3. CASE before.gnu.symoffset \notin 1 .. n - 1
    <3>1. /\ before.gnu.starts = {0} /\ before.gnu.symoffset \in {1, n}
          /\ before.gnu.words >= before.gnu.symoffset
      BY <2>1, <2>3 DEF GnuHash
    <3>2. before.gnu.symoffset = n
      BY <1>1, <1>5, <1>6, <3>1
    <3>3. c \in Nat /\ c > n
      BY <1>1, <1>4, <1>9, <3>1, <3>2, EmptyTableIsPassed
    <3> QED BY <1>1, <1>3, <3>3
  <2> QED BY <2>2, <2>3
<1> QED BY <1>7, <1>8, <1>9

LEMMA Clear ==
  ASSUME SameImage, Dynsym(image) = DOMAIN before.syms, NEW p \in Nat, NEW L \in Nat,
         ~RangeOccupied(image, p + 1, p + L + 1, p), NEW ref \in Refs(image)
  PROVE  Offset(image, ref) \notin p + 1 .. p + L
<1>1. p + L + 1 - 1 = p + L /\ p \notin p + 1 .. p + L /\ 0 \notin p + 1 .. p + L
  OBVIOUS
<1>2. /\ \A i \in DOMAIN before.syms : image.syms[i].st_name \notin p + 1 .. p + L
      /\ \A d \in DOMAIN image.dyn :
           image.dyn[d].tag \in NameTags => image.dyn[d].val \notin p + 1 .. p + L
      /\ HasVersionNames(image) => \A o \in image.verrefs : o \notin p + 1 .. p + L
  BY <1>1 DEF RangeOccupied
<1>3. CASE \E i \in DOMAIN image.syms : ref = <<"symbol", i>>
  BY <1>2, <1>3, SettingIs DEF Offset
<1>4. CASE \E d \in DOMAIN image.dyn : image.dyn[d].tag \in NameTags /\ ref = <<"dynamic", d>>
  BY <1>2, <1>4 DEF Offset
<1>5. CASE HasVersionNames(image) /\ \E o \in image.verrefs : ref = <<"version", o>>
  BY <1>2, <1>5 DEF Offset
<1> QED BY <1>3, <1>4, <1>5 DEF Refs

------------------------------------------------------------------------------
(* One symbol moves into its own name.                                        *)

\* How a symbol with a name to rename came by it.
LEMMA FromLeft ==
  ASSUME RewriteInv, NEW k \in DOMAIN before.syms, NEW r \in DOMAIN fgn_renames,
         Wanted(image, k - 1, fgn_renames[r])
  PROVE  \/ Place(k) = OldPlace(k) /\ Wanted(before, k - 1, fgn_renames[r])
         \/ \E i \in DOMAIN before.syms, q \in DOMAIN fgn_renames :
              /\ Written(i, q) /\ i # k
              /\ OldPlace(i) \in Place(k) + 1 .. Place(k) + Len(From(r))
<1>1. SameImage /\ BytesWritten /\ image \in ImageType /\ before \in ImageType
      /\ k \in DOMAIN image.syms /\ Place(k) \in Nat /\ OldPlace(k) \in Nat
  BY SettingIs DEF RewriteInv, SameImage
<1>2. /\ Place(k) # 0 /\ ValidCstr(image.strtab, Place(k)) /\ Str(image.strtab, Place(k)) = From(r)
      /\ Len(To(r)) <= Len(From(r)) /\ ~image.syms[k].defined
      /\ image.gnu.symoffset # 0 => k - 1 < image.gnu.symoffset
  BY <1>1, WantedIs DEF Place
<1>3. CASE Place(k) = OldPlace(k) /\ From(r) = Str(before.strtab, OldPlace(k))
  <2>1. ValidCstr(before.strtab, OldPlace(k))
    BY <1>1, <1>2, <1>3, OldIsValid
  <2>2. ~before.syms[k].defined /\ before.gnu = image.gnu
    BY <1>1, <1>2 DEF SameImage
  <2>3. k \in Nat /\ k - 1 + 1 = k /\ before.gnu.symoffset \in Nat
    <3>1. k \in 1 .. Len(before.syms) /\ before.gnu \in GnuTable
      BY <1>1, TypeOf DEF FileOf
    <3>2. before.gnu.symoffset \in Nat
      BY <3>1 DEF GnuTable
    <3> QED BY <3>1, <3>2
  <2>4. Wanted(before, k - 1, fgn_renames[r])
    BY <1>2, <1>3, <2>1, <2>2, <2>3 DEF Wanted, OldPlace, From, To
  <2> QED BY <1>3, <2>4
<1>4. CASE NotFrom(From(r))
  BY <1>4 DEF NotFrom
<1>5. CASE \E i \in DOMAIN before.syms, q \in DOMAIN fgn_renames :
             Written(i, q) /\ OldPlace(i) \in Place(k) + 1 .. Place(k) + Len(From(r))
  <2>1. PICK i \in DOMAIN before.syms, q \in DOMAIN fgn_renames :
             Written(i, q) /\ OldPlace(i) \in Place(k) + 1 .. Place(k) + Len(From(r))
    BY <1>5
  <2>2. Place(i) = OldPlace(i)
    BY <2>1 DEF Written
  <2>3. i # k
    BY <1>1, <2>1, <2>2
  <2> QED BY <2>1, <2>3
<1> QED BY <1>2, <1>3, <1>4, <1>5 DEF RewriteInv, NamesLeft

\* The string read at a symbol's place ends where the symbol's old name does, and
\* a string overwritten inside it is one that the old name runs into.
LEMMA RunsOn ==
  ASSUME RewriteInv, NEW k \in DOMAIN before.syms, NEW s \in Seq(Chars),
         Holds(image.strtab, Place(k), s)
  PROVE  LET old == Str(before.strtab, OldPlace(k))
         IN  /\ ValidCstr(before.strtab, OldPlace(k)) /\ Len(old) \in Nat
             /\ Place(k) + Len(s) <= OldPlace(k) + Len(old)
             /\ OldPlace(k) <= Place(k)
             /\ \A i \in DOMAIN before.syms, q \in DOMAIN fgn_renames :
                  /\ Written(i, q) /\ i # k
                  /\ OldPlace(i) \in Place(k) .. Place(k) + Len(s)
                  => RunsIntoOverwritten(<<"symbol", k>>)
<1> DEFINE old == Str(before.strtab, OldPlace(k))
           e == OldPlace(k) + Len(old)
<1>1. /\ SameImage /\ BytesWritten /\ Place(k) \in Nat /\ OldPlace(k) \in Nat /\ Len(s) \in Nat
      /\ image.strtab \in Seq(Bytes) /\ before.strtab \in Seq(Bytes)
  BY SettingIs DEF RewriteInv
<1>2. ValidCstr(before.strtab, OldPlace(k))
  <2>1. CASE Place(k) = OldPlace(k)
    <3>1. ValidCstr(image.strtab, Place(k))
      BY <1>1, HoldsIsStr
    <3> QED BY <1>1, <2>1, <3>1, OldIsValid
  <2>2. CASE Place(k) # OldPlace(k)
    BY <2>2 DEF RewriteInv, PlacesMoved
  <2> QED BY <2>1, <2>2
<1>3. old \in Seq(Chars) /\ Holds(before.strtab, OldPlace(k), old) /\ Len(old) \in Nat
  BY <1>1, <1>2, StrHolds
<1>4. Place(k) \in OldPlace(k) .. e /\ OldPlace(k) <= Place(k) /\ Place(k) <= e
  <2>1. CASE Place(k) = OldPlace(k)
    BY <1>1, <1>3, <2>1
  <2>2. CASE Place(k) # OldPlace(k)
    <3>1. Place(k) \in OldPlace(k) .. OldPlace(k) + Len(old)
      BY <2>2 DEF RewriteInv, PlacesMoved
    <3> QED BY <1>1, <1>3, <3>1
  <2> QED BY <2>1, <2>2
<1> HIDE DEF old
<1>5. e + 1 \in DOMAIN before.strtab /\ before.strtab[e + 1] = Nul /\ image.strtab[e + 1] = Nul
  BY <1>1, <1>3, NulsStay DEF Holds
<1>6. e + 1 \notin Place(k) + 1 .. Place(k) + Len(s)
  BY <1>1, <1>5, InsideIsChar
<1>7. Place(k) + Len(s) <= e
  BY <1>1, <1>3, <1>4, <1>6
<1>8. ASSUME NEW i \in DOMAIN before.syms, NEW q \in DOMAIN fgn_renames,
             Written(i, q), i # k, OldPlace(i) \in Place(k) .. Place(k) + Len(s)
      PROVE  RunsIntoOverwritten(<<"symbol", k>>)
  <2>1. Victim(i, q)
    BY <1>8 DEF Written
  <2>2. /\ OldPlace(i) \in Nat /\ Holds(before.strtab, OldPlace(i), From(q))
        /\ From(q) \in Seq(Chars) /\ Len(From(q)) > 0 /\ Len(From(q)) \in Nat
    BY <1>1, <2>1, VictimIs, RuleIs
  <2>3. OldPlace(i) # e
    <3>1. before.strtab[OldPlace(i) + 1] # Nul
      <4>1. OldPlace(i) + 1 \in OldPlace(i) + 1 .. OldPlace(i) + Len(From(q))
        BY <2>2
      <4> QED BY <1>1, <2>2, <4>1, InsideIsChar
    <3> QED BY <1>5, <3>1
  <2>4. OldPlace(i) \in OldPlace(k) .. OldPlace(k) + Len(old) - 1
    <3>1. OldPlace(i) >= Place(k) /\ OldPlace(i) <= Place(k) + Len(s)
      BY <1>1, <1>8, <2>2
    <3>2. /\ OldPlace(i) \in Nat /\ Place(k) \in Nat /\ OldPlace(k) \in Nat
          /\ Len(s) \in Nat /\ Len(old) \in Nat
          /\ OldPlace(k) <= Place(k) /\ Place(k) + Len(s) <= e /\ OldPlace(i) # e
      BY <1>1, <1>3, <1>4, <1>7, <2>2, <2>3
    <3> QED BY <3>1, <3>2
  <2>5. Offset(before, <<"symbol", k>>) = OldPlace(k)
        /\ NameAt(before, <<"symbol", k>>) = old
    BY DEF Offset, NameAt, OldPlace, old
  <2>6. <<"symbol", k>> # <<"symbol", i>>
    BY <1>8
  <2> QED BY <2>1, <2>4, <2>5, <2>6 DEF RunsIntoOverwritten, Victim, OldPlace, To, From
<1> QED BY <1>2, <1>3, <1>4, <1>7, <1>8 DEF old

LEMMA MoveStep ==
  ASSUME RewriteInv, UNCHANGED before, NEW k \in DOMAIN before.syms, NEW r \in DOMAIN fgn_renames,
         Wanted(image, k - 1, fgn_renames[r]), IsSuffix(To(r), From(r)),
         image' = [image EXCEPT !.syms[k].st_name = Place(k) + Len(From(r)) - Len(To(r))]
  PROVE  BytesWritten' /\ NamesLeft' /\ PlacesMoved'
<1> DEFINE p == Place(k)
           new == p + Len(From(r)) - Len(To(r))
<1>1. /\ SameImage /\ BytesWritten /\ NamesLeft /\ PlacesMoved
      /\ image \in ImageType /\ k \in DOMAIN image.syms
      /\ p \in Nat /\ OldPlace(k) \in Nat /\ image.strtab \in Seq(Bytes)
      /\ DOMAIN image.syms = DOMAIN before.syms
      /\ From(r) \in Seq(Chars) /\ To(r) \in Seq(Chars)
      /\ Len(From(r)) \in Nat /\ Len(To(r)) \in Nat /\ Len(To(r)) <= Len(From(r))
  BY SettingIs, RuleIs DEF RewriteInv, SameImage, IsSuffix
<1>2. Holds(image.strtab, p, From(r)) /\ Str(image.strtab, p) = From(r)
  BY <1>1, WantedIs DEF Place
<1>3. Holds(image.strtab, new, To(r)) /\ new \in Nat /\ new >= p /\ new <= p + Len(From(r))
  BY <1>1, <1>2, SuffixHolds
<1>4. ValidCstr(image.strtab, new) /\ Str(image.strtab, new) = To(r) /\ NotFrom(To(r))
  BY <1>1, <1>3, HoldsIsStr, RuleIs
<1>5. /\ image'.strtab = image.strtab /\ image'.dyn = image.dyn /\ image'.verrefs = image.verrefs
      /\ DOMAIN image'.syms = DOMAIN image.syms
      /\ \A j \in DOMAIN image.syms :
           image'.syms[j].st_name = IF j = k THEN new ELSE image.syms[j].st_name
  BY <1>1 DEF ImageType
<1> HIDE DEF new
<1>6. /\ \A j \in DOMAIN before.syms : Place(j)' = IF j = k THEN new ELSE Place(j)
      /\ \A j : OldPlace(j)' = OldPlace(j)
      /\ \A i, q : Victim(i, q)' <=> Victim(i, q)
      /\ \A i, q : Inside(i, q)' = Inside(i, q)
      /\ \A ref : RunsIntoOverwritten(ref)' <=> RunsIntoOverwritten(ref)
  BY <1>1, <1>5 DEF Place, OldPlace, Victim, Inside, RunsIntoOverwritten
<1>7. Refs(image') = Refs(image)
  BY <1>5 DEF Refs, HasVersionNames
<1>8. \A i, q : Written(i, q) => i # k
  BY <1>1, <1>2, RuleIs DEF Written, NotFrom, Victim
<1>9. \A i \in DOMAIN before.syms, q \in DOMAIN fgn_renames : Written(i, q) =>
        /\ p \notin Inside(i, q)
        /\ OldPlace(i) \in p .. p + Len(From(r)) => RunsIntoOverwritten(<<"symbol", k>>)
  <2> TAKE i \in DOMAIN before.syms, q \in DOMAIN fgn_renames
  <2> HAVE Written(i, q)
  <2>1. <<"symbol", k>> \in Refs(image) /\ Offset(image, <<"symbol", k>>) = p
    BY <1>1 DEF Refs, Offset, Place
  <2>2. p \in Inside(i, q) => NotFrom(Str(image.strtab, Place(<<"symbol", k>>[2])))
    BY <2>1 DEF Written
  <2>3. ~NotFrom(Str(image.strtab, p)) /\ <<"symbol", k>>[2] = k
    BY <1>2 DEF NotFrom
  <2> QED BY <1>1, <1>2, <1>8, <2>2, <2>3, RunsOn
<1>10. /\ OldPlace(k) <= p /\ ValidCstr(before.strtab, OldPlace(k))
       /\ Len(Str(before.strtab, OldPlace(k))) \in Nat
       /\ p + Len(From(r)) <= OldPlace(k) + Len(Str(before.strtab, OldPlace(k)))
  BY <1>1, <1>2, RunsOn
<1>11. ASSUME NEW i \in DOMAIN before.syms, NEW q \in DOMAIN fgn_renames, Written(i, q)
       PROVE  Written(i, q)'
  <2>1. i # k /\ Victim(i, q) /\ Place(i) = OldPlace(i) /\ Str(image.strtab, OldPlace(i)) = To(q)
        /\ OldPlace(i) \in Nat /\ Len(From(q)) \in Nat
    BY <1>1, <1>8, <1>11, SettingIs, RuleIs DEF Written
  <2>2. Victim(i, q)' /\ Place(i)' = OldPlace(i)' /\ Str(image'.strtab, OldPlace(i)') = To(q)
    BY <1>5, <1>6, <2>1
  <2>3. ASSUME NEW ref \in Refs(image'), Offset(image', ref) \in Inside(i, q)'
        PROVE  /\ ref[1] = "symbol" /\ Place(ref[2])' # OldPlace(ref[2])'
               /\ ValidCstr(before'.strtab, OldPlace(ref[2])') => RunsIntoOverwritten(ref)'
               /\ NotFrom(Str(image'.strtab, Place(ref[2])'))
    <3>1. CASE ref = <<"symbol", k>>
      <4>1. new \in Inside(i, q) /\ ref[1] = "symbol" /\ ref[2] = k
        BY <1>5, <1>6, <1>1, <2>3, <3>1 DEF Offset
      <4>2. OldPlace(i) \in p .. p + Len(From(r)) /\ new > OldPlace(i) /\ OldPlace(i) >= p
        <5>1. new > OldPlace(i) /\ new <= OldPlace(i) + Len(From(q))
          BY <1>3, <2>1, <4>1 DEF Inside
        <5>2. ~(p > OldPlace(i))
          <6>1. p \in Nat /\ new \in Nat /\ new >= p /\ p \notin Inside(i, q)
            BY <1>1, <1>3, <1>9, <1>11
          <6>2. OldPlace(i) \in Nat /\ Len(From(q)) \in Nat
            BY <2>1
          <6> QED BY <5>1, <6>1, <6>2 DEF Inside
        <5> QED BY <1>1, <1>3, <2>1, <5>1, <5>2
      <4>3. new # OldPlace(k)
        BY <1>1, <1>3, <1>10, <2>1, <4>2
      <4>4. RunsIntoOverwritten(ref)
        BY <1>9, <1>11, <3>1, <4>2
      <4>5. Place(k)' = new /\ OldPlace(k)' = OldPlace(k)
        BY <1>6
      <4> QED BY <1>4, <1>5, <1>6, <4>1, <4>3, <4>4, <4>5
    <3>2. CASE ref # <<"symbol", k>>
      <4>1. ref \in Refs(image) /\ Offset(image, ref) \in Inside(i, q)
        BY <1>5, <1>6, <1>7, <2>3, <3>2 DEF Offset, Refs
      <4>2. /\ ref[1] = "symbol" /\ Place(ref[2]) # OldPlace(ref[2])
            /\ ValidCstr(before.strtab, OldPlace(ref[2])) => RunsIntoOverwritten(ref)
            /\ NotFrom(Str(image.strtab, Place(ref[2])))
        BY <1>11, <4>1 DEF Written
      <4>3. ref[2] \in DOMAIN before.syms /\ ref[2] # k
        BY <1>1, <3>2, <4>1, <4>2 DEF Refs
      <4> QED BY <1>5, <1>6, <4>2, <4>3
    <3> QED BY <3>1, <3>2
  <2> QED BY <2>2, <2>3 DEF Written
<1>12. BytesWritten'
  <2> SUFFICES ASSUME NEW q \in DOMAIN image'.strtab, image'.strtab[q] # before'.strtab[q]
               PROVE  \E i \in DOMAIN before'.syms, t \in DOMAIN fgn_renames :
                        Written(i, t)' /\ q \in Inside(i, t)'
    BY DEF BytesWritten
  <2>1. \E i \in DOMAIN before.syms, t \in DOMAIN fgn_renames : Written(i, t) /\ q \in Inside(i, t)
    BY <1>1, <1>5 DEF BytesWritten
  <2> QED BY <1>6, <1>11, <2>1
<1>13. NamesLeft'
  <2> SUFFICES ASSUME NEW j \in DOMAIN before.syms, ValidCstr(image'.strtab, Place(j)'),
                      NEW name, name = Str(image'.strtab, Place(j)')
               PROVE  \/ Place(j)' = OldPlace(j)' /\ name = Str(before'.strtab, OldPlace(j)')
                      \/ NotFrom(name)
                      \/ \E i \in DOMAIN before'.syms, t \in DOMAIN fgn_renames :
                           Written(i, t)' /\ OldPlace(i)' \in Place(j)' + 1 .. Place(j)' + Len(name)
    BY DEF NamesLeft
  <2>1. CASE j = k
    BY <1>4, <1>5, <1>6, <2>1
  <2>2. CASE j # k
    <3>1. Place(j)' = Place(j) /\ name = Str(image.strtab, Place(j)) /\ ValidCstr(image.strtab, Place(j))
      BY <1>5, <1>6, <2>2
    <3>2. \/ Place(j) = OldPlace(j) /\ name = Str(before.strtab, OldPlace(j))
          \/ NotFrom(name)
          \/ \E i \in DOMAIN before.syms, t \in DOMAIN fgn_renames :
               Written(i, t) /\ OldPlace(i) \in Place(j) + 1 .. Place(j) + Len(name)
      BY <1>1, <3>1 DEF NamesLeft
    <3> QED BY <1>6, <1>11, <3>1, <3>2
  <2> QED BY <2>1, <2>2
<1>14. PlacesMoved'
  <2> DEFINE Moved(j) ==
               LET name == Str(before.strtab, OldPlace(j))
               IN  /\ ValidCstr(before.strtab, OldPlace(j))
                   /\ Place(j)' \in OldPlace(j) .. OldPlace(j) + Len(name)
                   /\ \/ RunsIntoOverwritten(<<"symbol", j>>)
                      \/ \E t \in DOMAIN fgn_renames :
                           /\ IsSuffix(To(t), From(t)) /\ Wanted(before, j - 1, fgn_renames[t])
                           /\ Place(j)' = OldPlace(j) + Len(From(t)) - Len(To(t))
  <2>1. SUFFICES ASSUME NEW j \in DOMAIN before.syms, Place(j)' # OldPlace(j) PROVE Moved(j)
    BY <1>6 DEF PlacesMoved
  <2>2. CASE j # k
    BY <1>1, <1>6, <2>1, <2>2 DEF PlacesMoved
  <2>3. CASE j = k
    <3>1. Place(j)' = new /\ new \in OldPlace(k) .. OldPlace(k) + Len(Str(before.strtab, OldPlace(k)))
      BY <1>1, <1>3, <1>6, <1>10, <2>3
    <3>2. CASE p = OldPlace(k) /\ Wanted(before, k - 1, fgn_renames[r])
      BY <1>10, <2>3, <3>1, <3>2 DEF new
    <3>3. CASE \E i \in DOMAIN before.syms, q \in DOMAIN fgn_renames :
                 Written(i, q) /\ i # k /\ OldPlace(i) \in p + 1 .. p + Len(From(r))
      <4>1. RunsIntoOverwritten(<<"symbol", k>>)
        <5>1. PICK i \in DOMAIN before.syms, q \in DOMAIN fgn_renames :
                Written(i, q) /\ i # k /\ OldPlace(i) \in p + 1 .. p + Len(From(r))
          BY <3>3
        <5>2. OldPlace(i) \in Nat
          BY <1>1, SettingIs
        <5>3. OldPlace(i) \in p .. p + Len(From(r))
          BY <1>1, <5>1, <5>2
        <5> QED BY <1>9, <5>1, <5>3
      <4> QED BY <1>10, <2>3, <3>1, <4>1
    <3> QED BY <3>2, <3>3, FromLeft
  <2> QED BY <2>2, <2>3
<1> QED BY <1>12, <1>13, <1>14

------------------------------------------------------------------------------
(* One name is written over.                                                  *)

LEMMA WriteStep ==
  ASSUME RewriteInv, UNCHANGED before, NEW k \in DOMAIN before.syms, NEW r \in DOMAIN fgn_renames,
         Wanted(image, k - 1, fgn_renames[r]), ~IsSuffix(To(r), From(r)), Dynsym(image) # {},
         ~RangeOccupied(image, Place(k) + 1, Place(k) + Len(From(r)) + 1, Place(k)),
         image' = [image EXCEPT !.strtab = Overwrite(@, Place(k), To(r))]
  PROVE  BytesWritten' /\ NamesLeft' /\ PlacesMoved'
<1> DEFINE p == Place(k)
           L == Len(From(r))
           tab == image.strtab
           new == Overwrite(tab, p, To(r))
<1>1. /\ SameImage /\ BytesWritten /\ NamesLeft /\ PlacesMoved
      /\ image \in ImageType /\ k \in DOMAIN image.syms /\ p \in Nat /\ p # 0 /\ tab \in Seq(Bytes)
      /\ DOMAIN image.syms = DOMAIN before.syms
      /\ From(r) \in Seq(Chars) /\ To(r) \in Seq(Chars)
      /\ L \in Nat /\ Len(To(r)) \in Nat /\ Len(To(r)) <= L
      /\ Holds(tab, p, From(r)) /\ Str(tab, p) = From(r) /\ ~NotFrom(From(r)) /\ NotFrom(To(r))
  <2>1. SameImage /\ image \in ImageType
    BY DEF RewriteInv, SameImage
  <2>2. k \in DOMAIN image.syms /\ p \in Nat /\ tab \in Seq(Bytes) /\ DOMAIN image.syms = DOMAIN before.syms
    BY <2>1, SettingIs
  <2>3. p # 0 /\ Len(To(r)) <= L /\ Holds(tab, p, From(r)) /\ Str(tab, p) = From(r)
    BY <2>1, <2>2, WantedIs DEF Place
  <2>4. ~NotFrom(From(r))
    BY DEF NotFrom
  <2> QED BY <2>1, <2>2, <2>3, <2>4, RuleIs DEF RewriteInv
<1>2. /\ new \in Seq(Bytes) /\ Len(new) = Len(tab) /\ Holds(new, p, To(r))
      /\ \A q \in DOMAIN tab : q \notin p + 1 .. p + L => new[q] = tab[q]
      /\ DOMAIN tab = 1 .. Len(tab) /\ DOMAIN new = DOMAIN tab /\ Len(tab) \in Nat
  <2>1. /\ new \in Seq(Bytes) /\ Len(new) = Len(tab) /\ Holds(new, p, To(r))
        /\ \A q \in DOMAIN tab : q \notin p + 1 .. p + L => new[q] = tab[q]
    BY <1>1, OverwriteIs
  <2> HIDE DEF new, tab
  <2> QED BY <1>1, <2>1
<1>3. /\ image'.strtab = new /\ image'.dyn = image.dyn /\ image'.verrefs = image.verrefs
      /\ image'.syms = image.syms
  BY <1>1 DEF ImageType
<1> HIDE DEF new
<1>4. /\ \A j : Place(j)' = Place(j)
      /\ \A j : OldPlace(j)' = OldPlace(j)
      /\ \A i, q : Victim(i, q)' <=> Victim(i, q)
      /\ \A i, q : Inside(i, q)' = Inside(i, q)
      /\ \A ref : RunsIntoOverwritten(ref)' <=> RunsIntoOverwritten(ref)
      /\ \A ref : Offset(image', ref) = Offset(image, ref)
  BY <1>3 DEF Place, OldPlace, Victim, Inside, RunsIntoOverwritten, Offset
<1>5. Refs(image') = Refs(image)
  BY <1>3 DEF Refs, HasVersionNames
<1>6. \A ref \in Refs(image) : Offset(image, ref) \notin p + 1 .. p + L
  <2>1. Dynsym(image) = DOMAIN before.syms
    BY <1>1, DynsymIsAll
  <2> QED BY <1>1, <2>1, Clear
<1>7. \A j \in DOMAIN before.syms : Place(j) \notin p + 1 .. p + L /\ Place(j) \in Nat
  <2> TAKE j \in DOMAIN before.syms
  <2>1. <<"symbol", j>> \in Refs(image) /\ Offset(image, <<"symbol", j>>) = Place(j)
    BY <1>1 DEF Refs, Offset, Place
  <2> QED BY <1>1, <1>6, <2>1, SettingIs
<1>8. p = OldPlace(k) /\ Victim(k, r)
  <2>1. CASE p = OldPlace(k) /\ Wanted(before, k - 1, fgn_renames[r])
    BY <2>1 DEF Victim
  <2>2. CASE \E i \in DOMAIN before.syms, q \in DOMAIN fgn_renames :
               Written(i, q) /\ i # k /\ OldPlace(i) \in p + 1 .. p + L
    <3>1. PICK i \in DOMAIN before.syms, q \in DOMAIN fgn_renames :
               Written(i, q) /\ i # k /\ OldPlace(i) \in p + 1 .. p + L
      BY <2>2
    <3>2. Place(i) = OldPlace(i)
      BY <3>1 DEF Written
    <3> QED BY <1>7, <3>1, <3>2
  <2> QED BY <2>1, <2>2, FromLeft
<1>9. Inside(k, r) = p + 1 .. p + L
  BY <1>8 DEF Inside
<1>10. ValidCstr(new, p) /\ Str(new, p) = To(r)
  BY <1>1, <1>2, HoldsIsStr
<1>11. Written(k, r)'
  <2>1. Victim(k, r)' /\ Place(k)' = OldPlace(k)' /\ Str(image'.strtab, OldPlace(k)') = To(r)
    BY <1>3, <1>4, <1>8, <1>10
  <2>2. \A ref \in Refs(image') : Offset(image', ref) \notin Inside(k, r)'
    BY <1>4, <1>5, <1>6, <1>9
  <2> QED BY <2>1, <2>2 DEF Written
\* A string that stays clear of the written one is the same.
<1>12. ASSUME NEW u \in Nat, ValidCstr(tab, u),
              u + Len(Str(tab, u)) + 1 <= p \/ u > p + L
       PROVE  ValidCstr(new, u) /\ Str(new, u) = Str(tab, u)
  <2> DEFINE s == Str(tab, u)
  <2>1. s \in Seq(Chars) /\ Holds(tab, u, s) /\ Len(s) \in Nat
    BY <1>1, <1>12, StrHolds
  <2> HIDE DEF s
  <2>2. \A q \in u + 1 .. u + Len(s) + 1 : new[q] = tab[q]
    <3> TAKE q \in u + 1 .. u + Len(s) + 1
    <3>1. u + Len(s) + 1 \in 1 .. Len(tab)
      BY <1>2, <2>1 DEF Holds
    <3>2. q \in 1 .. Len(tab) /\ q > u /\ q <= u + Len(s) + 1
      BY <2>1, <3>1
    <3>3. u + Len(s) + 1 <= p \/ u > p + L
      BY <1>12 DEF s
    <3>4. q \notin p + 1 .. p + L
      <4>1. p \in Nat /\ L \in Nat /\ Len(s) \in Nat
        BY <1>1, <2>1
      <4> QED BY <3>2, <3>3, <4>1
    <3> QED BY <1>2, <3>2, <3>4
  <2> QED BY <1>1, <1>2, <1>12, <2>2, StrAgrees DEF s
<1>13. ASSUME NEW i \in DOMAIN before.syms, NEW q \in DOMAIN fgn_renames, Written(i, q)
       PROVE  Written(i, q)'
  <2> DEFINE o == OldPlace(i)
             M == Len(From(q))
  <2>1. /\ Victim(i, q) /\ Place(i) = o /\ o \in Nat /\ M \in Nat
        /\ Str(tab, o) = To(q) /\ ValidCstr(tab, o)
        /\ o + M + 1 \in DOMAIN tab /\ tab[o + M + 1] = Nul
        /\ Len(To(q)) \in Nat /\ Len(To(q)) <= M
    BY <1>1, <1>13, WrittenIs, SettingIs, RuleIs, VictimIs
  <2>2. o # p
    <3>1. NotFrom(To(q))
      BY RuleIs
    <3> QED BY <1>1, <2>1, <3>1
  <2>3. o \notin p + 1 .. p + L
    BY <1>7, <2>1
  <2>4. p \notin o + 1 .. o + M
    <3>1. <<"symbol", k>> \in Refs(image) /\ Offset(image, <<"symbol", k>>) = p
      BY <1>1 DEF Refs, Offset, Place
    <3>2. p \in Inside(i, q) => NotFrom(Str(image.strtab, Place(<<"symbol", k>>[2])))
      BY <1>13, <3>1 DEF Written
    <3>3. <<"symbol", k>>[2] = k
      OBVIOUS
    <3> QED BY <1>1, <3>2, <3>3 DEF Inside
  <2>5. o + M + 1 <= p \/ o > p + L
    <3>1. o \in Nat /\ M \in Nat /\ p \in Nat /\ L \in Nat
      BY <1>1, <2>1
    <3> HIDE DEF o, M, p, L
    <3> QED BY <2>2, <2>3, <2>4, <3>1
  <2>6. Str(new, o) = To(q)
    <3>1. o + Len(Str(tab, o)) + 1 <= p \/ o > p + L
      BY <1>1, <2>1, <2>5
    <3> QED BY <1>12, <2>1, <3>1
  <2>7. Victim(i, q)' /\ Place(i)' = OldPlace(i)' /\ Str(image'.strtab, OldPlace(i)') = To(q)
    BY <1>3, <1>4, <2>1, <2>6
  <2>8. ASSUME NEW ref \in Refs(image'), Offset(image', ref) \in Inside(i, q)'
        PROVE  /\ ref[1] = "symbol" /\ Place(ref[2])' # OldPlace(ref[2])'
               /\ ValidCstr(before'.strtab, OldPlace(ref[2])') => RunsIntoOverwritten(ref)'
               /\ NotFrom(Str(image'.strtab, Place(ref[2])'))
    <3>1. ref \in Refs(image) /\ Offset(image, ref) \in Inside(i, q)
      BY <1>4, <1>5, <2>8
    <3>2. /\ ref[1] = "symbol" /\ Place(ref[2]) # OldPlace(ref[2])
          /\ ValidCstr(before.strtab, OldPlace(ref[2])) => RunsIntoOverwritten(ref)
          /\ NotFrom(Str(tab, Place(ref[2])))
      BY <1>13, <3>1 DEF Written
    <3> DEFINE u == Place(ref[2])
               s == Str(tab, u)
    <3>3. u \in o + 1 .. o + M /\ u \in Nat
      BY <2>1, <3>1, <3>2 DEF Offset, Inside, Place
    <3>4. ValidCstr(tab, u)
      <4>1. o + M + 1 > u
        BY <2>1, <3>3
      <4> QED BY <2>1, <4>1 DEF ValidCstr, Ends
    <3>5. s \in Seq(Chars) /\ Holds(tab, u, s) /\ Len(s) \in Nat
      BY <1>1, <3>3, <3>4, StrHolds
    <3> HIDE DEF s
    <3>6. u + Len(s) + 1 <= o + M + 1
      <4>1. o + M + 1 \notin u + 1 .. u + Len(s)
        BY <1>1, <2>1, <3>3, <3>5, InsideIsChar
      <4>2. o \in Nat /\ M \in Nat /\ Len(s) \in Nat /\ u \in Nat /\ u >= o + 1 /\ u <= o + M
        BY <2>1, <3>3, <3>5
      <4> HIDE DEF o, M, u
      <4> QED BY <4>1, <4>2
    <3>7. u + Len(Str(tab, u)) + 1 <= p \/ u > p + L
      <4>1. /\ o \in Nat /\ M \in Nat /\ Len(s) \in Nat /\ u \in Nat /\ u >= o + 1
            /\ p \in Nat /\ L \in Nat
        BY <1>1, <2>1, <3>3, <3>5
      <4> HIDE DEF o, M, u, p, L
      <4>2. u + Len(s) + 1 <= p \/ u > p + L
        BY <2>5, <3>6, <4>1
      <4> QED BY <4>2 DEF s
    <3>8. Str(new, u) = Str(tab, u)
      BY <1>12, <3>3, <3>4, <3>7
    <3> QED BY <1>3, <1>4, <3>2, <3>8
  <2> QED BY <2>7, <2>8 DEF Written
<1>14. BytesWritten'
  <2> SUFFICES ASSUME NEW q \in DOMAIN image'.strtab, image'.strtab[q] # before'.strtab[q]
               PROVE  \E i \in DOMAIN before'.syms, t \in DOMAIN fgn_renames :
                        Written(i, t)' /\ q \in Inside(i, t)'
    BY DEF BytesWritten
  <2>1. CASE q \in Inside(k, r)
    BY <1>4, <1>11, <2>1
  <2>2. CASE q \notin Inside(k, r)
    <3>1. q \in DOMAIN tab /\ tab[q] # before.strtab[q]
      BY <1>2, <1>3, <1>9, <2>2
    <3>2. \E i \in DOMAIN before.syms, t \in DOMAIN fgn_renames : Written(i, t) /\ q \in Inside(i, t)
      BY <1>1, <3>1 DEF BytesWritten
    <3> QED BY <1>4, <1>13, <3>2
  <2> QED BY <2>1, <2>2
<1>15. NamesLeft'
  <2> SUFFICES ASSUME NEW j \in DOMAIN before.syms, ValidCstr(image'.strtab, Place(j)'),
                      NEW name, name = Str(image'.strtab, Place(j)')
               PROVE  \/ Place(j)' = OldPlace(j)' /\ name = Str(before'.strtab, OldPlace(j)')
                      \/ NotFrom(name)
                      \/ \E i \in DOMAIN before'.syms, t \in DOMAIN fgn_renames :
                           Written(i, t)' /\ OldPlace(i)' \in Place(j)' + 1 .. Place(j)' + Len(name)
    BY DEF NamesLeft
  <2> DEFINE u == Place(j)
  <2>1. u \in Nat /\ u \notin p + 1 .. p + L /\ Place(j)' = u /\ ValidCstr(new, u) /\ name = Str(new, u)
    BY <1>3, <1>4, <1>7
  <2>2. CASE u = p
    BY <1>1, <1>10, <2>1, <2>2
  <2>3. ValidCstr(tab, u)
    <3>1. CASE u > p + L
      <4>1. PICK q \in DOMAIN new : q > u /\ new[q] = Nul
        BY <2>1 DEF ValidCstr, Ends
      <4>2. q \in Nat
        BY <1>2
      <4>3. q \in DOMAIN tab /\ q \notin p + 1 .. p + L
        BY <1>1, <1>2, <2>1, <3>1, <4>1, <4>2
      <4> QED BY <1>2, <4>1, <4>3 DEF ValidCstr, Ends
    <3>2. CASE u <= p
      <4>1. p + L + 1 \in DOMAIN tab /\ tab[p + L + 1] = Nul /\ p + L + 1 > u
        BY <1>1, <2>1, <3>2 DEF Holds
      <4> QED BY <4>1 DEF ValidCstr, Ends
    <3> QED BY <1>1, <2>1, <3>1, <3>2
  <2> DEFINE s == Str(tab, u)
  <2>4. s \in Seq(Chars) /\ Holds(tab, u, s) /\ Len(s) \in Nat
    BY <1>1, <2>1, <2>3, StrHolds
  <2>5. CASE u + Len(s) + 1 <= p \/ u > p + L
    <3>1. name = s
      BY <1>12, <2>1, <2>3, <2>5
    <3>2. \/ u = OldPlace(j) /\ name = Str(before.strtab, OldPlace(j))
          \/ NotFrom(name)
          \/ \E i \in DOMAIN before.syms, t \in DOMAIN fgn_renames :
               Written(i, t) /\ OldPlace(i) \in u + 1 .. u + Len(name)
      BY <1>1, <2>3, <3>1 DEF NamesLeft
    <3> QED BY <1>4, <1>13, <3>2
  <2>6. CASE u < p /\ ~(u + Len(s) + 1 <= p)
    <3> HIDE DEF s
    <3>1. name \in Seq(Chars) /\ Holds(new, u, name) /\ Len(name) \in Nat
      BY <1>2, <2>1, StrHolds
    <3>2. ASSUME u + Len(name) + 1 <= p PROVE FALSE
      <4> DEFINE q == u + Len(name) + 1
      <4>1. q \in DOMAIN tab /\ new[q] = Nul
        BY <1>2, <3>1 DEF Holds
      <4>2. /\ u \in Nat /\ p \in Nat /\ L \in Nat /\ Len(name) \in Nat /\ Len(s) \in Nat
            /\ u < p /\ ~(u + Len(s) + 1 <= p)
        BY <1>1, <2>1, <2>4, <2>6, <3>1
      <4>3. q \notin p + 1 .. p + L /\ q \in u + 1 .. u + Len(s)
        <5> HIDE DEF u, p, L
        <5> QED BY <3>2, <4>2
      <4>4. tab[q] = Nul
        BY <1>2, <4>1, <4>3
      <4> QED BY <1>1, <2>1, <2>4, <4>3, <4>4, InsideIsChar
    <3>3. p \in u + 1 .. u + Len(name)
      <4>1. u \in Nat /\ p \in Nat /\ Len(name) \in Nat /\ u < p
        BY <1>1, <2>1, <2>6, <3>1
      <4> HIDE DEF u, p
      <4> QED BY <3>2, <4>1
    <3>4. OldPlace(k)' \in Place(j)' + 1 .. Place(j)' + Len(name)
      BY <1>4, <1>8, <3>3
    <3> QED BY <1>11, <3>4
  <2>7. u = p \/ (u + Len(s) + 1 <= p \/ u > p + L) \/ (u < p /\ ~(u + Len(s) + 1 <= p))
    <3>1. u \in Nat /\ p \in Nat /\ L \in Nat /\ Len(s) \in Nat /\ u \notin p + 1 .. p + L
      BY <1>1, <2>1, <2>4
    <3> HIDE DEF u, p, L, s
    <3> QED BY <3>1
  <2> QED BY <2>2, <2>5, <2>6, <2>7
<1>16. PlacesMoved'
  BY <1>1, <1>4 DEF PlacesMoved
<1> QED BY <1>14, <1>15, <1>16

------------------------------------------------------------------------------
(* The rewrite.                                                               *)

\* An image whose strings and symbols are as they were read.
LEMMA Untouched ==
  ASSUME image.strtab = before.strtab, image.syms = before.syms
  PROVE  BytesWritten /\ NamesLeft /\ PlacesMoved
BY DEF BytesWritten, NamesLeft, PlacesMoved, Place, OldPlace

LEMMA RewriteStarts == RewriteInit => RewriteInv
<1> SUFFICES ASSUME RewriteInit PROVE RewriteInv
  OBVIOUS
<1>1. before \in Images /\ image = before /\ before \in ImageType
      /\ (before.syms # <<>> => before.syms[1].st_name = 0)
      /\ phase = "parse" /\ rule = 1 /\ index = 0
  BY ImagesAssumption DEF RewriteInit
<1>2. SameImage
  BY <1>1 DEF SameImage, Place
<1> QED BY <1>1, <1>2, Untouched DEF RewriteInv

LEMMA ParseStep ==
  ASSUME RewriteInv, Parse
  PROVE  RewriteInv'
<1>1. image = before /\ image' = image /\ before' = before /\ rule' = rule /\ index' = index
      /\ phase' \in {"strip", "declined"} /\ rule = 1 /\ index = 0
  BY DEF Parse, RewriteInv, SameImage
<1>2. SameImage'
  BY <1>1 DEF RewriteInv, SameImage, Place
<1>3. BytesWritten' /\ NamesLeft' /\ PlacesMoved'
  BY <1>1 DEF BytesWritten, NamesLeft, PlacesMoved, Place, OldPlace
<1> QED BY <1>2, <1>3 DEF RewriteInv

LEMMA CountIsNat ==
  ASSUME NEW img, FileOf(img)
  PROVE  DynsymCount(img) \in Int
<1> DEFINE M == img.gnu.starts \cup {img.gnu.symoffset}
           E == {i \in img.gnu.ends : i >= Max(M)} \cup {img.gnu.words}
<1>1. E \in SUBSET Nat /\ E # {} /\ img.nchain \in Nat
  BY DEF FileOf, GnuTable
<1>2. Min(E) \in Nat
  BY <1>1, MinIn
<1> HIDE DEF E
<1>3. \/ DynsymCount(img) = 0 \/ DynsymCount(img) = img.nchain \/ DynsymCount(img) = Min(E) + 1
  BY DEF DynsymCount, E
<1> QED BY <1>1, <1>2, <1>3

\* The loop over the symbols begins at one.
LEMMA FirstIsThere ==
  ASSUME NEW img, FileOf(img), Dynsym(img) # {}
  PROVE  0 \in Nat /\ 0 + 1 \in Dynsym(img)
<1>1. Len(img.syms) \in Nat
  BY DEF FileOf
<1>2. PICK b : Dynsym(img) = 1 .. b /\ (b = DynsymCount(img) \/ b = Len(img.syms))
  BY DEF Dynsym
<1>3. PICK x \in Dynsym(img) : TRUE
  OBVIOUS
<1>4. 1 \in 1 .. b
  BY <1>1, <1>2, <1>3, CountIsNat
<1> QED BY <1>2, <1>4

LEMMA StripStep ==
  ASSUME RewriteInv, Strip
  PROVE  RewriteInv'
<1>1. image = before /\ before' = before /\ rule' = 1 /\ index' = 0 /\ SameImage
      /\ image \in ImageType /\ before \in Images
      /\ (before.syms # <<>> => Place(1) = 0)
      /\ phase' \in {"done", "rename"} /\ (phase' = "rename" => Dynsym(image) # {} /\ fgn_renames # <<>>)
  BY DEF Strip, RewriteInv, SameImage
<1>2. PICK gone \in SUBSET DOMAIN image.dyn :
        image' = [image EXCEPT !.dyn = [d \in DOMAIN @ |->
                     IF d \in gone THEN [@[d] EXCEPT !.tag = "NEUTRAL"] ELSE @[d]]]
  BY DEF Strip
<1> DEFINE dyn == [d \in DOMAIN image.dyn |->
                     IF d \in gone THEN [image.dyn[d] EXCEPT !.tag = "NEUTRAL"] ELSE image.dyn[d]]
<1>3. image' = [image EXCEPT !.dyn = dyn]
  BY <1>2
<1> DEFINE Tags == VersionTags \cup NameTags \cup {"NEUTRAL"}
<1>4. /\ dyn \in Seq([tag : Tags, val : Nat, musl : BOOLEAN]) /\ Len(dyn) = Len(image.dyn)
      /\ \A d \in DOMAIN image.dyn : dyn[d].val = image.dyn[d].val
  <2> DEFINE Entry == [tag : Tags, val : Nat, musl : BOOLEAN]
  <2>1. image.dyn \in Seq(Entry)
    BY <1>1 DEF ImageType
  <2>2. "NEUTRAL" \in Tags
    OBVIOUS
  <2> HIDE DEF Tags
  <2>3. ASSUME NEW e \in Entry
        PROVE  [e EXCEPT !.tag = "NEUTRAL"] \in Entry /\ [e EXCEPT !.tag = "NEUTRAL"].val = e.val
    <3>1. e = [tag |-> e.tag, val |-> e.val, musl |-> e.musl]
          /\ e.tag \in Tags /\ e.val \in Nat /\ e.musl \in BOOLEAN
      OBVIOUS
    <3>2. [e EXCEPT !.tag = "NEUTRAL"] = [tag |-> "NEUTRAL", val |-> e.val, musl |-> e.musl]
      BY <3>1
    <3> QED BY <2>2, <3>1, <3>2
  <2> HIDE DEF Entry
  <2>4. DOMAIN image.dyn = 1 .. Len(image.dyn) /\ Len(image.dyn) \in Nat
        /\ \A d \in DOMAIN image.dyn : image.dyn[d] \in Entry
    BY <2>1
  <2>5. \A d \in DOMAIN image.dyn : dyn[d] \in Entry /\ dyn[d].val = image.dyn[d].val
    BY <2>4, <2>3
  <2>6. dyn \in [1 .. Len(image.dyn) -> Entry]
    BY <2>4, <2>5
  <2> HIDE DEF dyn
  <2>7. dyn \in Seq(Entry) /\ Len(dyn) = Len(image.dyn)
    BY <2>4, <2>6
  <2> QED BY <2>5, <2>7 DEF Entry
<1> HIDE DEF dyn
<1>5. /\ image' \in ImageType /\ image'.dyn = dyn /\ image'.syms = image.syms
      /\ image'.strtab = image.strtab /\ image'.gnu = image.gnu /\ image'.nchain = image.nchain
      /\ image'.room = image.room
  BY <1>1, <1>3, <1>4 DEF ImageType
<1>6. Dynsym(image') = Dynsym(image)
  BY <1>5 DEF Dynsym, DynsymCount
<1>7. phase' = "rename" =>
        rule' \in DOMAIN fgn_renames /\ index' \in Nat /\ index' + 1 \in Dynsym(image')
  <2> SUFFICES ASSUME phase' = "rename"
               PROVE  rule' \in DOMAIN fgn_renames /\ index' \in Nat /\ index' + 1 \in Dynsym(image')
    OBVIOUS
  <2>1. 1 \in DOMAIN fgn_renames
    <3> DEFINE Rule == [from : Seq(Chars), to : Seq(Chars)]
    <3>1. fgn_renames \in Seq(Rule) /\ fgn_renames # <<>>
      BY <1>1, RulesAssumption
    <3> HIDE DEF Rule
    <3> QED BY <3>1
  <2> QED BY <1>1, <1>6, <2>1, FirstIsThere, TypeOf
<1>8. SameImage'
  BY <1>1, <1>4, <1>5, <1>7 DEF SameImage, Place
<1>9. BytesWritten' /\ NamesLeft' /\ PlacesMoved'
  BY <1>1, <1>5 DEF BytesWritten, NamesLeft, PlacesMoved, Place, OldPlace
<1> QED BY <1>8, <1>9 DEF RewriteInv

LEMMA RenameStep ==
  ASSUME RewriteInv, Rename
  PROVE  RewriteInv'
<1> DEFINE k == index + 1
           r == rule
<1>1. /\ SameImage /\ phase = "rename" /\ before' = before /\ image \in ImageType
      /\ before \in Images
      /\ r \in DOMAIN fgn_renames /\ index \in Nat /\ k \in Dynsym(image)
      /\ (before.syms # <<>> => Place(1) = 0)
  BY DEF RewriteInv, SameImage, Rename
<1>2. k \in DOMAIN before.syms /\ k \in DOMAIN image.syms /\ k - 1 = index
      /\ Place(k) \in Nat /\ image.strtab \in Seq(Bytes) /\ DOMAIN image.syms = DOMAIN before.syms
      /\ From(r) \in Seq(Chars) /\ To(r) \in Seq(Chars)
      /\ Len(From(r)) \in Nat /\ Len(To(r)) \in Nat
  <2>1. DynsymCount(image) \in Int
    <3>1. FileOf(image)
      BY <1>1, TypeOf
    <3> QED BY <3>1, CountIsNat
  <2>2. Dynsym(image) \subseteq DOMAIN image.syms
    BY <1>1, <2>1, TypeOf DEF Dynsym
  <2> QED BY <1>1, <2>2, SettingIs, RuleIs
<1> DEFINE Moved == [image EXCEPT !.syms[k].st_name = Place(k) + Len(From(r)) - Len(To(r))]
           Over == [image EXCEPT !.strtab = Overwrite(@, Place(k), To(r))]
<1>3. \/ image' = image
      \/ /\ Wanted(image, k - 1, fgn_renames[r]) /\ IsSuffix(To(r), From(r))
         /\ image' = Moved
      \/ /\ Wanted(image, k - 1, fgn_renames[r]) /\ ~IsSuffix(To(r), From(r))
         /\ ~RangeOccupied(image, Place(k) + 1, Place(k) + Len(From(r)) + 1, Place(k))
         /\ image' = Over
  BY <1>2 DEF Rename, Renamed, Place, From, To
<1>4. ASSUME image' = image
      PROVE  BytesWritten' /\ NamesLeft' /\ PlacesMoved'
  BY <1>1, <1>4 DEF RewriteInv, BytesWritten, NamesLeft, PlacesMoved, Place, OldPlace, Written,
     Victim, Inside, RunsIntoOverwritten
<1>5. BytesWritten' /\ NamesLeft' /\ PlacesMoved'
  BY <1>1, <1>2, <1>3, <1>4, MoveStep, WriteStep
\* The symbols, the table and the rest keep their sizes.
<1>6. /\ image' \in ImageType /\ Len(image'.syms) = Len(image.syms)
      /\ Len(image'.strtab) = Len(image.strtab) /\ image'.dyn = image.dyn
      /\ image'.gnu = image.gnu /\ image'.nchain = image.nchain /\ image'.room = image.room
      /\ \A i \in DOMAIN image.syms : image'.syms[i].defined = image.syms[i].defined
      /\ Place(1) = 0 => image'.syms[1].st_name = 0
  <2>1. CASE image' = image
    BY <1>1, <2>1 DEF Place
  <2>2. CASE Wanted(image, k - 1, fgn_renames[r]) /\ image' = Moved /\ IsSuffix(To(r), From(r))
    <3> DEFINE Sym == [st_name : Nat, defined : BOOLEAN]
               at == Place(k) + Len(From(r)) - Len(To(r))
               syms == [image.syms EXCEPT ![k] = [image.syms[k] EXCEPT !.st_name = at]]
    <3>1. at \in Nat
      BY <1>2, <2>2 DEF IsSuffix
    <3> HIDE DEF at
    <3>2. image.syms \in Seq(Sym)
      BY <1>1, TypeOf
    <3>3. ASSUME NEW s \in Sym
           PROVE  [s EXCEPT !.st_name = at] \in Sym /\ [s EXCEPT !.st_name = at].defined = s.defined
                  /\ [s EXCEPT !.st_name = at].st_name = at
      BY <3>1
    <3> HIDE DEF Sym
    <3>4. /\ Len(image.syms) \in Nat /\ DOMAIN image.syms = 1 .. Len(image.syms)
          /\ \A i \in DOMAIN image.syms : image.syms[i] \in Sym
      BY <3>2
    <3>5. [image.syms[k] EXCEPT !.st_name = at] \in Sym
          /\ [image.syms[k] EXCEPT !.st_name = at].defined = image.syms[k].defined
      BY <1>2, <3>4, <3>3
    <3>6. syms \in [1 .. Len(image.syms) -> Sym]
      BY <3>4, <3>5
    <3>7. syms \in Seq(Sym) /\ Len(syms) = Len(image.syms)
      <4> HIDE DEF syms
      <4> QED BY <3>4, <3>6
    <3>8. \A i \in DOMAIN image.syms :
            syms[i] = IF i = k THEN [image.syms[k] EXCEPT !.st_name = at] ELSE image.syms[i]
      BY <3>4
    <3>9. \A i \in DOMAIN image.syms : syms[i].defined = image.syms[i].defined
      BY <3>5, <3>8
    <3>10. Place(1) = 0 => syms[1].st_name = 0
      <4>1. Place(k) # 0
        BY <1>1, <1>2, <2>2, WantedIs DEF Place
      <4>2. Place(1) = 0 => k # 1
        BY <4>1
      <4>3. k \in 1 .. Len(image.syms) /\ 1 \in DOMAIN image.syms
        BY <1>2, <3>4
      <4> QED BY <3>8, <4>2, <4>3 DEF Place
    <3>11. image' = [image EXCEPT !.syms = syms]
      BY <2>2 DEF at
    <3> HIDE DEF syms
    <3>12. /\ image' \in ImageType /\ image'.syms = syms
          /\ image'.strtab = image.strtab /\ image'.dyn = image.dyn
          /\ image'.gnu = image.gnu /\ image'.nchain = image.nchain /\ image'.room = image.room
      BY <1>1, <3>7, <3>11 DEF ImageType, Sym
    <3> QED BY <3>7, <3>9, <3>10, <3>12
  <2>3. CASE Wanted(image, k - 1, fgn_renames[r]) /\ image' = Over
    <3> DEFINE tab == Overwrite(image.strtab, Place(k), To(r))
    <3>1. tab \in Seq(Bytes) /\ Len(tab) = Len(image.strtab)
      <4>1. Holds(image.strtab, Place(k), From(r)) /\ Len(To(r)) <= Len(From(r))
        BY <1>1, <1>2, <2>3, WantedIs DEF Place
      <4> QED BY <1>2, <4>1, OverwriteIs
    <3>2. image' = [image EXCEPT !.strtab = tab]
      BY <2>3
    <3> HIDE DEF tab
    <3>3. tab \in Seq(Chars \cup {Nul})
      BY <3>1 DEF Bytes
    <3>4. /\ image' \in ImageType /\ image'.strtab = tab
          /\ image'.syms = image.syms /\ image'.dyn = image.dyn
          /\ image'.gnu = image.gnu /\ image'.nchain = image.nchain /\ image'.room = image.room
      BY <1>1, <3>2, <3>3 DEF ImageType
    <3> QED BY <3>1, <3>4 DEF Place
  <2> QED BY <1>3, <2>1, <2>2, <2>3
<1>7. Dynsym(image') = Dynsym(image)
  BY <1>6 DEF Dynsym, DynsymCount
<1>8. /\ phase' \notin {"parse", "strip"}
      /\ phase' = "rename" =>
           rule' \in DOMAIN fgn_renames /\ index' \in Nat /\ index' + 1 \in Dynsym(image')
  <2>1. CASE index + 1 \in Dynsym(image) /\ index + 2 \in Dynsym(image)
    <3>1. index' = index + 1 /\ rule' = rule /\ phase' = phase
      BY <2>1 DEF Rename
    <3> QED BY <1>1, <1>7, <2>1, <3>1
  <2>2. CASE ~(index + 1 \in Dynsym(image) /\ index + 2 \in Dynsym(image))
    <3>1. index' = 0 /\ rule' = rule + 1
          /\ phase' = IF rule = Len(fgn_renames) THEN "done" ELSE "rename"
      BY <2>2 DEF Rename
    <3>2. rule # Len(fgn_renames) => rule + 1 \in DOMAIN fgn_renames
      <4> DEFINE Rule == [from : Seq(Chars), to : Seq(Chars)]
      <4>1. fgn_renames \in Seq(Rule)
        BY RulesAssumption
      <4> HIDE DEF Rule
      <4> QED BY <1>1, <4>1
    <3>3. 0 + 1 \in Dynsym(image)
      BY <1>1, FirstIsThere, TypeOf
    <3> QED BY <1>7, <3>1, <3>2, <3>3
  <2> QED BY <2>1, <2>2
<1>9. SameImage'
  <2>1. \A i \in DOMAIN before.syms : image'.syms[i].defined = before.syms[i].defined
    BY <1>1, <1>2, <1>6 DEF SameImage
  <2> QED BY <1>1, <1>6, <1>8, <2>1 DEF SameImage, Place
<1> QED BY <1>5, <1>9 DEF RewriteInv

\* Through every turn of fgn_apply_renames's loops, moved and overwritten strings keep
\* out of each other's way, and all else is as the linker wrote it.
THEOREM RewriteInvariant == RewriteSpec => []RewriteInv
<1>1. RewriteInit => RewriteInv
  BY RewriteStarts
<1>2. RewriteInv /\ [RewriteNext]_rewriteVars => RewriteInv'
  <2> SUFFICES ASSUME RewriteInv, [RewriteNext]_rewriteVars PROVE RewriteInv'
    OBVIOUS
  <2>1. CASE UNCHANGED rewriteVars
    BY <2>1 DEF rewriteVars, RewriteInv, SameImage, BytesWritten, NamesLeft, PlacesMoved, Place,
       OldPlace, Written, Victim, Inside, RunsIntoOverwritten
  <2> QED BY <2>1, ParseStep, StripStep, RenameStep DEF RewriteNext
<1> QED BY <1>1, <1>2, PTL DEF RewriteSpec

\* What changes a name is one that was written over, and it lies after the name's
\* beginning unless something has come to point inside it.
LEMMA KeptOrRunsOn ==
  ASSUME RewriteInv, NEW ref \in Refs(image), Offset(image, ref) \in Nat,
         ValidCstr(before.strtab, Offset(image, ref))
  PROVE  LET u == Offset(image, ref)
         IN  \/ Str(image.strtab, u) = Str(before.strtab, u)
             \/ \E i \in DOMAIN before.syms, r \in DOMAIN fgn_renames :
                  /\ Written(i, r)
                  /\ OldPlace(i) \in u .. u + Len(Str(before.strtab, u)) - 1
             \/ /\ ref[1] = "symbol" /\ Place(ref[2]) # OldPlace(ref[2])
                /\ ValidCstr(before.strtab, OldPlace(ref[2])) => RunsIntoOverwritten(ref)
<1> DEFINE u == Offset(image, ref)
           s == Str(before.strtab, u)
<1>1. SameImage /\ BytesWritten /\ u \in Nat /\ ValidCstr(before.strtab, u)
  BY DEF RewriteInv
<1>2. Len(s) \in Nat
  BY <1>1, SettingIs, StrHolds
<1>3. CASE \E i \in DOMAIN before.syms, r \in DOMAIN fgn_renames :
             Written(i, r) /\ \E q \in u + 1 .. u + Len(s) : q \in Inside(i, r)
  <2>1. PICK i \in DOMAIN before.syms, r \in DOMAIN fgn_renames, q \in u + 1 .. u + Len(s) :
             Written(i, r) /\ q \in Inside(i, r)
    BY <1>3
  <2>2. OldPlace(i) \in Nat /\ Len(From(r)) \in Nat
    BY <1>1, SettingIs, RuleIs
  <2>3. CASE u \in Inside(i, r)
    BY <2>1, <2>3 DEF Written
  <2>4. CASE u \notin Inside(i, r)
    <3>1. OldPlace(i) \in u .. u + Len(s) - 1
      <4> HIDE DEF u, s
      <4> QED BY <1>1, <1>2, <2>1, <2>2, <2>4 DEF Inside
    <3> QED BY <2>1, <3>1
  <2> QED BY <2>3, <2>4
<1> QED BY <1>1, <1>3, NameIsOrWritten

LEMMA InvKeepsNames == RewriteInv => OtherNamesKept
<1> SUFFICES ASSUME RewriteInv, NEW ref \in Refs(image), ValidCstr(before.strtab, Offset(before, ref))
             PROVE  \/ NameAt(image, ref) = NameAt(before, ref)
                    \/ \E r \in DOMAIN fgn_renames :
                         /\ ref[1] = "symbol" /\ Wanted(before, ref[2] - 1, fgn_renames[r])
                         /\ NameAt(image, ref) = To(r)
                    \/ RunsIntoOverwritten(ref)
  BY DEF OtherNamesKept, To
<1> DEFINE u == Offset(image, ref)
           o == Offset(before, ref)
<1>1. /\ SameImage /\ BytesWritten /\ PlacesMoved /\ before \in ImageType /\ image \in ImageType
      /\ DOMAIN image.syms = DOMAIN before.syms /\ before.strtab \in Seq(Bytes)
  BY SettingIs DEF RewriteInv, SameImage
\* A string that is written over and that a name at its old place runs into.
<1>2. ASSUME NEW i \in DOMAIN before.syms, NEW r \in DOMAIN fgn_renames, Written(i, r),
             ref # <<"symbol", i>>, OldPlace(i) \in o .. o + Len(Str(before.strtab, o)) - 1
      PROVE  RunsIntoOverwritten(ref)
  BY <1>2 DEF Written, Victim, RunsIntoOverwritten, NameAt, OldPlace, To, From
<1>3. CASE u = o /\ u \in Nat /\ (ref[1] = "symbol" => Place(ref[2]) = OldPlace(ref[2]))
  <2>1. CASE Str(image.strtab, u) = Str(before.strtab, u)
    BY <1>3, <2>1 DEF NameAt
  <2>2. CASE \E i \in DOMAIN before.syms, r \in DOMAIN fgn_renames :
               Written(i, r) /\ OldPlace(i) \in u .. u + Len(Str(before.strtab, u)) - 1
    <3>1. PICK i \in DOMAIN before.syms, r \in DOMAIN fgn_renames :
               Written(i, r) /\ OldPlace(i) \in u .. u + Len(Str(before.strtab, u)) - 1
      BY <2>2
    <3>2. CASE ref # <<"symbol", i>>
      BY <1>2, <1>3, <3>1, <3>2
    <3>3. CASE ref = <<"symbol", i>>
      <4>1. /\ Victim(i, r) /\ Place(i) = OldPlace(i) /\ Str(image.strtab, OldPlace(i)) = To(r)
        BY <3>1 DEF Written
      <4>2. ref[1] = "symbol" /\ ref[2] = i /\ u = Place(i)
        BY <3>3 DEF Offset, Place
      <4> QED BY <4>1, <4>2 DEF NameAt, Victim
    <3> QED BY <3>2, <3>3
  <2> QED BY <1>3, <2>1, <2>2, KeptOrRunsOn
<1>4. CASE \E k \in DOMAIN before.syms : ref = <<"symbol", k>>
  <2>1. PICK k \in DOMAIN before.syms : ref = <<"symbol", k>>
    BY <1>4
  <2>2. /\ ref[1] = "symbol" /\ ref[2] = k /\ u = Place(k) /\ o = OldPlace(k)
        /\ Place(k) \in Nat /\ OldPlace(k) \in Nat
    BY <1>1, <2>1, SettingIs DEF Offset, Place, OldPlace
  <2>3. CASE Place(k) = OldPlace(k)
    BY <1>3, <2>2, <2>3
  <2>4. CASE Place(k) # OldPlace(k)
    <3>1. CASE RunsIntoOverwritten(ref)
      BY <3>1
    <3>2. CASE \E r \in DOMAIN fgn_renames :
                 /\ IsSuffix(To(r), From(r)) /\ Wanted(before, k - 1, fgn_renames[r])
                 /\ Place(k) = OldPlace(k) + Len(From(r)) - Len(To(r))
      <4>1. PICK r \in DOMAIN fgn_renames :
                 /\ IsSuffix(To(r), From(r)) /\ Wanted(before, k - 1, fgn_renames[r])
                 /\ Place(k) = OldPlace(k) + Len(From(r)) - Len(To(r))
        BY <3>2
      <4>2. /\ Holds(before.strtab, OldPlace(k), From(r)) /\ Str(before.strtab, OldPlace(k)) = From(r)
            /\ ValidCstr(before.strtab, OldPlace(k))
        BY <1>1, <4>1, WantedIs DEF OldPlace
      <4>3. /\ From(r) \in Seq(Chars) /\ To(r) \in Seq(Chars)
            /\ Len(From(r)) \in Nat /\ Len(To(r)) \in Nat /\ Len(To(r)) <= Len(From(r))
        BY <4>1, RuleIs DEF IsSuffix
      <4>4. Holds(before.strtab, Place(k), To(r))
        BY <1>1, <2>2, <4>1, <4>2, <4>3, SuffixHolds
      <4>5. ValidCstr(before.strtab, u) /\ Str(before.strtab, u) = To(r)
        BY <1>1, <2>2, <4>3, <4>4, HoldsIsStr
      <4>6. CASE Str(image.strtab, u) = Str(before.strtab, u)
        BY <2>2, <4>1, <4>5, <4>6 DEF NameAt
      <4>7. CASE \E i \in DOMAIN before.syms, q \in DOMAIN fgn_renames :
                   Written(i, q) /\ OldPlace(i) \in u .. u + Len(To(r)) - 1
        <5>1. PICK i \in DOMAIN before.syms, q \in DOMAIN fgn_renames :
                   Written(i, q) /\ OldPlace(i) \in u .. u + Len(To(r)) - 1
          BY <4>7
        <5>2. i # k
          BY <2>4, <5>1 DEF Written
        <5>3. OldPlace(i) \in OldPlace(k) .. OldPlace(k) + Len(From(r)) - 1
          <6>1. OldPlace(i) \in Place(k) .. Place(k) + Len(To(r)) - 1 /\ OldPlace(i) \in Nat
            BY <1>1, <2>2, <5>1, SettingIs
          <6> QED BY <2>2, <4>1, <4>3, <6>1
        <5> QED BY <1>2, <2>1, <2>2, <4>2, <5>1, <5>2, <5>3
      <4>8. CASE ValidCstr(before.strtab, OldPlace(ref[2])) => RunsIntoOverwritten(ref)
        BY <2>2, <4>2, <4>8
      <4> QED BY <2>2, <4>5, <4>6, <4>7, <4>8, KeptOrRunsOn
    <3> QED BY <1>1, <2>1, <2>4, <3>1, <3>2 DEF PlacesMoved
  <2> QED BY <2>3, <2>4
<1>5. CASE \E d \in DOMAIN image.dyn : ref = <<"dynamic", d>>
  <2>1. PICK d \in DOMAIN image.dyn : ref = <<"dynamic", d>>
    BY <1>5
  <2>2. u = image.dyn[d].val /\ o = before.dyn[d].val /\ ref[1] # "symbol"
    BY <2>1 DEF Offset
  <2>3. image.dyn[d].val = before.dyn[d].val /\ image.dyn[d].val \in Nat
    <3> DEFINE Entry == [tag : VersionTags \cup NameTags \cup {"NEUTRAL"}, val : Nat, musl : BOOLEAN]
    <3>1. image.dyn \in Seq(Entry) /\ before.dyn \in Seq(Entry)
      BY <1>1 DEF ImageType
    <3>2. \A e \in Entry : e.val \in Nat
      OBVIOUS
    <3> HIDE DEF Entry
    <3>3. image.dyn[d] \in Entry /\ DOMAIN image.dyn = 1 .. Len(image.dyn)
          /\ DOMAIN before.dyn = 1 .. Len(before.dyn)
      BY <3>1
    <3>4. d \in DOMAIN before.dyn
      BY <1>1, <3>3 DEF SameImage
    <3> QED BY <1>1, <3>2, <3>3, <3>4 DEF SameImage
  <2> QED BY <1>3, <2>2, <2>3
<1>6. CASE \E v \in image.verrefs : ref = <<"version", v>>
  <2>1. PICK v \in image.verrefs : ref = <<"version", v>>
    BY <1>6
  <2>2. u = v /\ o = v /\ ref[1] # "symbol" /\ v \in Nat
    BY <1>1, <2>1 DEF Offset, ImageType
  <2> QED BY <1>3, <2>2
<1>7. (\E k \in DOMAIN before.syms : ref = <<"symbol", k>>)
      \/ (\E d \in DOMAIN image.dyn : ref = <<"dynamic", d>>)
      \/ (\E v \in image.verrefs : ref = <<"version", v>>)
  BY <1>1 DEF Refs
<1> QED BY <1>4, <1>5, <1>6, <1>7

\* "Used to refuse an unsafe in-place .dynstr write": on every image, whatever strings
\* share their bytes and whatever is renamed, no name but those in the table changes,
\* except one that begins at or before an overwritten string and runs into it.
THEOREM RewriteKeepsOtherNames == RewriteSpec => []OtherNamesKept
BY RewriteInvariant, InvKeepsNames, PTL

LEMMA InvSeesSymbols == RewriteInv => SymbolsAllSeen
<1> SUFFICES ASSUME RewriteInv, ~(before.nchain = 0 /\ before.gnu.starts = {}),
                    ~(before.nchain = 0 /\ ~\E i \in DOMAIN before.syms : before.syms[i].defined)
             PROVE  \/ DynsymCount(before) = Len(before.syms)
                    \/ DynsymCount(before) = 0 /\ before.room < Len(before.syms)
  <2>1. DynsymCount(before) = 0 \/ before.nchain # 0 \/ before.gnu.starts # {}
    BY DEF DynsymCount
  <2> QED BY <2>1 DEF SymbolsAllSeen
<1>1. FileOf(before) /\ HashTables(before)
  BY SettingIs, TypeOf DEF RewriteInv
<1>2. DynsymCount(before) = IF Len(before.syms) <= before.room THEN Len(before.syms) ELSE 0
  BY <1>1, SymbolsAreCounted
<1>3. before.room \in Nat /\ Len(before.syms) \in Nat
  BY <1>1 DEF FileOf
<1> QED BY <1>2, <1>3

\* fgn_locate_dynsym counts the symbols, from the hash table of any linker, of every
\* image that hashes a symbol and whose symbols are in the file.
THEOREM RewriteSeesEverySymbol == RewriteSpec => []SymbolsAllSeen
BY RewriteInvariant, InvSeesSymbols, PTL

------------------------------------------------------------------------------
(* The forwarders.                                                            *)

Pcs == {"resolve", "read", "lookup", "store"}
VersionNames == {NoName} \cup UNION {{f.verdef[d].name : d \in DOMAIN f.verdef} : f \in Libcs}
Frames == [sym : Symbols, pc : Pcs, ver : VersionNames, p : {Null} \cup Nat, asked : BOOLEAN]

\* What a thread is in: nothing, one resolution, or one inside the reading of another.
StackOf(t) ==
  /\ calls[t] \in Seq(Frames)
  /\ Depth(t) <= 2
  /\ Depth(t) = 2 => calls[t][1].pc = "read" /\ calls[t][2].pc # "read"
  /\ busy[t] <=> Depth(t) > 0 /\ calls[t][1].pc = "read"

\* What a resolution of a name may answer, and what it does without re-entry.
MayAnswer(s, p) == p \in Nat /\ p \in {Default(s), Unversioned(s, FALSE)}
Answers(s, p) == MayAnswer(s, p) /\ (Legible => p = Default(s))

\* The version that fgn_default_version_of finds.
VersionOf(s) == IF Dlsym(s) = Null THEN NoName ELSE DefaultVersion(libc, s)

FrameOf(t, i) ==
  LET f == calls[t][i]
  IN  /\ i = 2 => f.sym \in nested
      /\ f.pc = "resolve" => f.ver = NoName
      /\ f.pc = "lookup" => f.ver = VersionOf(f.sym) \/ (i = 2 /\ f.ver = NoName)
      /\ f.pc = "store" => MayAnswer(f.sym, f.p) /\ (i = 1 => Answers(f.sym, f.p))

SlotOf(s) ==
  slot[s] # Null => MayAnswer(s, slot[s]) /\ (s \notin nested => Answers(s, slot[s]))

CompatInv ==
  /\ libc \in Libcs /\ aborted \in BOOLEAN /\ nested \subseteq Symbols
  /\ slot \in [Symbols -> {Null} \cup Nat]
  /\ calls \in [Threads -> Seq(Frames)] /\ busy \in [Threads -> BOOLEAN]
  /\ \A t \in Threads : StackOf(t)
  /\ ~aborted => \A t \in Threads : \A i \in 1 .. Depth(t) : FrameOf(t, i)
  /\ aborted => \E s \in Symbols : Definitions(s) = {}
  /\ \A s \in Symbols : SlotOf(s)

------------------------------------------------------------------------------
\* The definition that an unversioned reference should reach is the one that is shown.
LEMMA DefaultIs ==
  ASSUME libc \in Libcs, NEW s \in Symbols
  PROVE /\ Definitions(s) \subseteq Nat
        /\ \A i \in Definitions(s) : ~libc.syms[i].hidden => Default(s) = i
        /\ Definitions(s) # {} =>
             Default(s) \in Definitions(s) /\ ~libc.syms[Default(s)].hidden
<1>1. Versioned(libc, s) /\ DOMAIN libc.syms = 1 .. Len(libc.syms) /\ Len(libc.syms) \in Nat
  BY LibcsAssumption
<1>2. Definitions(s) \subseteq Nat BY <1>1 DEF Definitions, Defined
<1>3. \A i, j \in Definitions(s) : ~libc.syms[i].hidden /\ ~libc.syms[j].hidden => i = j
  BY <1>1 DEF Versioned, Definitions
<1>4. Definitions(s) # {} => \E i \in Definitions(s) : ~libc.syms[i].hidden
  BY <1>1 DEF Versioned, Definitions
<1> QED BY <1>2, <1>3, <1>4 DEF Default

\* ld.so's lookup without a version, of either kind, finds a definition that NeverWorse
\* allows, if there is one.
LEMMA UnversionedIs ==
  ASSUME libc \in Libcs, NEW s \in Symbols, NEW n
  PROVE /\ Unversioned(s, n) = Null => Definitions(s) = {}
        /\ Unversioned(s, n) # Null => MayAnswer(s, Unversioned(s, n))
        /\ Definitions(s) # {} /\ libc.syms[Default(s)].ndx <= 1 =>
             Unversioned(s, n) = Default(s)
<1> DEFINE base(k) == {i \in Definitions(s) : libc.syms[i].ndx < k}
           shown == {i \in Definitions(s) : ~libc.syms[i].hidden}
<1>1. \A i, j \in Definitions(s) : libc.syms[i].ndx < 3 /\ libc.syms[j].ndx < 3 => i = j
  BY LibcsAssumption DEF Versioned, Definitions
<1>2. Definitions(s) \subseteq Nat /\ \A i \in Definitions(s) : libc.syms[i].ndx \in Nat
  BY DefaultIs, LibcsAssumption DEF Definitions, Defined
<1>3. \A i \in shown : i = Default(s) BY DefaultIs
<1>4. shown # {} => Min(shown) = Default(s) /\ Default(s) \in Nat
  <2>1. shown \in SUBSET Nat BY <1>2
  <2>2. shown # {} => Min(shown) \in shown
    <3> HIDE DEF shown
    <3> QED BY <2>1, MinIn
  <2> QED BY <1>2, <1>3, <2>2
<1>5. ASSUME NEW k \in {2, 3}, base(k) # {}
      PROVE Min(base(k)) \in base(k) /\ Min(base(k)) \in Nat /\ Min(base(k)) = Min(base(3))
  <2>1. \A S \in {base(2), base(3)} : S # {} => Min(S) \in S
    <3>1. base(2) \in SUBSET Nat /\ base(3) \in SUBSET Nat BY <1>2
    <3> HIDE DEF base
    <3> QED BY <3>1, MinIn
  <2>2. base(k) \subseteq base(3) /\ k \in {2, 3} BY <1>2
  <2>3. Min(base(k)) \in base(k) BY <1>5, <2>1
  <2>4. Min(base(3)) \in base(3) BY <1>5, <2>1, <2>2
  <2>5. \A i, j \in base(3) : i = j BY <1>1
  <2>6. Min(base(k)) \in base(3) BY <2>2, <2>3
  <2> HIDE DEF base
  <2>7. Min(base(k)) = Min(base(3)) BY <2>4, <2>5, <2>6
  <2> USE DEF base
  <2> QED BY <1>2, <2>3, <2>7
<1>6. \E k \in {2, 3} : k = IF n THEN 2 ELSE 3 OBVIOUS
<1>7. PICK k \in {2, 3} : k = IF n THEN 2 ELSE 3 BY <1>6
<1>8. Unversioned(s, n)
        = IF base(k) # {} THEN Min(base(k)) ELSE IF shown # {} THEN Min(shown) ELSE Null
  BY <1>7 DEF Unversioned
<1>9. Unversioned(s, FALSE)
        = IF base(3) # {} THEN Min(base(3)) ELSE IF shown # {} THEN Min(shown) ELSE Null
  BY DEF Unversioned
<1>10. Definitions(s) # {} => Default(s) \in shown BY DefaultIs
<1>11. base(k) # {} => base(3) # {} BY <1>2
<1>12. Unversioned(s, n) = Null => Definitions(s) = {}
  BY <1>4, <1>5, <1>8, <1>10, NamesAssumption
<1>13. Unversioned(s, n) # Null => MayAnswer(s, Unversioned(s, n))
  <2> HIDE DEF base, shown
  <2> QED BY <1>4, <1>5, <1>8, <1>9, <1>11 DEF MayAnswer
<1>14. ASSUME Definitions(s) # {}, libc.syms[Default(s)].ndx <= 1
       PROVE Unversioned(s, n) = Default(s)
  <2>1. Default(s) \in Definitions(s) BY <1>14, DefaultIs
  <2>2. libc.syms[Default(s)].ndx < k /\ libc.syms[Default(s)].ndx < 3 BY <1>2, <1>14, <2>1
  <2>3. Default(s) \in base(k) BY <2>1, <2>2
  <2>4. Min(base(k)) \in base(k) BY <1>5, <2>3
  <2>5. Min(base(k)) = Default(s)
    <3>1. \A i \in base(k) : i \in Definitions(s) /\ libc.syms[i].ndx < 3 BY <1>2
    <3>2. Min(base(k)) \in Definitions(s) /\ libc.syms[Min(base(k))].ndx < 3
      <4> HIDE DEF base
      <4> QED BY <2>4, <3>1
    <3> HIDE DEF base
    <3> QED BY <1>1, <2>1, <2>2, <3>2
  <2> QED BY <1>8, <2>3, <2>5
<1> QED BY <1>12, <1>13, <1>14

\* What fgn_verdef_name finds is a name that the file gives the index.
LEMMA VerdefNameIs ==
  ASSUME NEW f \in Libcs, NEW ndx, VerdefName(f, ndx) # NoName
  PROVE \E d \in DOMAIN f.verdef :
          f.verdef[d].ndx = ndx /\ f.verdef[d].name = VerdefName(f, ndx)
<1> DEFINE hits == {i \in Verdefs(f) : f.verdef[i].ndx = ndx}
<1>1. hits # {} /\ VerdefName(f, ndx) = f.verdef[Min(hits)].name BY DEF VerdefName
<1>2. hits \in SUBSET Nat /\ hits \subseteq DOMAIN f.verdef
  BY LibcsAssumption DEF Verdefs
<1>3. Min(hits) \in hits
  <2> HIDE DEF hits
  <2> QED BY <1>1, <1>2, MinIn
<1> QED BY <1>1, <1>2, <1>3

\* Its loop stops at the definition that is not hidden, if it reaches it.
LEMMA DefaultVersionIs ==
  ASSUME libc \in Libcs, NEW s \in Symbols
  PROVE /\ DefaultVersion(libc, s) # NoName =>
             /\ Definitions(s) # {}
             /\ DefaultVersion(libc, s) = VerdefName(libc, libc.syms[Default(s)].ndx)
        /\ Legible /\ Definitions(s) # {} /\ DefaultVersion(libc, s) = NoName =>
             \/ libc.syms[Default(s)].ndx <= 1
             \/ VerdefName(libc, libc.syms[Default(s)].ndx) = NoName
<1> DEFINE hits == {i \in Dynsym(libc) : /\ libc.syms[i].defined /\ libc.syms[i].name = s
                                        /\ ~libc.syms[i].hidden}
<1>1. DOMAIN libc.syms = 1 .. Len(libc.syms) /\ Len(libc.syms) \in Nat
      /\ FileOf(libc) /\ Hashed(libc)
  BY LibcsAssumption DEF FileOf
<1>2. /\ Dynsym(libc) \subseteq DOMAIN libc.syms
      /\ Len(libc.syms) <= libc.room => Dynsym(libc) = DOMAIN libc.syms
  <2>1. DynsymCount(libc) = IF Len(libc.syms) <= libc.room THEN Len(libc.syms) ELSE 0
    BY <1>1, SymbolsAreCounted DEF Hashed
  <2> QED BY <1>1, <2>1 DEF Dynsym
<1>3. \A i \in hits : i \in Definitions(s) /\ i = Default(s)
  BY <1>2, DefaultIs DEF Definitions, Defined
<1>4. hits # {} => hits = {Default(s)} /\ Default(s) \in Nat /\ Definitions(s) # {}
  BY <1>3, DefaultIs
<1>5. hits # {} => Min(hits) = Default(s)
  <2>1. hits # {} => hits \in SUBSET Nat BY <1>4
  <2>2. hits # {} => Min(hits) \in hits
    <3> HIDE DEF hits
    <3> QED BY <2>1, MinIn
  <2> QED BY <1>3, <2>2
<1>6. DefaultVersion(libc, s)
        = IF ~Parses(libc) \/ ~libc.versym \/ hits = {} \/ libc.syms[Min(hits)].ndx <= 1
            THEN NoName ELSE VerdefName(libc, libc.syms[Min(hits)].ndx)
  BY DEF DefaultVersion
<1>7. Legible /\ Definitions(s) # {} => Parses(libc) /\ libc.versym /\ hits # {}
  BY <1>2, DefaultIs DEF Legible, Parses, Definitions, Defined
<1> HIDE DEF hits
<1> QED BY <1>4, <1>5, <1>6, <1>7

\* A version that is found leads dlvsym to the default definition.
LEMMA VersionedIs ==
  ASSUME libc \in Libcs, NEW s \in Symbols, NEW v, v = DefaultVersion(libc, s), v # NoName
  PROVE Dlvsym(s, v) = Default(s) /\ Default(s) \in Nat
<1> DEFINE hits == {i \in Definitions(s) : \E d \in DOMAIN libc.verdef :
                      libc.verdef[d].ndx = libc.syms[i].ndx /\ libc.verdef[d].name = v}
<1>1. Definitions(s) # {} /\ v = VerdefName(libc, libc.syms[Default(s)].ndx)
  BY DefaultVersionIs
<1>2. Default(s) \in Definitions(s) /\ Definitions(s) \subseteq Nat BY <1>1, DefaultIs
<1>3. PICK d \in DOMAIN libc.verdef :
        libc.verdef[d].ndx = libc.syms[Default(s)].ndx /\ libc.verdef[d].name = v
  BY <1>1, VerdefNameIs
<1>4. ASSUME NEW i \in hits PROVE i = Default(s)
  <2>1. PICK e \in DOMAIN libc.verdef :
          libc.verdef[e].ndx = libc.syms[i].ndx /\ libc.verdef[e].name = v
    BY <1>4
  <2>2. libc.verdef[e].ndx = libc.verdef[d].ndx
    BY <1>3, <2>1, LibcsAssumption DEF NamedOnce
  <2>3. libc.syms[i].ndx = libc.syms[Default(s)].ndx BY <1>3, <2>1, <2>2
  <2> QED BY <1>2, <1>4, <2>3, LibcsAssumption DEF Versioned, Definitions
<1>5. Default(s) \in hits BY <1>2, <1>3
<1>6. Min(hits) \in hits
  <2>1. hits \in SUBSET Nat BY <1>2
  <2> HIDE DEF hits
  <2> QED BY <1>5, <2>1, MinIn
<1>7. Dlvsym(s, v) = Min(hits) BY <1>5 DEF Dlvsym
<1> QED BY <1>2, <1>4, <1>6, <1>7

\* A file whose tables are whole names the default's version, unless it has none.
LEMMA LegibleNames ==
  ASSUME libc \in Libcs, NEW s \in Symbols, Legible, Definitions(s) # {},
         DefaultVersion(libc, s) = NoName
  PROVE libc.syms[Default(s)].ndx <= 1
<1> SUFFICES ASSUME ~(libc.syms[Default(s)].ndx <= 1) PROVE FALSE OBVIOUS
<1> DEFINE ndx == libc.syms[Default(s)].ndx
           hits == {i \in Verdefs(libc) : libc.verdef[i].ndx = ndx}
<1>1. VerdefName(libc, ndx) = NoName BY DefaultVersionIs
<1>2. Default(s) \in Definitions(s) BY DefaultIs
<1>3. ndx \in Nat /\ ndx > 1 BY <1>2, LibcsAssumption DEF Definitions, Defined
<1>4. PICK d \in DOMAIN libc.verdef : libc.verdef[d].ndx = ndx
  BY <1>2, <1>3, LibcsAssumption DEF Versioned, Definitions
<1>5. \A i \in DOMAIN libc.verdef : libc.verdef[i].whole /\ libc.verdef[i].name # NoName
  BY DEF Legible
<1>6. DOMAIN libc.verdef = 1 .. Len(libc.verdef) /\ Len(libc.verdef) \in Nat
  BY LibcsAssumption
<1>7. d \in Verdefs(libc) BY <1>4, <1>5, <1>6 DEF Verdefs
<1>8. d \in hits /\ hits \in SUBSET Nat BY <1>4, <1>6, <1>7 DEF Verdefs
<1>9. Min(hits) \in hits
  <2> HIDE DEF hits
  <2> QED BY <1>8, MinIn
<1>10. Min(hits) \in DOMAIN libc.verdef BY <1>9 DEF Verdefs
<1>11. VerdefName(libc, ndx) = libc.verdef[Min(hits)].name BY <1>8 DEF VerdefName
<1> QED BY <1>1, <1>5, <1>10, <1>11

\* What vc_resolve's two lookups answer: with the file's version, and without one.
LEMMA LookupIs ==
  ASSUME libc \in Libcs, NEW s \in Symbols, NEW v \in {NoName, VersionOf(s)},
         NEW versioned, versioned = IF v = NoName THEN Null ELSE Dlvsym(s, v),
         NEW p, p = IF versioned # Null THEN versioned ELSE Dlsym(s)
  PROVE /\ p = Null => Definitions(s) = {}
        /\ p # Null => MayAnswer(s, p) /\ (v = VersionOf(s) => Answers(s, p))
<1>1. CASE v = NoName
  <2>1. p = Dlsym(s) BY <1>1
  <2>2. /\ p = Null => Definitions(s) = {}
        /\ p # Null => MayAnswer(s, p)
    BY <2>1, UnversionedIs DEF Dlsym
  <2>3. ASSUME p # Null, v = VersionOf(s), Legible PROVE p = Default(s)
    <3>1. DefaultVersion(libc, s) = NoName BY <1>1, <2>1, <2>3 DEF VersionOf
    <3>2. CASE Definitions(s) = {}
      <4>1. Unversioned(s, libc.newest) = Null BY <3>2 DEF Unversioned
      <4> QED BY <2>1, <2>3, <4>1 DEF Dlsym
    <3>3. CASE Definitions(s) # {}
      <4>1. libc.syms[Default(s)].ndx <= 1 BY <2>3, <3>1, <3>3, LegibleNames
      <4> QED BY <2>1, <3>3, <4>1, UnversionedIs DEF Dlsym
    <3> QED BY <3>2, <3>3
  <2> QED BY <2>2, <2>3 DEF Answers
<1>2. CASE v # NoName
  <2>1. v = DefaultVersion(libc, s) BY <1>2 DEF VersionOf
  <2>2. Dlvsym(s, v) = Default(s) /\ Default(s) \in Nat BY <1>2, <2>1, VersionedIs
  <2>3. p = Default(s) /\ p # Null BY <1>2, <2>2, NamesAssumption
  <2> QED BY <2>2, <2>3 DEF MayAnswer, Answers
<1> QED BY <1>1, <1>2

------------------------------------------------------------------------------
LEMMA DefaultVersionTypes == libc \in Libcs => \A s : DefaultVersion(libc, s) \in VersionNames
<1> SUFFICES ASSUME libc \in Libcs, NEW s PROVE DefaultVersion(libc, s) \in VersionNames
  OBVIOUS
<1>1. \A ndx : VerdefName(libc, ndx) \in VersionNames BY VerdefNameIs DEF VersionNames
<1> QED BY <1>1 DEF DefaultVersion, VersionNames

\* The innermost resolution of a thread that is in one.
LEMMA TopIs ==
  ASSUME CompatInv, NEW t \in Threads, Depth(t) > 0
  PROVE /\ Depth(t) \in {1, 2} /\ Top(t) = calls[t][Depth(t)] /\ Top(t) \in Frames
        /\ calls[t] \in Seq(Frames) /\ Len(calls[t]) = Depth(t)
        /\ ~aborted => FrameOf(t, Depth(t))
        /\ Top(t).pc = "read" => Depth(t) = 1
<1>1. StackOf(t) /\ calls[t] \in Seq(Frames) BY DEF CompatInv
<1>2. Depth(t) \in {1, 2}
  <2>1. Depth(t) \in Nat /\ Depth(t) <= 2 BY <1>1 DEF StackOf, Depth
  <2> QED BY <2>1
<1>3. Top(t) \in Frames BY <1>1, <1>2 DEF Top, Depth
<1>4. ~aborted => FrameOf(t, Depth(t)) BY <1>2 DEF CompatInv
<1>5. Top(t).pc = "read" => Depth(t) = 1 BY <1>1, <1>2 DEF StackOf, Top
<1> QED BY <1>1, <1>2, <1>3, <1>4, <1>5 DEF Top, Depth

\* What the steps of a resolution have in common: its own frame changes, and no more.
LEMMA SetTopIs ==
  ASSUME CompatInv, NEW t \in Threads, Depth(t) > 0, NEW f \in Frames, SetTop(t, f)
  PROVE /\ calls' \in [Threads -> Seq(Frames)]
        /\ \A u \in Threads \ {t} : calls'[u] = calls[u]
        /\ Depth(t)' = Depth(t)
        /\ \A i \in 1 .. Depth(t) : calls'[t][i] = IF i = Depth(t) THEN f ELSE calls[t][i]
<1>1. /\ Depth(t) \in {1, 2} /\ calls[t] \in Seq(Frames) /\ Len(calls[t]) = Depth(t)
  BY TopIs
<1>2. calls' = [calls EXCEPT ![t] = [calls[t] EXCEPT ![Depth(t)] = f]] BY DEF SetTop
<1>3. calls \in [Threads -> Seq(Frames)] BY DEF CompatInv
<1>4. [calls[t] EXCEPT ![Depth(t)] = f] \in Seq(Frames) BY <1>1
<1>5. calls'[t] = [calls[t] EXCEPT ![Depth(t)] = f] BY <1>2, <1>3
<1> QED BY <1>1, <1>2, <1>3, <1>4, <1>5 DEF Depth

\* And beginning one.
LEMMA AppendIs ==
  ASSUME NEW q \in Seq(Frames), NEW f \in Frames
  PROVE /\ Append(q, f) \in Seq(Frames) /\ Len(Append(q, f)) = Len(q) + 1
        /\ \A i \in 1 .. Len(q) : Append(q, f)[i] = q[i]
        /\ Append(q, f)[Len(q) + 1] = f
OBVIOUS

LEMMA FrameIsFrame == \A s \in Symbols : Frame(s, "resolve", NoName) \in Frames
BY DEF Frame, Frames, Pcs, VersionNames

\* The libc stays, and with it all that is read out of it.
LEMMA LibcStays ==
  ASSUME libc' = libc
  PROVE /\ \A s : Definitions(s)' = Definitions(s) /\ VersionOf(s)' = VersionOf(s)
        /\ \A s, p : (MayAnswer(s, p)' <=> MayAnswer(s, p)) /\ (Answers(s, p)' <=> Answers(s, p))
<1>1. \A s : Definitions(s)' = Definitions(s) BY DEF Definitions
<1>2. \A s, n : Unversioned(s, n)' = Unversioned(s, n) BY <1>1 DEF Unversioned
<1>3. \A s : Default(s)' = Default(s) BY <1>1 DEF Default
<1>4. Legible' <=> Legible BY DEF Legible
<1>5. \A s : VersionOf(s)' = VersionOf(s) BY <1>2 DEF VersionOf, Dlsym
<1> QED BY <1>1, <1>2, <1>3, <1>4, <1>5 DEF MayAnswer, Answers

\* The invariant's parts about one thread stand while its stack and its flag do.
ThreadOf(t) ==
  StackOf(t) /\ (~aborted => \A i \in 1 .. Depth(t) : FrameOf(t, i))

LEMMA OthersStay ==
  ASSUME CompatInv, libc' = libc, aborted' \in BOOLEAN, ~aborted, nested \subseteq nested',
         NEW u \in Threads, calls'[u] = calls[u], busy'[u] = busy[u]
  PROVE ThreadOf(u)'
<1>1. Depth(u)' = Depth(u) BY DEF Depth
<1>2. StackOf(u) /\ \A i \in 1 .. Depth(u) : FrameOf(u, i) BY DEF CompatInv
<1>3. StackOf(u)' BY <1>1, <1>2 DEF StackOf
<1>4. \A i \in 1 .. Depth(u) : FrameOf(u, i)' BY <1>2, LibcStays DEF FrameOf
<1> QED BY <1>1, <1>3, <1>4 DEF ThreadOf

LEMMA SlotsStay ==
  ASSUME CompatInv, libc' = libc, nested \subseteq nested', slot' = slot
  PROVE \A s \in Symbols : SlotOf(s)'
BY LibcStays DEF CompatInv, SlotOf

\* A thread's own step, put together with what it leaves alone.
LEMMA InvFrom ==
  ASSUME CompatInv, ~aborted, aborted' = FALSE, NEW t \in Threads, libc' = libc,
         nested \subseteq nested', nested' \subseteq Symbols,
         calls' \in [Threads -> Seq(Frames)], busy' \in [Threads -> BOOLEAN],
         slot' \in [Symbols -> {Null} \cup Nat],
         \A u \in Threads \ {t} : calls'[u] = calls[u] /\ busy'[u] = busy[u],
         ThreadOf(t)', \A s \in Symbols : SlotOf(s)'
  PROVE CompatInv'
<1>1. \A u \in Threads : ThreadOf(u)' BY OthersStay
<1> QED BY <1>1 DEF CompatInv, ThreadOf

LEMMA BeginKeeps ==
  ASSUME CompatInv, ~aborted, aborted' = FALSE, NEW t \in Threads, NEW s \in Symbols,
         libc' = libc, busy' = busy, slot' = slot,
         \/ calls[t] = <<>> /\ nested' = nested
         \/ Depth(t) = 1 /\ calls[t][1].pc = "read" /\ nested' = nested \cup {s},
         NEW q \in Seq(Frames), Len(q) = Depth(t),
         \A i \in 1 .. Depth(t) :
           /\ q[i].pc = calls[t][i].pc /\ q[i].sym = calls[t][i].sym
           /\ q[i].ver = calls[t][i].ver /\ q[i].p = calls[t][i].p,
         calls' = [calls EXCEPT ![t] = Append(q, Frame(s, "resolve", NoName))]
  PROVE CompatInv'
<1> DEFINE f == Frame(s, "resolve", NoName)
<1>1. StackOf(t) /\ (\A i \in 1 .. Depth(t) : FrameOf(t, i))
      /\ calls \in [Threads -> Seq(Frames)] /\ nested \subseteq Symbols
  BY DEF CompatInv
<1>2. f \in Frames BY FrameIsFrame
<1>3. Append(q, f) \in Seq(Frames) /\ Len(Append(q, f)) = Len(q) + 1
      /\ (\A i \in 1 .. Len(q) : Append(q, f)[i] = q[i]) /\ Append(q, f)[Len(q) + 1] = f
  BY <1>2, AppendIs
<1>4. /\ calls' \in [Threads -> Seq(Frames)] /\ calls'[t] = Append(q, f)
      /\ \A u \in Threads \ {t} : calls'[u] = calls[u]
  BY <1>1, <1>3
<1>5. Depth(t) \in {0, 1} /\ (Depth(t) = 0 => nested' = nested)
      /\ (Depth(t) = 1 => calls[t][1].pc = "read" /\ s \in nested') /\ nested \subseteq nested'
  BY DEF Depth
<1>6. Depth(t)' = Depth(t) + 1 BY <1>3, <1>4 DEF Depth
<1>7. f.pc = "resolve" /\ f.sym = s /\ f.ver = NoName BY DEF Frame
<1>8. ThreadOf(t)'
  <2>1. CASE Depth(t) = 0
    <3>1. Depth(t)' = 1 /\ calls'[t][1] = f BY <1>3, <1>4, <1>6, <2>1
    <3>2. ~busy[t] BY <1>1, <2>1 DEF StackOf
    <3>3. StackOf(t)' BY <1>3, <1>4, <1>7, <3>1, <3>2 DEF StackOf
    <3>4. FrameOf(t, 1)' BY <1>7, <3>1 DEF FrameOf
    <3> QED BY <3>1, <3>3, <3>4 DEF ThreadOf
  <2>2. CASE Depth(t) = 1
    <3>1. Depth(t)' = 2 /\ calls'[t][1] = q[1] /\ calls'[t][2] = f
      BY <1>3, <1>4, <1>6, <2>2
    <3>2. q[1].pc = "read" /\ busy[t] BY <1>1, <1>5, <2>2 DEF StackOf
    <3>3. StackOf(t)' BY <1>3, <1>4, <1>7, <3>1, <3>2 DEF StackOf
    <3>4. FrameOf(t, 1)' BY <3>1, <3>2 DEF FrameOf
    <3>5. FrameOf(t, 2)' BY <1>5, <1>7, <2>2, <3>1 DEF FrameOf
    <3> QED BY <3>1, <3>3, <3>4, <3>5 DEF ThreadOf
  <2> QED BY <1>5, <2>1, <2>2
<1>9. nested' \subseteq Symbols BY <1>1
<1>10. \A r \in Symbols : SlotOf(r)' BY <1>5, SlotsStay
<1>11. slot' \in [Symbols -> {Null} \cup Nat] /\ busy' \in [Threads -> BOOLEAN]
  BY DEF CompatInv
<1> HIDE DEF f
<1> QED BY <1>4, <1>5, <1>8, <1>9, <1>10, <1>11, InvFrom

LEMMA CallKeeps ==
  ASSUME CompatInv, NEW t \in Threads, NEW s \in Symbols, Call(t, s)
  PROVE CompatInv'
<1>1. CASE slot[s] # Null
  <2>1. UNCHANGED <<libc, slot, busy, calls, aborted, nested>> BY <1>1 DEF Call, Get
  <2>2. ThreadOf(t)' BY <2>1, OthersStay DEF Call, CompatInv
  <2>3. \A r \in Symbols : SlotOf(r)' BY <2>1, SlotsStay
  <2> QED BY <2>1, <2>2, <2>3, InvFrom DEF Call, CompatInv
<1>2. CASE slot[s] = Null
  <2>1. /\ calls[t] = <<>> /\ ~aborted /\ UNCHANGED <<libc, slot, busy, aborted, nested>>
        /\ calls' = [calls EXCEPT ![t] = Append(calls[t], Frame(s, "resolve", NoName))]
    BY <1>2 DEF Call, Get
  <2>2. calls[t] \in Seq(Frames) /\ Len(calls[t]) = Depth(t) /\ aborted' = FALSE
    BY <2>1 DEF CompatInv, Depth
  <2> QED BY <2>1, <2>2, BeginKeeps
<1> QED BY <1>1, <1>2

LEMMA ReadCallsKeeps ==
  ASSUME CompatInv, NEW t \in Threads, NEW s \in Symbols, ReadCalls(t, s)
  PROVE CompatInv'
<1>1. /\ ~aborted /\ Depth(t) = 1 /\ Top(t).pc = "read" /\ Top(t) = calls[t][1]
      /\ Top(t) \in Frames /\ calls[t] \in Seq(Frames) /\ Len(calls[t]) = 1 /\ FrameOf(t, 1)
  BY TopIs DEF ReadCalls, At
<1>2. /\ UNCHANGED <<libc, slot, busy, aborted>> /\ aborted' = FALSE
      /\ slot' \in [Symbols -> {Null} \cup Nat] /\ busy' \in [Threads -> BOOLEAN]
      /\ StackOf(t)
  BY <1>1 DEF ReadCalls, CompatInv
<1>3. CASE slot[s] # Null
  <2> DEFINE f == [Top(t) EXCEPT !.asked = TRUE]
  <2>1. SetTop(t, f) /\ nested' = nested BY <1>3 DEF ReadCalls
  <2>2. f \in Frames /\ f.pc = "read" BY <1>1 DEF Frames
  <2> HIDE DEF f
  <2>3. /\ calls' \in [Threads -> Seq(Frames)] /\ Depth(t)' = 1 /\ calls'[t][1] = f
        /\ \A u \in Threads \ {t} : calls'[u] = calls[u]
    BY <1>1, <2>1, <2>2, SetTopIs
  <2>4. ThreadOf(t)' BY <1>1, <1>2, <2>2, <2>3 DEF ThreadOf, StackOf, FrameOf
  <2>5. \A r \in Symbols : SlotOf(r)' BY <1>2, <2>1, SlotsStay
  <2> QED BY <1>1, <1>2, <2>1, <2>3, <2>4, <2>5, InvFrom DEF CompatInv
<1>4. CASE slot[s] = Null
  <2> DEFINE q == [calls[t] EXCEPT ![Depth(t)].asked = TRUE]
  <2>1. /\ calls' = [calls EXCEPT ![t] = Append(q, Frame(s, "resolve", NoName))]
        /\ nested' = nested \cup {s}
    BY <1>4 DEF ReadCalls
  <2>2. q = [calls[t] EXCEPT ![1] = [Top(t) EXCEPT !.asked = TRUE]] BY <1>1
  <2>3. [Top(t) EXCEPT !.asked = TRUE] \in Frames BY <1>1 DEF Frames
  <2>4. q \in Seq(Frames) /\ Len(q) = 1 /\ q[1] = [Top(t) EXCEPT !.asked = TRUE]
    BY <1>1, <2>2, <2>3
  <2>5. \A i \in 1 .. Depth(t) :
           /\ q[i].pc = calls[t][i].pc /\ q[i].sym = calls[t][i].sym
           /\ q[i].ver = calls[t][i].ver /\ q[i].p = calls[t][i].p
    BY <1>1, <2>4 DEF Frames
  <2> HIDE DEF q
  <2> QED BY <1>1, <1>2, <2>1, <2>4, <2>5, BeginKeeps
<1> QED BY <1>3, <1>4

\* A step that only changes the innermost resolution, and the flag with it.
LEMMA StepKeeps ==
  ASSUME CompatInv, ~aborted, aborted' = FALSE, NEW t \in Threads, Depth(t) > 0,
         NEW f \in Frames, SetTop(t, f), UNCHANGED <<libc, slot, nested>>,
         NEW b \in BOOLEAN, busy' = [busy EXCEPT ![t] = b],
         Depth(t) = 2 => f.pc # "read" /\ b = TRUE,
         Depth(t) = 1 => (b <=> f.pc = "read"),
         f.sym = Top(t).sym,
         f.pc = "resolve" => f.ver = NoName,
         f.pc = "lookup" => f.ver = VersionOf(f.sym) \/ (Depth(t) = 2 /\ f.ver = NoName),
         f.pc = "store" => MayAnswer(f.sym, f.p) /\ (Depth(t) = 1 => Answers(f.sym, f.p))
  PROVE CompatInv'
<1>1. /\ StackOf(t) /\ (\A i \in 1 .. Depth(t) : FrameOf(t, i))
      /\ busy \in [Threads -> BOOLEAN] /\ nested \subseteq Symbols
      /\ slot \in [Symbols -> {Null} \cup Nat]
  BY DEF CompatInv
<1>2. Depth(t) \in {1, 2} /\ Top(t) = calls[t][Depth(t)] BY TopIs
<1>3. /\ calls' \in [Threads -> Seq(Frames)] /\ Depth(t)' = Depth(t)
      /\ \A u \in Threads \ {t} : calls'[u] = calls[u]
      /\ \A i \in 1 .. Depth(t) : calls'[t][i] = IF i = Depth(t) THEN f ELSE calls[t][i]
  BY SetTopIs
<1>4. busy'[t] = b /\ \A u \in Threads \ {t} : busy'[u] = busy[u] BY <1>1
<1>5. ThreadOf(t)'
  <2>1. CASE Depth(t) = 1
    <3>1. Depth(t)' = 1 /\ calls'[t][1] = f BY <1>3, <2>1
    <3>2. StackOf(t)' BY <1>3, <1>4, <2>1, <3>1 DEF StackOf
    <3>3. FrameOf(t, 1)' BY <2>1, <3>1, LibcStays DEF FrameOf
    <3> QED BY <3>1, <3>2, <3>3 DEF ThreadOf
  <2>2. CASE Depth(t) = 2
    <3>1. Depth(t)' = 2 /\ calls'[t][1] = calls[t][1] /\ calls'[t][2] = f BY <1>3, <2>2
    <3>2. calls[t][1].pc = "read" /\ FrameOf(t, 1) /\ FrameOf(t, 2) BY <1>1, <2>2 DEF StackOf
    <3>3. StackOf(t)'
      <4>1. busy'[t] BY <1>4, <2>2
      <4>2. Depth(t)' > 0 /\ Depth(t)' <= 2 /\ calls'[t] \in Seq(Frames) BY <1>3, <3>1
      <4>3. calls'[t][1].pc = "read" /\ calls'[t][2].pc # "read" BY <2>2, <3>1, <3>2
      <4> QED BY <4>1, <4>2, <4>3 DEF StackOf
    <3>4. FrameOf(t, 1)' BY <3>1, <3>2 DEF FrameOf
    <3>5. f.sym \in nested' BY <1>2, <2>2, <3>2 DEF FrameOf
    <3>6. FrameOf(t, 2)' BY <2>2, <3>1, <3>5, LibcStays DEF FrameOf
    <3> QED BY <3>1, <3>3, <3>4, <3>6 DEF ThreadOf
  <2> QED BY <1>2, <2>1, <2>2
<1>6. \A s \in Symbols : SlotOf(s)' BY SlotsStay
<1>7. busy' \in [Threads -> BOOLEAN] BY <1>1
<1> QED BY <1>1, <1>3, <1>4, <1>5, <1>6, <1>7, InvFrom

LEMMA ResolveKeeps ==
  ASSUME CompatInv, NEW t \in Threads, Resolve(t) PROVE CompatInv'
<1> DEFINE f == [Top(t) EXCEPT !.pc = IF busy[t] THEN "lookup" ELSE "read"]
<1>1. /\ ~aborted /\ Depth(t) > 0 /\ Top(t).pc = "resolve" /\ SetTop(t, f)
      /\ busy' = [busy EXCEPT ![t] = TRUE] /\ UNCHANGED <<libc, slot, aborted, nested>>
  BY DEF Resolve, At
<1>2. Depth(t) \in {1, 2} /\ Top(t) = calls[t][Depth(t)] /\ Top(t) \in Frames /\ FrameOf(t, Depth(t))
  BY <1>1, TopIs
<1>3. StackOf(t) /\ aborted' = FALSE BY <1>1 DEF CompatInv
<1>4. busy[t] <=> Depth(t) = 2
  BY <1>1, <1>2, <1>3 DEF StackOf
<1>5. f \in Frames /\ f.sym = Top(t).sym /\ f.ver = Top(t).ver
      /\ f.pc = IF busy[t] THEN "lookup" ELSE "read"
  BY <1>2 DEF Frames, Pcs
<1>6. f.ver = NoName BY <1>1, <1>2, <1>5 DEF FrameOf
<1> HIDE DEF f
<1>7. /\ Depth(t) = 2 => f.pc # "read"
      /\ Depth(t) = 1 => f.pc = "read"
      /\ f.pc # "store" /\ f.pc # "resolve"
      /\ f.pc = "lookup" => Depth(t) = 2
  BY <1>2, <1>4, <1>5
<1>8. UNCHANGED <<libc, slot, nested>> /\ TRUE \in BOOLEAN BY <1>1
<1> QED BY <1>1, <1>2, <1>3, <1>5, <1>6, <1>7, <1>8, StepKeeps

LEMMA ReadVersionKeeps ==
  ASSUME CompatInv, NEW t \in Threads, ReadVersion(t) PROVE CompatInv'
<1> DEFINE f == [Top(t) EXCEPT !.pc = "lookup",
                  !.ver = IF Dlsym(Top(t).sym) = Null THEN NoName
                          ELSE DefaultVersion(libc, Top(t).sym)]
<1>1. /\ ~aborted /\ Depth(t) > 0 /\ Top(t).pc = "read" /\ SetTop(t, f)
      /\ busy' = [busy EXCEPT ![t] = FALSE] /\ UNCHANGED <<libc, slot, aborted, nested>>
  BY DEF ReadVersion, At
<1>2. Depth(t) = 1 /\ Top(t) \in Frames BY <1>1, TopIs
<1>3. VersionOf(Top(t).sym) \in VersionNames
  BY DefaultVersionTypes DEF CompatInv, VersionOf, VersionNames
<1>4. f = [Top(t) EXCEPT !.pc = "lookup", !.ver = VersionOf(Top(t).sym)] BY DEF VersionOf
<1> HIDE DEF f
<1>5. f \in Frames /\ f.sym = Top(t).sym /\ f.ver = VersionOf(f.sym) /\ f.pc = "lookup"
  BY <1>2, <1>3, <1>4 DEF Frames, Pcs
<1>6. aborted' = FALSE BY <1>1 DEF CompatInv
<1>7. UNCHANGED <<libc, slot, nested>> /\ FALSE \in BOOLEAN BY <1>1
<1>8. /\ Depth(t) # 2 /\ (FALSE <=> f.pc = "read")
      /\ f.pc # "store" /\ f.pc # "resolve"
  BY <1>2, <1>5
<1> QED BY <1>1, <1>5, <1>6, <1>7, <1>8, StepKeeps

LEMMA LookupKeeps ==
  ASSUME CompatInv, NEW t \in Threads, Lookup(t) PROVE CompatInv'
<1> DEFINE s == Top(t).sym
           v == Top(t).ver
           versioned == IF v = NoName THEN Null ELSE Dlvsym(s, v)
           p == IF versioned # Null THEN versioned ELSE Dlsym(s)
           f == [Top(t) EXCEPT !.pc = "store", !.p = p]
<1>1. /\ ~aborted /\ Depth(t) > 0 /\ Top(t).pc = "lookup" /\ SetTop(t, f)
      /\ aborted' = (p = Null) /\ UNCHANGED <<libc, slot, busy, nested>>
  BY DEF Lookup, At
<1>2. Depth(t) \in {1, 2} /\ Top(t) = calls[t][Depth(t)] /\ Top(t) \in Frames
      /\ FrameOf(t, Depth(t)) /\ StackOf(t) /\ libc \in Libcs
  BY <1>1, TopIs DEF CompatInv
<1>3. s \in Symbols /\ v \in {NoName, VersionOf(s)} /\ (Depth(t) = 1 => v = VersionOf(s))
  BY <1>1, <1>2 DEF FrameOf, Frames
<1>4. /\ p = Null => Definitions(s) = {}
      /\ p # Null => MayAnswer(s, p) /\ (v = VersionOf(s) => Answers(s, p))
  <2> HIDE DEF s, v
  <2> QED BY <1>2, <1>3, LookupIs
<1>5. p \in {Null} \cup Nat BY <1>4 DEF MayAnswer
<1> HIDE DEF p
<1>6. f \in Frames /\ f.sym = s /\ f.p = p /\ f.pc = "store"
  BY <1>2, <1>5 DEF Frames, Pcs
<1>7. busy \in [Threads -> BOOLEAN] /\ busy' = [busy EXCEPT ![t] = busy[t]] /\ busy[t] \in BOOLEAN
  BY <1>1 DEF CompatInv
<1>8. busy[t] <=> Depth(t) = 2 BY <1>1, <1>2 DEF StackOf
<1> HIDE DEF f, v
<1>9. CASE p # Null
  <2>1. aborted' = FALSE BY <1>1, <1>9
  <2>2. MayAnswer(f.sym, f.p) /\ (Depth(t) = 1 => Answers(f.sym, f.p))
    BY <1>3, <1>4, <1>6, <1>9
  <2>3. /\ Depth(t) = 2 => f.pc # "read" /\ busy[t] = TRUE
        /\ Depth(t) = 1 => (busy[t] <=> f.pc = "read")
    BY <1>6, <1>7, <1>8
  <2>4. UNCHANGED <<libc, slot, nested>> /\ f.sym = Top(t).sym BY <1>1, <1>6
  <2>5. f.pc # "lookup" /\ f.pc # "resolve" BY <1>6
  <2> HIDE DEF s
  <2> QED BY <1>1, <1>6, <1>7, <2>1, <2>2, <2>3, <2>4, <2>5, StepKeeps
<1>10. CASE p = Null
  <2>1. aborted' = TRUE /\ Definitions(s) = {} BY <1>1, <1>4, <1>10
  <2>2. /\ calls' \in [Threads -> Seq(Frames)] /\ Depth(t)' = Depth(t)
        /\ \A u \in Threads \ {t} : calls'[u] = calls[u]
        /\ \A i \in 1 .. Depth(t) : calls'[t][i] = IF i = Depth(t) THEN f ELSE calls[t][i]
    BY <1>1, <1>6, SetTopIs
  <2>3. \A u \in Threads : StackOf(u)'
    <3>1. ASSUME NEW u \in Threads \ {t} PROVE StackOf(u)'
      BY <1>1, <2>2, <3>1 DEF CompatInv, StackOf, Depth
    <3>2. StackOf(t)'
      <4>1. CASE Depth(t) = 1
        <5>1. calls'[t][1] = f BY <2>2, <4>1
        <5> QED BY <1>1, <1>6, <1>8, <2>2, <4>1, <5>1 DEF StackOf
      <4>2. CASE Depth(t) = 2
        <5>1. calls'[t][1] = calls[t][1] /\ calls'[t][2] = f BY <2>2, <4>2
        <5> QED BY <1>1, <1>2, <1>6, <1>8, <2>2, <4>2, <5>1 DEF StackOf
      <4> QED BY <1>2, <4>1, <4>2
    <3> QED BY <3>1, <3>2
  <2>4. \A r \in Symbols : SlotOf(r)' BY <1>1, SlotsStay
  <2>5. \E r \in Symbols : Definitions(r)' = {}
    <3>1. \A r : Definitions(r)' = Definitions(r) BY <1>1, LibcStays
    <3> HIDE DEF s
    <3> QED BY <1>3, <2>1, <3>1
  <2>6. /\ libc' \in Libcs /\ aborted' \in BOOLEAN /\ nested' \subseteq Symbols
        /\ slot' \in [Symbols -> {Null} \cup Nat] /\ busy' \in [Threads -> BOOLEAN]
    BY <1>1, <2>1 DEF CompatInv
  <2> QED BY <2>1, <2>2, <2>3, <2>4, <2>5, <2>6 DEF CompatInv
<1> QED BY <1>9, <1>10

LEMMA StoreKeeps ==
  ASSUME CompatInv, NEW t \in Threads, Store(t) PROVE CompatInv'
<1>1. /\ ~aborted /\ Depth(t) > 0 /\ Top(t).pc = "store"
      /\ slot' = [slot EXCEPT ![Top(t).sym] = Top(t).p]
      /\ calls' = [calls EXCEPT ![t] = SubSeq(calls[t], 1, Depth(t) - 1)]
      /\ UNCHANGED <<libc, busy, aborted, nested>>
  BY DEF Store, At
<1>2. Depth(t) \in {1, 2} /\ Top(t) = calls[t][Depth(t)] /\ Top(t) \in Frames
      /\ calls[t] \in Seq(Frames) /\ Len(calls[t]) = Depth(t)
      /\ FrameOf(t, Depth(t)) /\ StackOf(t)
  BY <1>1, TopIs DEF CompatInv
<1>3. /\ aborted' = FALSE /\ nested' \subseteq Symbols /\ busy' \in [Threads -> BOOLEAN]
      /\ calls \in [Threads -> Seq(Frames)] /\ slot \in [Symbols -> {Null} \cup Nat]
      /\ \A i \in 1 .. Depth(t) : FrameOf(t, i)
  BY <1>1 DEF CompatInv
<1>4. Top(t).sym \in Symbols /\ Top(t).p \in {Null} \cup Nat BY <1>2 DEF Frames
<1>5. /\ MayAnswer(Top(t).sym, Top(t).p)
      /\ Top(t).sym \notin nested => Answers(Top(t).sym, Top(t).p)
  BY <1>1, <1>2 DEF FrameOf
<1>6. \A r \in Symbols : SlotOf(r)'
  <2> SUFFICES ASSUME NEW r \in Symbols PROVE SlotOf(r)' OBVIOUS
  <2>1. CASE r = Top(t).sym
    <3>1. slot'[r] = Top(t).p BY <1>1, <1>3, <2>1
    <3> QED BY <1>1, <1>5, <2>1, <3>1, LibcStays DEF SlotOf
  <2>2. CASE r # Top(t).sym
    <3>1. slot'[r] = slot[r] /\ SlotOf(r) BY <1>1, <1>3, <2>2 DEF CompatInv
    <3> QED BY <1>1, <3>1, LibcStays DEF SlotOf
  <2> QED BY <2>1, <2>2
<1>7. slot' \in [Symbols -> {Null} \cup Nat] BY <1>1, <1>3, <1>4
<1>8. SubSeq(calls[t], 1, Depth(t) - 1) \in Seq(Frames)
      /\ Len(SubSeq(calls[t], 1, Depth(t) - 1)) = Depth(t) - 1
      /\ \A i \in 1 .. Depth(t) - 1 : SubSeq(calls[t], 1, Depth(t) - 1)[i] = calls[t][i]
  BY <1>2
<1>9. /\ calls' \in [Threads -> Seq(Frames)] /\ Depth(t)' = Depth(t) - 1
      /\ \A i \in 1 .. Depth(t) - 1 : calls'[t][i] = calls[t][i]
      /\ \A u \in Threads \ {t} : calls'[u] = calls[u]
  BY <1>1, <1>3, <1>8 DEF Depth
<1>10. ThreadOf(t)'
  <2>1. CASE Depth(t) = 1
    <3>1. ~busy[t] BY <1>1, <1>2, <2>1 DEF StackOf
    <3>2. Depth(t)' = 0 BY <1>9, <2>1
    <3>3. StackOf(t)' BY <1>1, <1>9, <3>1, <3>2 DEF StackOf
    <3> QED BY <3>2, <3>3 DEF ThreadOf
  <2>2. CASE Depth(t) = 2
    <3>1. calls[t][1].pc = "read" /\ busy[t] /\ FrameOf(t, 1) BY <1>2, <1>3, <2>2 DEF StackOf
    <3>2. Depth(t)' = 1 /\ calls'[t][1] = calls[t][1] BY <1>9, <2>2
    <3>3. StackOf(t)'
      <4>1. busy'[t] BY <1>1, <3>1
      <4>2. Depth(t)' > 0 /\ Depth(t)' <= 2 /\ Depth(t)' # 2 /\ calls'[t] \in Seq(Frames)
        BY <1>9, <3>2
      <4>3. calls'[t][1].pc = "read" BY <3>1, <3>2
      <4> QED BY <4>1, <4>2, <4>3 DEF StackOf
    <3>4. FrameOf(t, 1)' BY <3>1, <3>2 DEF FrameOf
    <3> QED BY <3>2, <3>3, <3>4 DEF ThreadOf
  <2> QED BY <1>2, <2>1, <2>2
<1> QED BY <1>1, <1>3, <1>6, <1>7, <1>9, <1>10, InvFrom

------------------------------------------------------------------------------
LEMMA CompatInvInit == Init => CompatInv
<1> SUFFICES ASSUME Init PROVE CompatInv OBVIOUS
<1>1. \A t \in Threads : calls[t] = <<>> /\ ~busy[t] BY DEF Init
<1>2. \A t \in Threads : Depth(t) = 0 BY <1>1 DEF Depth
<1>3. /\ libc \in Libcs /\ aborted = FALSE /\ nested = {}
      /\ slot \in [Symbols -> {Null} \cup Nat]
      /\ calls \in [Threads -> Seq(Frames)] /\ busy \in [Threads -> BOOLEAN]
  BY DEF Init
<1>4. ASSUME NEW t \in Threads PROVE StackOf(t)
  <2>1. calls[t] \in Seq(Frames) BY <1>3
  <2>2. Depth(t) <= 2 /\ Depth(t) # 2 /\ ~(Depth(t) > 0) /\ ~busy[t] BY <1>1, <1>2
  <2> QED BY <2>1, <2>2 DEF StackOf
<1>5. \A s \in Symbols : SlotOf(s) BY DEF Init, SlotOf
<1>6. \A t \in Threads : \A i \in 1 .. Depth(t) : FrameOf(t, i) BY <1>2
<1> QED BY <1>3, <1>4, <1>5, <1>6 DEF CompatInv

LEMMA CompatInvStep == CompatInv /\ [Next]_vars => CompatInv'
<1>1. ASSUME CompatInv, UNCHANGED vars PROVE CompatInv'
  <2> USE DEF vars
  <2>1. \A t \in Threads : StackOf(t)' BY <1>1 DEF CompatInv, StackOf, Depth
  <2>2. ~aborted => \A t \in Threads : \A i \in 1 .. Depth(t) : FrameOf(t, i)'
    BY <1>1, LibcStays DEF CompatInv, FrameOf
  <2>3. \A s \in Symbols : SlotOf(s)' BY <1>1, SlotsStay
  <2>4. \A t \in Threads : Depth(t)' = Depth(t) BY <1>1 DEF Depth
  <2> QED BY <1>1, <2>1, <2>2, <2>3, <2>4, LibcStays DEF CompatInv
<1>2. ASSUME CompatInv, NEW t \in Threads, Step(t) PROVE CompatInv'
  BY <1>2, NamesAssumption, ResolveKeeps, ReadVersionKeeps, LookupKeeps, StoreKeeps,
     ReadCallsKeeps DEF Step
<1> QED BY <1>1, <1>2, CallKeeps DEF Next

LEMMA CompatInvHolds == Spec => []CompatInv
BY CompatInvInit, CompatInvStep, PTL DEF Spec

\* "Each one below then forwards to the DEFAULT definition", on every libc, whatever
\* its dlsym prefers, unless the name was resolved inside another resolution.
THEOREM SlotsHoldDefaults == Spec => []SlotsAreDefault
<1>1. CompatInv => SlotsAreDefault
  BY DEF CompatInv, SlotOf, Answers, SlotsAreDefault
<1> QED BY <1>1, CompatInvHolds, PTL

\* "the forwarder is never worse than not being there", on every libc, its tables cut
\* off anywhere; and it gives up only where the plain reference would have failed.
THEOREM ForwardersNeverWorse == Spec => []NeverWorse
<1>1. CompatInv => NeverWorse
  BY DEF CompatInv, SlotOf, MayAnswer, NeverWorse
<1> QED BY <1>1, CompatInvHolds, PTL

\* vc_resolve's flag ends the recursion at the first re-entry.
THEOREM ReentryEnds == Spec => []OneLevel
<1>1. CompatInv => OneLevel BY DEF CompatInv, StackOf, OneLevel
<1> QED BY <1>1, CompatInvHolds, PTL
==============================================================================
