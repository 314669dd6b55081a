------------------------------ MODULE FgnImage ------------------------------
(***************************************************************************)
(* The rewrite of one image by src/foreign-dlopen.c: the version tags are  *)
(* neutralised together, the edges to musl's libc are dropped, and the     *)
(* undefined symbols in fgn_renames get another name, either by moving     *)
(* st_name inside the string or by writing over it.  Strings share their   *)
(* bytes, as the linker merges a name with the tail of a longer one.       *)
(*                                                                         *)
(* An image is an FgnElf file with a string table: strtab[o + 1] is the    *)
(* byte at offset o; a symbol is [st_name, defined]; dyn is the dynamic    *)
(* section, [tag, val, musl]; verrefs are the offsets of the version       *)
(* tables' file and version names, and whole is FALSE where those tables   *)
(* leave the file.                                                         *)
(***************************************************************************)
EXTENDS FgnElf

CONSTANTS
  Chars, Nul,   \* the bytes of names, and the terminator
  Images,
  fgn_renames,  \* sequence of [from, to]; the shipped one has one, a suffix
  Settings      \* subsets of {"NOSTRIP", "NORENAME", "DRYRUN"}

VersionTags == {"VERSYM", "VERNEED", "VERDEF", "VERDEFNUM"}
NameTags == {"NEEDED", "SONAME", "RPATH", "RUNPATH"}

\* NEUTRAL is the tag that ld.so skips, and any other that is not looked at.
ImageType ==
  [faults : SUBSET Faults, nchain : Nat, room : Nat, gnu : GnuTable,
   syms : Seq([st_name : Nat, defined : BOOLEAN]), strtab : Seq(Chars \cup {Nul}),
   dyn : Seq([tag : VersionTags \cup NameTags \cup {"NEUTRAL"}, val : Nat,
              musl : BOOLEAN]),
   verrefs : SUBSET Nat, whole : BOOLEAN]

\* What a linker writes: hash tables, and a null symbol first, which has no name.
ASSUME ImagesAssumption ==
  \A img \in Images :
    img \in ImageType /\ HashTables(img) /\ (img.syms # <<>> => img.syms[1].st_name = 0)

\* No name in the table is what another is renamed to.
ASSUME RulesAssumption ==
  /\ Nul \notin Chars
  /\ fgn_renames \in Seq([from : Seq(Chars), to : Seq(Chars)])
  /\ \A r, q \in DOMAIN fgn_renames : fgn_renames[r].to # fgn_renames[q].from

VARIABLES
  image, before,  \* the image in memory, and as it was read
  settings,
  phase,
  rule, index     \* the two loops of fgn_apply_renames

rewriteVars == <<image, before, settings, phase, rule, index>>

RewriteInit ==
  /\ image \in Images /\ before = image
  /\ settings \in Settings
  /\ phase = "parse" /\ rule = 1 /\ index = 0

------------------------------------------------------------------------------
\* fgn_valid_cstr, and the string it vouches for.
Ends(tab, off) == {i \in DOMAIN tab : i > off /\ tab[i] = Nul}
ValidCstr(tab, off) == Ends(tab, off) # {}
Str(tab, off) == SubSeq(tab, off + 1, Min(Ends(tab, off)) - 1)

HasVersionNames(img) == \E d \in DOMAIN img.dyn : img.dyn[d].tag \in {"VERNEED", "VERDEF"}

\* fgn_dynstr_range_occupied: does a name begin in [lo, hi)?
RangeOccupied(img, lo, hi, exempt) ==
  \/ \E i \in Dynsym(img) : LET o == img.syms[i].st_name
                            IN  o \notin {exempt, 0} /\ o \in lo .. hi - 1
  \/ \E d \in DOMAIN img.dyn : img.dyn[d].tag \in NameTags /\ img.dyn[d].val \in lo .. hi - 1
  \/ HasVersionNames(img) /\ (~img.whole \/ \E o \in img.verrefs : o \in lo .. hi - 1)

Overwrite(tab, off, to) ==
  [i \in DOMAIN tab |-> IF i \in off + 1 .. off + Len(to) THEN to[i - off]
                        ELSE IF i = off + Len(to) + 1 THEN Nul ELSE tab[i]]

IsSuffix(to, from) ==
  Len(to) <= Len(from) /\ SubSeq(from, Len(from) - Len(to) + 1, Len(from)) = to

\* The symbol the loop is at is one to rename.
Wanted(img, i, r) ==
  LET s == img.syms[i + 1]
  IN  /\ Len(r.to) <= Len(r.from)
      /\ ~s.defined /\ s.st_name # 0
      /\ ValidCstr(img.strtab, s.st_name) /\ Str(img.strtab, s.st_name) = r.from
      /\ ~(img.gnu.symoffset # 0 /\ i >= img.gnu.symoffset)

\* Variant of Renamed: the string is overwritten although moving would do.
RenamedInPlace(img, i, r) ==
  IF ~Wanted(img, i, r) THEN img
  ELSE [img EXCEPT !.strtab = Overwrite(@, img.syms[i + 1].st_name, r.to)]

\* fgn_rename_undef_symbol's loop body.
Renamed(img, i, r) ==
  LET off == img.syms[i + 1].st_name
  IN  IF ~Wanted(img, i, r) THEN img
      ELSE IF IsSuffix(r.to, r.from)
        THEN [img EXCEPT !.syms[i + 1].st_name = off + Len(r.from) - Len(r.to)]
      ELSE IF RangeOccupied(img, off + 1, off + Len(r.from) + 1, off) THEN img
      ELSE [img EXCEPT !.strtab = Overwrite(@, off, r.to)]

------------------------------------------------------------------------------
Parse ==
  /\ phase = "parse"
  /\ phase' = IF Parses(image) THEN "strip" ELSE "declined"
  /\ UNCHANGED <<image, before, settings, rule, index>>

\* fgn_strip_versions, and the DT_NEEDED of musl's libc.
Strip ==
  /\ phase = "strip"
  /\ LET gone == {d \in DOMAIN image.dyn :
                    \/ image.dyn[d].tag \in VersionTags /\ "NOSTRIP" \notin settings
                    \/ image.dyn[d].tag = "NEEDED" /\ image.dyn[d].musl}
     IN  image' = [image EXCEPT !.dyn = [d \in DOMAIN @ |->
                     IF d \in gone THEN [@[d] EXCEPT !.tag = "NEUTRAL"] ELSE @[d]]]
  /\ phase' = IF "NORENAME" \in settings \/ Dynsym(image) = {} \/ fgn_renames = <<>>
                THEN "done" ELSE "rename"
  /\ UNCHANGED <<before, settings, rule, index>>

\* One turn of fgn_rename_undef_symbol's loop, inside fgn_apply_renames's.
Rename ==
  /\ phase = "rename"
  /\ image' = IF "DRYRUN" \in settings THEN image
              ELSE Renamed(image, index, fgn_renames[rule])
  /\ IF index + 1 \in Dynsym(image) /\ index + 2 \in Dynsym(image)
       THEN index' = index + 1 /\ UNCHANGED <<rule, phase>>
       ELSE /\ index' = 0 /\ rule' = rule + 1
            /\ phase' = IF rule = Len(fgn_renames) THEN "done" ELSE "rename"
  /\ UNCHANGED <<before, settings>>

RewriteNext == Parse \/ Strip \/ Rename

RewriteSpec == RewriteInit /\ [][RewriteNext]_rewriteVars

------------------------------------------------------------------------------
\* Where an image refers to its strings.
Refs(img) ==
  {<<"symbol", i>> : i \in DOMAIN img.syms}
    \cup {<<"dynamic", d>> : d \in {e \in DOMAIN img.dyn : img.dyn[e].tag \in NameTags}}
    \cup (IF HasVersionNames(img) THEN {<<"version", o>> : o \in img.verrefs} ELSE {})
Offset(img, ref) ==
  CASE ref[1] = "symbol" -> img.syms[ref[2]].st_name
    [] ref[1] = "dynamic" -> img.dyn[ref[2]].val
    [] ref[1] = "version" -> ref[2]
NameAt(img, ref) == Str(img.strtab, Offset(img, ref))

\* The string at ref starts at or before a string that is overwritten, and
\* runs into it.
RunsIntoOverwritten(ref) ==
  \E i \in DOMAIN before.syms, r \in DOMAIN fgn_renames :
    /\ ~IsSuffix(fgn_renames[r].to, fgn_renames[r].from)
    /\ Wanted(before, i - 1, fgn_renames[r])
    /\ ref # <<"symbol", i>>
    /\ before.syms[i].st_name \in
         Offset(before, ref) .. Offset(before, ref) + Len(NameAt(before, ref)) - 1

\* "Used to refuse an unsafe in-place .dynstr write": whatever strings share
\* their bytes, a rewrite changes the names of undefined, unhashed symbols in
\* the table, from `from` to `to`, and no name beside them: not of a defined
\* symbol, a library or a version.  Moving st_name keeps this always; writing
\* in place keeps it for all but a name that begins at or before the string and
\* runs into it, which no range of offsets inside the string shows.
OtherNamesKept ==
  \A ref \in Refs(image) : ValidCstr(before.strtab, Offset(before, ref)) =>
    \/ NameAt(image, ref) = NameAt(before, ref)
    \/ \E r \in DOMAIN fgn_renames :
         /\ ref[1] = "symbol" /\ Wanted(before, ref[2] - 1, fgn_renames[r])
         /\ NameAt(image, ref) = fgn_renames[r].to
    \/ RunsIntoOverwritten(ref)

\* The symbol count is the table's, from whichever hash table the linker wrote,
\* so the loops reach every symbol and no byte past them; a symbol table that runs
\* out of the file is left alone.  A table that hashes no symbol says where its
\* chains start and not that there are none, and the code then reads what follows
\* as a chain.
SymbolsAllSeen ==
  LET seen == DynsymCount(before)
      hashed == \E i \in DOMAIN before.syms : before.syms[i].defined
  IN  Parses(before) => \/ seen = Len(before.syms)
                        \/ seen = 0 /\ before.nchain = 0 /\ before.gnu.starts = {}
                        \/ seen = 0 /\ before.room < Len(before.syms)
                        \/ ~hashed /\ before.nchain = 0
==============================================================================
