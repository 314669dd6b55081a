----------------------------- MODULE MCFgnImage -----------------------------
(* FgnImage on every string table of a few bytes, and on the hash tables that *)
(* a linker writes.                                                           *)
EXTENDS FgnImage

CONSTANTS x, y

\* A suffix, as in the shipped table, and a name that has to be overwritten.
Rules == <<[from |-> <<x, x>>, to |-> <<x>>], [from |-> <<y, x>>, to |-> <<y>>]>>

AllSettings == {{}, {"NOSTRIP"}, {"NORENAME"}, {"DRYRUN"}}

NullSym == [st_name |-> 0, defined |-> FALSE]
Dyn(t, v, m) == [tag |-> t, val |-> v, musl |-> m]

\* Linkers sort the undefined symbols first and hash the rest; with nothing to hash
\* bfd and lld say differently where that begins.
Gnu(u, n, cuts, rest, bfd) ==
  LET starts == {u + 1} \cup cuts
  IN  [symoffset |-> IF bfd /\ n = u + 1 THEN 1 ELSE u + 1, words |-> n + 3,
       starts |-> {0} \cup (IF n > u + 1 THEN starts ELSE {}),
       ends |-> {i - 1 : i \in cuts} \cup (IF n > u + 1 THEN {n - 1} ELSE {}) \cup rest]
NoGnu == [symoffset |-> 0, starts |-> {}, ends |-> {}, words |-> 0]

Image(faults, nchain, short, gnu, syms, tab, dyn, vr, whole) ==
  [faults |-> faults, nchain |-> nchain, gnu |-> gnu,
   room |-> Len(syms) + (IF short THEN -1 ELSE 8),
   syms |-> syms, strtab |-> tab, dyn |-> dyn,
   verrefs |-> vr, whole |-> whole]

\* Two symbols, the second defined or not, a library's name and a version's,
\* anywhere in a table of four bytes between two ends.
Tables == {<<Nul>> \o m \o <<Nul>> : m \in [1 .. 4 -> {x, y, Nul}]}
Named(tab, o, d) == [st_name |-> o, defined |-> d]
NameImages ==
  {im \in {Image({}, 3, FALSE, Gnu(IF d THEN 1 ELSE 2, 3, {}, {}, FALSE),
                 <<NullSym, Named(tab, o1, FALSE), Named(tab, o2, d)>>, tab,
                 <<Dyn("NEEDED", 0, TRUE), Dyn("SONAME", o3, FALSE), Dyn("VERNEED", 0, FALSE)>>,
                 {o4}, w) :
             tab \in Tables, o1 \in 1 .. 4, o2 \in 1 .. 4, o3 \in {0, 1, 2, 3},
             o4 \in {1, 2, 3}, d \in BOOLEAN, w \in BOOLEAN} :
     /\ im.whole \/ im.verrefs = {1}
     \* a name is imported or exported once
     /\ Str(im.strtab, im.syms[2].st_name) # Str(im.strtab, im.syms[3].st_name)}

\* u undefined and d defined symbols, hashed either way, both ways or not at
\* all, with any two chains; what follows the chains may look like an end.
HashImages ==
  {Image(f[1], IF sysv THEN 1 + u + d ELSE 0, f[2],
         IF gnu THEN Gnu(u, 1 + u + d, {c \in cuts : c \in u + 2 .. u + d}, rest, bfd) ELSE NoGnu,
         [i \in 1 .. 1 + u + d |-> [st_name |-> IF i = 1 THEN 0 ELSE 1, defined |-> i > u + 1]],
         <<Nul, x, y, Nul>>, <<>>, {}, TRUE) :
     f \in {<<{}, FALSE>>, <<{}, TRUE>>, <<{"segment"}, FALSE>>}, u \in 0 .. 2, d \in 0 .. 3,
     sysv \in BOOLEAN, gnu \in BOOLEAN, cuts \in SUBSET (2 .. 5), rest \in {{}, {7}},
     bfd \in BOOLEAN}

AllImages == NameImages \cup HashImages
==============================================================================
