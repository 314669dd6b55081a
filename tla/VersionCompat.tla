---------------------------- MODULE VersionCompat ----------------------------
(***************************************************************************)
(* The forwarders of src/version-compat.c.  Each name that glibc defines   *)
(* at several versions has a slot; the first call of any thread resolves   *)
(* it, with the default version's name read out of libc's own file, and    *)
(* stores it.  Reading the file may call a forwarded name again.           *)
(*                                                                         *)
(* A definition is an index into libc's symbols.  calls[t] is the stack of *)
(* resolutions the thread is in, innermost last.                           *)
(***************************************************************************)
EXTENDS FgnElf

CONSTANTS
  Threads, Symbols,
  Libcs,     \* the libcs the process may have: FgnElf files with a `newest`
  Reenters,  \* forwarded names that reading a file may call
  MaxCalls,  \* bound: calls each thread starts
  Null

\* The definitions of a name in a libc's symbols.
Defined(f, s) == {i \in DOMAIN f.syms : f.syms[i].defined /\ f.syms[i].name = s}

\* glibc's version script: of a forwarded name that is there one definition is not
\* hidden, no two have one version, and one at most is older than the versions that
\* have come since; and a version's number is that of one name.
Versioned(f, s) ==
  /\ Defined(f, s) # {} => \E i \in Defined(f, s) : ~f.syms[i].hidden
  /\ \A i, j \in Defined(f, s) :
       \/ f.syms[i].ndx = f.syms[j].ndx
       \/ ~f.syms[i].hidden /\ ~f.syms[j].hidden
       \/ f.syms[i].ndx < 3 /\ f.syms[j].ndx < 3
       => i = j
  /\ \A i \in Defined(f, s) : f.syms[i].ndx > 1 =>
       \E d \in DOMAIN f.verdef : f.verdef[d].ndx = f.syms[i].ndx
NamedOnce(f) ==
  \A d, e \in DOMAIN f.verdef :
    f.verdef[d].name # NoName =>
      (f.verdef[d].name = f.verdef[e].name <=> f.verdef[d].ndx = f.verdef[e].ndx)

\* A libc defines symbols and has a hash table over them.
Hashed(f) ==
  /\ HashTables(f)
  /\ f.nchain # 0 \/ f.gnu.starts # {}
  /\ \E i \in DOMAIN f.syms : f.syms[i].defined

ASSUME LibcsAssumption ==
  \A f \in Libcs :
    /\ DOMAIN f.syms = 1 .. Len(f.syms) /\ Len(f.syms) \in Nat
    /\ \A i \in DOMAIN f.syms : f.syms[i].ndx \in Nat
    /\ DOMAIN f.verdef = 1 .. Len(f.verdef) /\ Len(f.verdef) \in Nat
    /\ f.nchain \in Nat /\ f.room \in Nat /\ f.gnu \in GnuTable
    /\ Hashed(f) /\ NamedOnce(f) /\ \A s \in Symbols : Versioned(f, s)
ASSUME NamesAssumption == Null \notin Nat /\ Reenters \subseteq Symbols

VARIABLES libc, slot, busy, calls, made, aborted,
          nested  \* history: names resolved from inside a resolution

vars == <<libc, slot, busy, calls, made, aborted, nested>>

Frame(s, l, v) == [sym |-> s, pc |-> l, ver |-> v, p |-> Null, asked |-> FALSE]

Init ==
  /\ libc \in Libcs
  /\ slot = [s \in Symbols |-> Null]
  /\ busy = [t \in Threads |-> FALSE]
  /\ calls = [t \in Threads |-> <<>>]
  /\ made = [t \in Threads |-> 0]
  /\ aborted = FALSE
  /\ nested = {}

------------------------------------------------------------------------------
Definitions(s) == Defined(libc, s)

\* ld.so: the definition with that version.
Dlvsym(s, v) ==
  LET hits == {i \in Definitions(s) : \E d \in DOMAIN libc.verdef :
                 libc.verdef[d].ndx = libc.syms[i].ndx /\ libc.verdef[d].name = v}
  IN  IF hits = {} THEN Null ELSE Min(hits)

\* ld.so: a lookup without a version takes a definition of the base version;
\* with none, the one that is not hidden.  An ld.so whose dlsym looks for the
\* newest does not count the first named version to the base.
Unversioned(s, newest) ==
  LET base == {i \in Definitions(s) : libc.syms[i].ndx < IF newest THEN 2 ELSE 3}
      shown == {i \in Definitions(s) : ~libc.syms[i].hidden}
  IN  IF base # {} THEN Min(base) ELSE IF shown # {} THEN Min(shown) ELSE Null

Dlsym(s) == Unversioned(s, libc.newest)

------------------------------------------------------------------------------
Depth(t) == Len(calls[t])
Top(t) == calls[t][Depth(t)]
At(t, l) == ~aborted /\ Depth(t) > 0 /\ Top(t).pc = l
SetTop(t, f) == calls' = [calls EXCEPT ![t][Depth(t)] = f]

\* vc_get: a slot that is filled is the answer, else a resolution begins.
Get(t, s) ==
  IF slot[s] # Null
    THEN UNCHANGED <<calls, nested>>
    ELSE /\ calls' = [calls EXCEPT ![t] = Append(@, Frame(s, "resolve", NoName))]
         /\ nested' = IF calls[t] = <<>> THEN nested ELSE nested \cup {s}

\* A forwarder is called.
Call(t, s) ==
  /\ ~aborted /\ calls[t] = <<>> /\ made[t] < MaxCalls
  /\ made' = [made EXCEPT ![t] = @ + 1]
  /\ Get(t, s)
  /\ UNCHANGED <<libc, slot, busy, aborted>>

\* Variant of Resolve: no guard.
ResolveAgain(t) ==
  /\ At(t, "resolve")
  /\ busy' = [busy EXCEPT ![t] = TRUE]
  /\ SetTop(t, [Top(t) EXCEPT !.pc = "read"])
  /\ UNCHANGED <<libc, slot, made, aborted, nested>>

\* vc_resolve's guard: inside a resolution the file is not read again.
Resolve(t) ==
  /\ At(t, "resolve")
  /\ busy' = [busy EXCEPT ![t] = TRUE]
  /\ SetTop(t, [Top(t) EXCEPT !.pc = IF busy[t] THEN "lookup" ELSE "read"])
  /\ UNCHANGED <<libc, slot, made, aborted, nested>>

\* Reading the file calls a forwarded name.
ReadCalls(t, s) ==
  /\ At(t, "read") /\ ~Top(t).asked
  /\ IF slot[s] # Null
       THEN SetTop(t, [Top(t) EXCEPT !.asked = TRUE]) /\ UNCHANGED nested
       ELSE /\ calls' = [calls EXCEPT ![t] =
                 Append([@ EXCEPT ![Depth(t)].asked = TRUE],
                        Frame(s, "resolve", NoName))]
            /\ nested' = nested \cup {s}
  /\ UNCHANGED <<libc, slot, busy, made, aborted>>

\* fgn_default_version_of: any definition says which file it is, and the file
\* says which version is the default.
ReadVersion(t) ==
  /\ At(t, "read")
  /\ busy' = [busy EXCEPT ![t] = FALSE]
  /\ SetTop(t, [Top(t) EXCEPT !.pc = "lookup",
                  !.ver = IF Dlsym(Top(t).sym) = Null THEN NoName
                          ELSE DefaultVersion(libc, Top(t).sym)])
  /\ UNCHANGED <<libc, slot, made, aborted, nested>>

\* Variant of Lookup: no second try without a version.
LookupVersioned(t) ==
  LET p == IF Top(t).ver = NoName THEN Null ELSE Dlvsym(Top(t).sym, Top(t).ver)
  IN  /\ At(t, "lookup")
      /\ aborted' = (p = Null)
      /\ SetTop(t, [Top(t) EXCEPT !.pc = "store", !.p = p])
      /\ UNCHANGED <<libc, slot, busy, made, nested>>

\* dlvsym, then dlsym; with neither, vc_fatal.
Lookup(t) ==
  LET versioned == IF Top(t).ver = NoName THEN Null ELSE Dlvsym(Top(t).sym, Top(t).ver)
      p == IF versioned # Null THEN versioned ELSE Dlsym(Top(t).sym)
  IN  /\ At(t, "lookup")
      /\ aborted' = (p = Null)
      /\ SetTop(t, [Top(t) EXCEPT !.pc = "store", !.p = p])
      /\ UNCHANGED <<libc, slot, busy, made, nested>>

\* The slot is stored whatever it holds by now, and the forwarder goes through p.
Store(t) ==
  /\ At(t, "store")
  /\ slot' = [slot EXCEPT ![Top(t).sym] = Top(t).p]
  /\ calls' = [calls EXCEPT ![t] = SubSeq(@, 1, Depth(t) - 1)]
  /\ UNCHANGED <<libc, busy, made, aborted, nested>>

Step(t) ==
  \/ Resolve(t) \/ ReadVersion(t) \/ Lookup(t) \/ Store(t)
  \/ \E s \in Reenters : ReadCalls(t, s)

Next == \E t \in Threads : Step(t) \/ \E s \in Symbols : Call(t, s)

Spec == Init /\ [][Next]_vars

------------------------------------------------------------------------------
Default(s) == CHOOSE i \in Definitions(s) : ~libc.syms[i].hidden

\* The file's tables are there and whole.
Legible ==
  /\ libc.faults = {} /\ libc.versym /\ Len(libc.syms) <= libc.room
  /\ \A d \in DOMAIN libc.verdef : libc.verdef[d].whole /\ libc.verdef[d].name # NoName

\* "Each one below then forwards to the DEFAULT definition": a slot holds
\* libc's default definition whatever libc's dlsym prefers and in whatever
\* order the threads store, unless libc's file cannot be read or the name was
\* resolved from inside another resolution, whose answer the slot then keeps.
SlotsAreDefault ==
  \A s \in Symbols :
    slot[s] # Null /\ Legible /\ s \notin nested => slot[s] = Default(s)

\* "the forwarder is never worse than not being there": re-entry and unreadable
\* tables included, a slot holds the default definition or the one that the
\* unversioned reference would have been bound to, and the process is given up
\* only over a name that libc does not define.
NeverWorse ==
  /\ \A s \in Symbols : slot[s] # Null =>
       slot[s] \in {Default(s), Unversioned(s, FALSE)}
  /\ aborted => \E s \in Symbols : Definitions(s) = {}

\* "turns an unbounded recursion into a slightly worse answer": a resolution
\* that is entered again from its own reading is entered once.
OneLevel == \A t \in Threads : Depth(t) <= 2
==============================================================================
