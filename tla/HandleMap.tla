------------------------------ MODULE HandleMap ------------------------------
(***************************************************************************)
(* What the handle cache of foreign-dlopen.c promises to the threads that  *)
(* open host libraries, without its lock, its table or its loops: an open  *)
(* asks for a path once, is given the handle recorded for that path if     *)
(* there is one, and otherwise loads the object and may record its handle. *)
(* A recorded answer never changes, and a handle is left unrecorded only   *)
(* once the map has no room.                                               *)
(***************************************************************************)
EXTENDS Sequences

CONSTANTS Threads, Keys, Handles, NoHandle

VARIABLES
  map,     \* path -> the handle every later open of it is given, or NoHandle
  full,    \* no further handle can be recorded
  phase,   \* where each thread's innermost open is
  chain,   \* the paths a thread is opening, innermost first
  handle   \* what that open has been given so far

vars == <<map, full, phase, chain, handle>>

Init ==
  /\ map = [k \in Keys |-> NoHandle]
  /\ full = FALSE
  /\ phase = [t \in Threads |-> "idle"]
  /\ chain = [t \in Threads |-> <<>>]
  /\ handle = [t \in Threads |-> NoHandle]

\* An open starts, from outside or inside the load of a parent object.
Ask(t, k) ==
  /\ phase[t] \in {"idle", "loading"}
  /\ phase' = [phase EXCEPT ![t] = "asking"]
  /\ chain' = [chain EXCEPT ![t] = <<k>> \o @]
  /\ UNCHANGED <<map, full, handle>>

\* The lookup takes effect at one instant.
Lookup(t) ==
  /\ phase[t] = "asking"
  /\ phase' = [phase EXCEPT ![t] = "looked"]
  /\ handle' = [handle EXCEPT ![t] = map[Head(chain[t])]]
  /\ UNCHANGED <<map, full, chain>>

\* The innermost open returns to its caller: the program, or the parent's load.
Return(t) ==
  /\ chain' = [chain EXCEPT ![t] = Tail(@)]
  /\ phase' = [phase EXCEPT ![t] = IF Tail(chain[t]) = <<>> THEN "idle" ELSE "loading"]

Hit(t) ==
  /\ phase[t] = "looked"
  /\ handle[t] # NoHandle
  /\ Return(t)
  /\ UNCHANGED <<map, full, handle>>

Miss(t) ==
  /\ phase[t] = "looked"
  /\ handle[t] = NoHandle
  /\ phase' = [phase EXCEPT ![t] = "loading"]
  /\ UNCHANGED <<map, full, chain, handle>>

\* The load ends: it failed, or its handle is handed out without being
\* recorded, or it goes on to be recorded.
Load(t, h) ==
  /\ phase[t] = "loading"
  /\ handle' = [handle EXCEPT ![t] = h]
  /\ \/ Return(t)
     \/ /\ h # NoHandle
        /\ phase' = [phase EXCEPT ![t] = "recording"]
        /\ UNCHANGED chain
  /\ UNCHANGED <<map, full>>

\* The first handle recorded for a path stays; room may run out with any record.
Record(t) ==
  LET k == Head(chain[t])
  IN  /\ phase[t] = "recording"
      /\ phase' = [phase EXCEPT ![t] = "recorded"]
      /\ IF full
           THEN UNCHANGED <<map, full>>
           ELSE /\ map' = [map EXCEPT ![k] = IF @ = NoHandle THEN handle[t] ELSE @]
                /\ full' \in BOOLEAN
      /\ UNCHANGED <<chain, handle>>

Recorded(t) ==
  /\ phase[t] = "recorded"
  /\ Return(t)
  /\ UNCHANGED <<map, full, handle>>

Next ==
  \E t \in Threads :
    \/ \E k \in Keys : Ask(t, k)
    \/ Lookup(t) \/ Hit(t) \/ Miss(t)
    \/ \E h \in Handles \cup {NoHandle} : Load(t, h)
    \/ Record(t) \/ Recorded(t)

Spec == Init /\ [][Next]_vars
==============================================================================
