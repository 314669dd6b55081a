------------------------------ MODULE GlBinding ------------------------------
(***************************************************************************)
(* What gl-fwd.c promises the callers of an entry point, without threads,  *)
(* the load or the table of addresses: each name is bound once, to what    *)
(* the host has for it, and every call is answered with its binding.       *)
(***************************************************************************)
CONSTANTS Entries

VARIABLES
  implements,  \* the entry points the host implements, fixed
  slot,        \* what each name is bound to
  answers      \* what its calls were answered with

vars == <<implements, slot, answers>>

Init ==
  /\ implements \subseteq Entries
  /\ slot = [e \in Entries |-> "resolver"]
  /\ answers = [e \in Entries |-> {}]

Bind(e) ==
  /\ slot[e] = "resolver"
  /\ slot' = [slot EXCEPT ![e] = IF e \in implements THEN "address" ELSE "absent"]
  /\ UNCHANGED <<implements, answers>>

Return(e) ==
  /\ slot[e] # "resolver"
  /\ answers' = [answers EXCEPT ![e] = @ \cup {slot[e]}]
  /\ UNCHANGED <<implements, slot>>

Next == \E e \in Entries : Bind(e) \/ Return(e)

Spec == Init /\ [][Next]_vars
==============================================================================
