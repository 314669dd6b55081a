-------------------------------- MODULE GlFwd --------------------------------
(***************************************************************************)
(* The lazy binding of src/gl-fwd.c.  Every entry point jumps through a    *)
(* slot that starts at the resolver.  The first thread to get there loads  *)
(* the host's GL stack and looks every name up in one pass; the others     *)
(* wait for it; each call then moves its own slot off the resolver, once.  *)
(*                                                                         *)
(* ld.so is external: dlopen and dlsym hold its recursive lock, dl_load_   *)
(* lock, and a dlopen runs constructors with the lock held.  Two kinds of  *)
(* constructor call GL: those of the host stack, inside the shim's own     *)
(* load, and those of a plugin that the program opens by itself.           *)
(***************************************************************************)
EXTENDS Integers, FiniteSets

CONSTANTS
  Threads,
  Count,       \* GLFWD_COUNT
  Plugins,     \* whether the program opens plugins whose constructors call GL
  MaxCalls,    \* bound: calls each thread makes
  None

ASSUME ThreadsAssumption == IsFiniteSet(Threads)
ASSUME CountAssumption == Count \in Nat \ {0}
ASSUME MaxCallsAssumption == MaxCalls \in Nat

Entries == 1 .. Count
Address == {"address", "absent"}

ASSUME NoneAssumption ==
  /\ None \notin Threads /\ None \notin Entries /\ None # "handle"
  /\ None \notin [Entries -> Address]

VARIABLES
  \* the host and the settings, fixed
  provides,           \* entry points the target implements
  failing,            \* "open": no target but the shim itself; "calloc": no room
  eager,              \* ANYLINUX_GL_FWD_EAGER=1 and its constructor is to run
  \* the shim
  glfwd_load_state,
  glfwd_in_load,      \* threads whose glfwd_in_load is 1
  glfwd_target,
  glfwd_addr,         \* what the pass found, None before calloc
  glfwd_tab,
  glfwd_called_fwd, glfwd_called_absent,
  \* the threads
  dl_load_lock,
  plugin,             \* threads inside a plugin's constructor
  pc, entry, pos, calls,
  \* history
  answers,            \* what calls of each entry were answered with
  reentered           \* entries that were called from inside the load

host == <<provides, failing>>
shim == <<glfwd_load_state, glfwd_in_load, glfwd_target, glfwd_addr>>
counters == <<glfwd_called_fwd, glfwd_called_absent>>
history == <<answers, reentered>>
vars == <<host, eager, shim, glfwd_tab, counters, dl_load_lock, plugin,
          pc, entry, pos, calls, history>>

Loading == {"open", "alloc", "fill", "publish"}
Locations == {"idle", "ensure", "claim", "wait", "patch", "count_fwd",
              "count_absent", "store"} \cup Loading

Init ==
  /\ provides \in SUBSET Entries
  /\ failing \in SUBSET {"open", "calloc"} /\ eager \in BOOLEAN
  /\ glfwd_load_state = 0 /\ glfwd_in_load = {}
  /\ glfwd_target = None
  /\ glfwd_addr = None
  /\ glfwd_tab = [e \in Entries |-> "resolver"]
  /\ glfwd_called_fwd = 0 /\ glfwd_called_absent = 0
  /\ dl_load_lock = None /\ plugin = {}
  /\ pc = [t \in Threads |-> "idle"]
  /\ entry = [t \in Threads |-> None]
  /\ pos = [t \in Threads |-> 1]
  /\ calls = [t \in Threads |-> 0]
  /\ answers = [e \in Entries |-> {}]
  /\ reentered = {}

usable == "open" \notin failing
memory == "calloc" \notin failing

Goto(t, l) == pc' = [pc EXCEPT ![t] = l]

\* The call jumps to the address it was given and is over.
Answer(t, e, a) ==
  /\ Goto(t, "idle")
  /\ answers' = [answers EXCEPT ![e] = @ \cup {a}]

\* ld.so's lock, recursive.
Enters(t) == dl_load_lock \in {None, t}
Leave(t) == dl_load_lock' = IF t \in plugin THEN t ELSE None

------------------------------------------------------------------------------
\* A trampoline: through the slot, or to the resolver with its own index.
Call(t, e) ==
  /\ pc[t] = "idle" /\ calls[t] < MaxCalls
  /\ calls' = [calls EXCEPT ![t] = @ + 1]
  /\ entry' = [entry EXCEPT ![t] = e]
  /\ IF glfwd_tab[e] = "resolver"
       THEN Goto(t, "ensure") /\ UNCHANGED answers
       ELSE Answer(t, e, glfwd_tab[e])
  /\ UNCHANGED <<host, eager, shim, glfwd_tab, counters, dl_load_lock, plugin,
                 pos, reentered>>

\* The shim's constructor, in eager mode.
EagerInit(t) ==
  /\ eager /\ pc[t] = "idle"
  /\ eager' = FALSE
  /\ entry' = [entry EXCEPT ![t] = None]
  /\ Goto(t, "ensure")
  /\ UNCHANGED <<host, shim, glfwd_tab, counters, dl_load_lock, plugin, pos,
                 calls, history>>

\* Where ensure_target's caller goes on once the table is there.
Resume(t) ==
  /\ Goto(t, IF entry[t] = None THEN "store" ELSE "patch")
  /\ pos' = [pos EXCEPT ![t] = 1]

Ensure(t) ==
  /\ pc[t] = "ensure"
  /\ IF glfwd_load_state = 2 THEN Resume(t) ELSE Goto(t, "claim") /\ UNCHANGED pos
  /\ UNCHANGED <<host, eager, shim, glfwd_tab, counters, dl_load_lock, plugin,
                 entry, calls, history>>

\* Variant of Claim: the state is stored without a compare-exchange.
ClaimAlways(t) ==
  /\ pc[t] = "claim"
  /\ glfwd_load_state' = 1
  /\ glfwd_in_load' = glfwd_in_load \cup {t}
  /\ Goto(t, "open")
  /\ UNCHANGED <<host, eager, glfwd_target, glfwd_addr, glfwd_tab, counters,
                 dl_load_lock, plugin, entry, pos, calls, history>>

\* Variant of Claim: the state says loaded before anything is.
ClaimPublishes(t) ==
  /\ pc[t] = "claim"
  /\ IF glfwd_load_state = 0
       THEN /\ glfwd_load_state' = 2
            /\ glfwd_in_load' = glfwd_in_load \cup {t}
            /\ Goto(t, "open")
       ELSE Goto(t, "wait") /\ UNCHANGED <<glfwd_load_state, glfwd_in_load>>
  /\ UNCHANGED <<host, eager, glfwd_target, glfwd_addr, glfwd_tab, counters,
                 dl_load_lock, plugin, entry, pos, calls, history>>

Claim(t) ==
  /\ pc[t] = "claim"
  /\ IF glfwd_load_state = 0
       THEN /\ glfwd_load_state' = 1
            /\ glfwd_in_load' = glfwd_in_load \cup {t}
            /\ Goto(t, "open")
       ELSE Goto(t, "wait") /\ UNCHANGED <<glfwd_load_state, glfwd_in_load>>
  /\ UNCHANGED <<host, eager, glfwd_target, glfwd_addr, glfwd_tab, counters,
                 dl_load_lock, plugin, entry, pos, calls, history>>

Wait(t) ==
  /\ pc[t] = "wait" /\ glfwd_load_state = 2
  /\ Resume(t)
  /\ UNCHANGED <<host, eager, shim, glfwd_tab, counters, dl_load_lock, plugin,
                 entry, calls, history>>

\* glfwd_open_target enters dlopen ...
OpenTarget(t) ==
  /\ pc[t] = "open" /\ dl_load_lock # t /\ Enters(t)
  /\ dl_load_lock' = t
  /\ UNCHANGED <<host, eager, shim, glfwd_tab, counters, plugin, pc, entry, pos,
                 calls, history>>

\* Variant of Reenter: the call from inside the load settles its slot.
ReenterSettles(t, e) ==
  /\ pc[t] = "open" /\ dl_load_lock = t
  /\ glfwd_tab[e] = "resolver" /\ glfwd_load_state # 2 /\ t \in glfwd_in_load
  /\ glfwd_tab' = [glfwd_tab EXCEPT ![e] = "absent"]
  /\ reentered' = reentered \cup {e}
  /\ UNCHANGED <<host, eager, shim, counters, dl_load_lock, plugin,
                 pc, entry, pos, calls, answers>>

\* ... whose constructors may call GL on the same thread: the resolver finds the
\* load under way, answers this one call with zero and leaves the slot ...
Reenter(t, e) ==
  /\ pc[t] = "open" /\ dl_load_lock = t
  /\ glfwd_tab[e] = "resolver" /\ glfwd_load_state # 2 /\ t \in glfwd_in_load
  /\ reentered' = reentered \cup {e}
  /\ UNCHANGED <<host, eager, shim, glfwd_tab, counters, dl_load_lock, plugin,
                 pc, entry, pos, calls, answers>>

\* ... and dlopen returns; a target that is the shim itself is refused.
TargetOpened(t) ==
  /\ pc[t] = "open" /\ dl_load_lock = t
  /\ glfwd_target' = IF usable THEN "handle" ELSE None
  /\ Leave(t)
  /\ Goto(t, "alloc")
  /\ UNCHANGED <<host, eager, glfwd_load_state, glfwd_in_load, glfwd_addr,
                 glfwd_tab, counters, plugin, entry, pos, calls, history>>

Alloc(t) ==
  /\ pc[t] = "alloc"
  /\ glfwd_addr' = IF memory THEN [e \in Entries |-> "absent"] ELSE None
  /\ Goto(t, IF memory /\ glfwd_target # None THEN "fill" ELSE "publish")
  /\ pos' = [pos EXCEPT ![t] = 1]
  /\ UNCHANGED <<host, eager, glfwd_load_state, glfwd_in_load, glfwd_target,
                 glfwd_tab, counters, dl_load_lock, plugin, entry, calls, history>>

\* Variant of Fill: the pass does not stop at the last name.
FillPastTheEnd(t) ==
  /\ pc[t] = "fill" /\ Enters(t)
  /\ glfwd_addr' = [glfwd_addr EXCEPT ![pos[t]] =
                      IF pos[t] \in provides THEN "address" ELSE "absent"]
  /\ IF pos[t] > Count
       THEN Goto(t, "publish") /\ UNCHANGED pos
       ELSE pos' = [pos EXCEPT ![t] = @ + 1] /\ UNCHANGED pc
  /\ UNCHANGED <<host, eager, glfwd_load_state, glfwd_in_load, glfwd_target,
                 glfwd_tab, counters, dl_load_lock, plugin, entry, calls, history>>

\* Variant of Fill: the names and the slots are off by one.
FillShifted(t) ==
  /\ pc[t] = "fill" /\ Enters(t)
  /\ glfwd_addr' = [glfwd_addr EXCEPT ![pos[t]] =
                      IF pos[t] + 1 \in provides THEN "address" ELSE "absent"]
  /\ IF pos[t] = Count
       THEN Goto(t, "publish") /\ UNCHANGED pos
       ELSE pos' = [pos EXCEPT ![t] = @ + 1] /\ UNCHANGED pc
  /\ UNCHANGED <<host, eager, glfwd_load_state, glfwd_in_load, glfwd_target,
                 glfwd_tab, counters, dl_load_lock, plugin, entry, calls, history>>

\* One turn of glfwd_fill_addr's pass.
Fill(t) ==
  /\ pc[t] = "fill" /\ Enters(t)
  /\ glfwd_addr' = [glfwd_addr EXCEPT ![pos[t]] =
                      IF pos[t] \in provides THEN "address" ELSE "absent"]
  /\ IF pos[t] = Count
       THEN Goto(t, "publish") /\ UNCHANGED pos
       ELSE pos' = [pos EXCEPT ![t] = @ + 1] /\ UNCHANGED pc
  /\ UNCHANGED <<host, eager, glfwd_load_state, glfwd_in_load, glfwd_target,
                 glfwd_tab, counters, dl_load_lock, plugin, entry, calls, history>>

\* Variant of Publish: a load that found no target returns without publishing.
PublishIfTarget(t) ==
  /\ pc[t] = "publish"
  /\ glfwd_in_load' = glfwd_in_load \ {t}
  /\ glfwd_load_state' = IF glfwd_target = None THEN 1 ELSE 2
  /\ Resume(t)
  /\ UNCHANGED <<host, eager, glfwd_target, glfwd_addr, glfwd_tab, counters,
                 dl_load_lock, plugin, entry, calls, history>>

Publish(t) ==
  /\ pc[t] = "publish"
  /\ glfwd_in_load' = glfwd_in_load \ {t}
  /\ glfwd_load_state' = 2
  /\ Resume(t)
  /\ UNCHANGED <<host, eager, glfwd_target, glfwd_addr, glfwd_tab, counters,
                 dl_load_lock, plugin, entry, calls, history>>

------------------------------------------------------------------------------
\* The rest of glfwd_resolve_one.
Found(e) == IF glfwd_addr = None THEN "absent" ELSE glfwd_addr[e]

\* Variant of Patch: a first call counts whether it wins the slot or not.
PatchCounts(t) ==
  LET e == entry[t]
  IN  /\ pc[t] = "patch"
      /\ glfwd_tab' = [glfwd_tab EXCEPT ![e] = Found(e)]
      /\ Goto(t, IF Found(e) = "absent" THEN "count_absent" ELSE "count_fwd")
      /\ UNCHANGED <<host, eager, shim, counters, dl_load_lock, plugin, entry,
                     pos, calls, history>>

\* The compare-exchange on the slot; who loses it returns the same address.
Patch(t) ==
  LET e == entry[t]
  IN  /\ pc[t] = "patch"
      /\ IF glfwd_tab[e] = "resolver"
           THEN /\ glfwd_tab' = [glfwd_tab EXCEPT ![e] = Found(e)]
                /\ Goto(t, IF Found(e) = "absent" THEN "count_absent" ELSE "count_fwd")
                /\ UNCHANGED answers
           ELSE Answer(t, e, Found(e)) /\ UNCHANGED glfwd_tab
      /\ UNCHANGED <<host, eager, shim, counters, dl_load_lock, plugin, entry,
                     pos, calls, reentered>>

CountCall(t) ==
  /\ \/ /\ pc[t] = "count_fwd"
        /\ glfwd_called_fwd' = glfwd_called_fwd + 1
        /\ UNCHANGED glfwd_called_absent
     \/ /\ pc[t] = "count_absent"
        /\ glfwd_called_absent' = glfwd_called_absent + 1
        /\ UNCHANGED glfwd_called_fwd
  /\ Answer(t, entry[t], Found(entry[t]))
  /\ UNCHANGED <<host, eager, shim, glfwd_tab, dl_load_lock, plugin, entry, pos,
                 calls, reentered>>

\* glfwd_init's plain stores, one slot a step.
Store(t) ==
  LET i == pos[t]
  IN  /\ pc[t] = "store"
      /\ glfwd_tab' = [glfwd_tab EXCEPT ![i] = IF Found(i) = "absent" THEN @ ELSE Found(i)]
      /\ IF i = Count
           THEN Goto(t, "idle") /\ UNCHANGED pos
           ELSE pos' = [pos EXCEPT ![t] = i + 1] /\ UNCHANGED pc
      /\ UNCHANGED <<host, eager, shim, counters, dl_load_lock, plugin, entry,
                     calls, history>>

\* The program's own dlopen of a plugin, and its return (a bound: one a thread).
OpenPlugin(t) ==
  /\ Plugins /\ pc[t] = "idle" /\ calls[t] < MaxCalls
  /\ dl_load_lock = None
  /\ dl_load_lock' = t
  /\ plugin' = plugin \cup {t}
  /\ UNCHANGED <<host, eager, shim, glfwd_tab, counters, pc, entry, pos, calls, history>>

PluginOpened(t) ==
  /\ t \in plugin /\ pc[t] = "idle"
  /\ plugin' = plugin \ {t}
  /\ dl_load_lock' = None
  /\ calls' = [calls EXCEPT ![t] = MaxCalls]
  /\ UNCHANGED <<host, eager, shim, glfwd_tab, counters, pc, entry, pos, history>>

Step(t) ==
  \/ Ensure(t) \/ Claim(t) \/ Wait(t)
  \/ OpenTarget(t) \/ TargetOpened(t) \/ Alloc(t) \/ Fill(t) \/ Publish(t)
  \/ Patch(t) \/ CountCall(t) \/ Store(t)
  \/ PluginOpened(t)

Next ==
  \E t \in Threads :
    \/ Step(t) \/ EagerInit(t) \/ OpenPlugin(t)
    \/ \E e \in Entries : Call(t, e) \/ Reenter(t, e)

Spec == Init /\ [][Next]_vars

\* Every thread inside a call keeps running; sched_yield lets the others run.
FairSpec == Spec /\ \A t \in Threads : WF_vars(Step(t))

------------------------------------------------------------------------------
TypeOK ==
  /\ provides \subseteq Entries
  /\ failing \subseteq {"open", "calloc"} /\ eager \in BOOLEAN
  /\ glfwd_load_state \in 0 .. 2
  /\ glfwd_in_load \subseteq Threads
  /\ glfwd_target \in {"handle", None}
  /\ glfwd_addr \in [Entries -> Address] \cup {None}
  /\ glfwd_tab \in [Entries -> Address \cup {"resolver"}]
  /\ glfwd_called_fwd \in Nat /\ glfwd_called_absent \in Nat
  /\ dl_load_lock \in Threads \cup {None}
  /\ plugin \subseteq Threads
  /\ pc \in [Threads -> Locations]
  /\ entry \in [Threads -> Entries \cup {None}]
  /\ pos \in [Threads -> Entries]
  /\ calls \in [Threads -> Nat]
  /\ answers \in [Entries -> SUBSET Address]
  /\ reentered \subseteq Entries

\* The host stack is loaded by one thread, and only while the state says so.
OneLoader ==
  \A t, u \in Threads :
    pc[t] \in Loading => glfwd_load_state = 1 /\ (pc[u] \in Loading => t = u)

\* The entry points a call can reach on this host.
Implemented == IF usable /\ memory THEN provides ELSE {}
HostAnswer(e) == IF e \in Implemented THEN "address" ELSE "absent"

\* Every call that is not one of the load's own is answered with what the host
\* has: nobody acts on a table that the one pass has not finished, and no name
\* stays absent because it was first called from inside the load.
AnswersAreTheHosts == \A e \in Entries : answers[e] \subseteq {HostAnswer(e)}

\* "A slot is written exactly once, by the first call to that name."
SlotsSettle ==
  [][\A e \in Entries : glfwd_tab[e] # "resolver" => glfwd_tab'[e] = glfwd_tab[e]]_vars

\* "a measurement that can exceed its own denominator": the two counters count
\* names, however many threads make the first call of one together.
Counting(l) == Cardinality({t \in Threads : pc[t] = l})
CountsAreNames ==
  /\ glfwd_called_absent + Counting("count_absent")
       = Cardinality({e \in Entries : glfwd_tab[e] = "absent"})
  /\ glfwd_called_fwd + Counting("count_fwd")
       <= Cardinality({e \in Entries : glfwd_tab[e] = "address"})

\* A call that waits for another thread's load goes on, unless a waiting thread
\* holds the lock that the load needs: one inside a plugin's constructor.
WaitEndsButForPlugins ==
  \A t \in Threads :
    (pc[t] = "wait") ~> (pc[t] # "wait" \/ \E u \in plugin : pc[u] = "wait")

\* "Another thread got there first.  It is inside a dlopen, which finishes."
WaitEnds == \A t \in Threads : (pc[t] = "wait") ~> (pc[t] # "wait")

\* The slots and the answers bind lazily to what the host implements.
Abs == INSTANCE GlBinding WITH
         implements <- Implemented, slot <- glfwd_tab
ImplementsBinding == Abs!Spec
==============================================================================
