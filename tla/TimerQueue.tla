----------------------------- MODULE TimerQueue -----------------------------
(***************************************************************************)
(* What a timer heap promises, without a heap: a deadline for every        *)
(* scheduled entry.  An entry is scheduled at most once, may be cancelled  *)
(* while it is scheduled, and is handed to a poller when it is due and no  *)
(* other entry has an earlier deadline.                                    *)
(***************************************************************************)
EXTENDS Integers

CONSTANTS
    Entry,      \* timer entries
    Poller,     \* threads that poll
    Idle,       \* the deadline of an entry that is not scheduled
    None        \* no entry

VARIABLES
    now,        \* the clock
    deadline,   \* deadline[e]: when e expires, or Idle
    firing      \* firing[p]: the entry p took and has not finished with

vars == <<now, deadline, firing>>

Init ==
    /\ now = 0
    /\ deadline = [e \in Entry |-> Idle]
    /\ firing = [p \in Poller |-> None]

Tick == now' = now + 1 /\ UNCHANGED <<deadline, firing>>

Schedule(e) ==
    /\ deadline[e] = Idle
    /\ deadline'[e] \in Nat
    /\ deadline' = [deadline EXCEPT ![e] = deadline'[e]]
    /\ UNCHANGED <<now, firing>>

Cancel(e) ==
    /\ deadline[e] # Idle
    /\ deadline' = [deadline EXCEPT ![e] = Idle]
    /\ UNCHANGED <<now, firing>>

Earliest(e) ==
    /\ deadline[e] # Idle
    /\ \A f \in Entry : deadline[f] # Idle => deadline[e] <= deadline[f]

Fire(p, e) ==
    /\ firing[p] = None
    /\ Earliest(e)
    /\ deadline[e] <= now
    /\ deadline' = [deadline EXCEPT ![e] = Idle]
    /\ firing' = [firing EXCEPT ![p] = e]
    /\ UNCHANGED now

Finish(p) ==
    /\ firing[p] # None
    /\ firing' = [firing EXCEPT ![p] = None]
    /\ UNCHANGED <<now, deadline>>

Next ==
    \/ Tick
    \/ \E e \in Entry : Schedule(e) \/ Cancel(e)
    \/ \E p \in Poller, e \in Entry : Fire(p, e)
    \/ \E p \in Poller : Finish(p)

Spec == Init /\ [][Next]_vars
=============================================================================
