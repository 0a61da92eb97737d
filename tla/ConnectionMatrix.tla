-------------------------- MODULE ConnectionMatrix --------------------------
(***************************************************************************)
(* What the conference bridge promises its users: a set of occupied slots  *)
(* and a set of directed connections between them.  Only a free slot is    *)
(* given out, a connection is made or broken only by the call that names   *)
(* both its ends, and a port that leaves takes all its connections with it.*)
(***************************************************************************)
CONSTANT Slot

VARIABLES member,  \* the occupied slots
          conn     \* the connections, pairs << source, sink >>

Init == member = {0} /\ conn = {}

Add(p) ==
    /\ p \notin member
    /\ member' = member \union {p}
    /\ UNCHANGED conn

Connect(s, d) ==
    /\ s \in member /\ d \in member
    /\ conn' = conn \union {<< s, d >>}
    /\ UNCHANGED member

Disconnect(s, d) ==
    /\ conn' = conn \ {<< s, d >>}
    /\ UNCHANGED member

Remove(p) ==
    /\ member' = member \ {p}
    /\ conn' = {c \in conn : c[1] # p /\ c[2] # p}

Next ==
    \/ \E p \in Slot : Add(p) \/ Remove(p)
    \/ \E s, d \in Slot : Connect(s, d) \/ Disconnect(s, d)

Spec == Init /\ [][Next]_<< member, conn >>
=============================================================================
