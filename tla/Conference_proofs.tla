------------------------- MODULE Conference_proofs -------------------------
(***************************************************************************)
(* The conference bridge, for any number of ports, any levels and settings *)
(* and any set of operations that callbacks call.                          *)
(*                                                                         *)
(* Core, the inductive part, relates the listener arrays to the counters:  *)
(* an array holds distinct, existing ports, and connect_cnt, port_cnt and  *)
(* every transmitter_cnt are cardinalities.  Each half needs the other: a  *)
(* counter is exact only because no array holds a port twice and because   *)
(* the ports that remove_port() decrements are the ones that counted it.   *)
(* The loops of get_frame() add that a port whose get_frame is being       *)
(* called is in the table unless it was removed meanwhile.                 *)
(***************************************************************************)
EXTENDS Conference, FiniteSetTheorems, TLAPS

-----------------------------------------------------------------------------
(* The listener arrays.                                                    *)

Distinct(s) == \A i, j \in DOMAIN s : s[i] = s[j] => i = j

\* pj_array_erase() at i takes one element out of an array without duplicates
\* and keeps the others.
LEMMA EraseFacts ==
    ASSUME NEW S, NEW s \in Seq(S), NEW i \in 1 .. Len(s), Distinct(s)
    PROVE  /\ Erase(s, i) \in Seq(S) /\ Distinct(Erase(s, i))
           /\ Len(Erase(s, i)) = Len(s) - 1
           /\ Range(Erase(s, i)) = Range(s) \ {s[i]}
<1> DEFINE e == Erase(s, i)
<1>1. Len(s) \in Nat /\ DOMAIN s = 1 .. Len(s) /\ \A j \in 1 .. Len(s) : s[j] \in S
  OBVIOUS
<1>2. DOMAIN e = 1 .. Len(s) - 1 /\ Len(s) - 1 \in Nat
  BY <1>1 DEF Erase
<1>3. \A j \in 1 .. Len(s) - 1 : e[j] = IF j < i THEN s[j] ELSE s[j + 1]
  BY DEF Erase
<1>4. \A j \in 1 .. Len(s) - 1 : e[j] \in S
  BY <1>1, <1>3
<1>5. e \in [1 .. Len(s) - 1 -> S]
  BY <1>4, <1>1 DEF Erase
<1>6. e \in Seq(S) /\ Len(e) = Len(s) - 1
  BY <1>2, <1>5
<1>7. Distinct(e)
  <2> SUFFICES ASSUME NEW j \in 1 .. Len(s) - 1, NEW k \in 1 .. Len(s) - 1, e[j] = e[k]
               PROVE  j = k
    BY <1>2 DEF Distinct
  <2> DEFINE m == IF j < i THEN j ELSE j + 1
             n == IF k < i THEN k ELSE k + 1
  <2>1. m \in 1 .. Len(s) /\ n \in 1 .. Len(s) /\ s[m] = s[n]
    BY <1>1, <1>3
  <2>2. m = n
    BY <2>1, <1>1 DEF Distinct
  <2> QED
    BY <2>2, <1>1
<1>8. Range(e) \subseteq Range(s) \ {s[i]}
  <2> SUFFICES ASSUME NEW j \in 1 .. Len(s) - 1 PROVE e[j] \in Range(s) /\ e[j] # s[i]
    BY <1>2 DEF Range
  <2>1. CASE j < i
    BY <2>1, <1>1, <1>3 DEF Range, Distinct
  <2>2. CASE ~(j < i)
    <3>1. e[j] = s[j + 1] /\ j + 1 \in 1 .. Len(s) /\ j + 1 # i
      BY <2>2, <1>1, <1>3
    <3> QED
      BY <3>1, <1>1 DEF Range, Distinct
  <2> QED
    BY <2>1, <2>2
<1>9. Range(s) \ {s[i]} \subseteq Range(e)
  <2> SUFFICES ASSUME NEW k \in 1 .. Len(s), s[k] # s[i] PROVE s[k] \in Range(e)
    BY <1>1 DEF Range
  <2>1. CASE k < i
    <3>1. k \in 1 .. Len(s) - 1 /\ e[k] = s[k]
      BY <2>1, <1>1, <1>3
    <3> QED
      BY <3>1, <1>2 DEF Range
  <2>2. CASE k > i
    <3>1. k - 1 \in 1 .. Len(s) - 1 /\ e[k - 1] = s[k]
      BY <2>2, <1>1, <1>3
    <3> QED
      BY <3>1, <1>2 DEF Range
  <2> QED
    BY <2>1, <2>2, <1>1
<1> QED
  BY <1>6, <1>7, <1>8, <1>9

\* Erasing the first occurrence of p, as remove_port() does, leaves no p.
LEMMA WithoutFacts ==
    ASSUME NEW S, NEW s \in Seq(S), Distinct(s), NEW p
    PROVE  /\ Without(s, p) \in Seq(S) /\ Distinct(Without(s, p))
           /\ Range(Without(s, p)) = Range(s) \ {p}
<1>1. CASE p \in Range(s)
  <2> DEFINE i == CHOOSE i \in DOMAIN s : s[i] = p
  <2>1. i \in DOMAIN s /\ s[i] = p
    BY <1>1 DEF Range
  <2>2. i \in 1 .. Len(s)
    BY <2>1
  <2>3. Without(s, p) = Erase(s, i)
    BY <1>1 DEF Without
  <2> HIDE DEF i
  <2> QED
    BY <2>1, <2>2, <2>3, EraseFacts
<1>2. CASE p \notin Range(s)
  BY <1>2 DEF Without
<1> QED
  BY <1>1, <1>2

\* Appending a port that is not listed keeps the array free of duplicates.
LEMMA AppendFacts ==
    ASSUME NEW S, NEW s \in Seq(S), Distinct(s), NEW p \in S, p \notin Range(s)
    PROVE  /\ Append(s, p) \in Seq(S) /\ Distinct(Append(s, p))
           /\ Range(Append(s, p)) = Range(s) \union {p}
<1> DEFINE a == Append(s, p)
<1>1. Len(s) \in Nat /\ DOMAIN s = 1 .. Len(s)
  OBVIOUS
<1>2. a \in Seq(S) /\ DOMAIN a = 1 .. Len(s) + 1
  OBVIOUS
<1>3. \A j \in 1 .. Len(s) : a[j] = s[j] /\ a[j] # p
  BY DEF Range
<1>4. a[Len(s) + 1] = p
  OBVIOUS
<1>5. Distinct(a)
  <2> SUFFICES ASSUME NEW j \in 1 .. Len(s) + 1, NEW k \in 1 .. Len(s) + 1, a[j] = a[k]
               PROVE  j = k
    BY <1>2 DEF Distinct
  <2> HIDE DEF a
  <2>1. CASE j \in 1 .. Len(s) /\ k \in 1 .. Len(s)
    BY <2>1, <1>1, <1>3 DEF Distinct
  <2>2. CASE j = Len(s) + 1 \/ k = Len(s) + 1
    BY <2>2, <1>1, <1>3, <1>4
  <2> QED
    BY <2>1, <2>2, <1>1
<1>6. Range(a) = Range(s) \union {p}
  <2> HIDE DEF a
  <2>1. Range(a) \subseteq Range(s) \union {p}
    <3> SUFFICES ASSUME NEW j \in 1 .. Len(s) + 1 PROVE a[j] \in Range(s) \union {p}
      BY <1>2 DEF Range
    <3>1. CASE j \in 1 .. Len(s)
      BY <3>1, <1>1, <1>3 DEF Range
    <3>2. CASE j = Len(s) + 1
      BY <3>2, <1>4
    <3> QED
      BY <3>1, <3>2, <1>1
  <2>2. p \in Range(a)
    <3>1. Len(s) + 1 \in DOMAIN a
      BY <1>1, <1>2
    <3> QED
      BY <3>1, <1>4 DEF Range
  <2>3. Range(s) \subseteq Range(a)
    <3> SUFFICES ASSUME NEW j \in 1 .. Len(s) PROVE s[j] \in Range(a)
      BY <1>1 DEF Range
    <3>1. j \in DOMAIN a /\ a[j] = s[j]
      BY <1>1, <1>2, <1>3
    <3> QED
      BY <3>1 DEF Range
  <2> QED
    BY <2>1, <2>2, <2>3
<1> QED
  BY <1>2, <1>5, <1>6

\* The length of an array without duplicates is the number of its listeners.
LEMMA LenIsCardinality ==
    ASSUME NEW S, NEW s \in Seq(S), Distinct(s)
    PROVE  IsFiniteSet(Range(s)) /\ Cardinality(Range(s)) = Len(s)
<1>1. Len(s) \in Nat /\ DOMAIN s = 1 .. Len(s)
  OBVIOUS
<1>2. s \in Bijection(1 .. Len(s), Range(s))
  BY <1>1 DEF Bijection, Injection, Surjection, IsInjective, Range, Distinct
<1>3. IsFiniteSet(1 .. Len(s)) /\ Cardinality(1 .. Len(s)) = Len(s)
  BY <1>1, FS_Interval
<1> QED
  BY <1>2, <1>3, FS_Bijection DEF ExistsBijection
-----------------------------------------------------------------------------
(* The table of ports.                                                     *)

PortsOK == ports \in [Slot -> ConfPort \union {NULL}]

Core == PortsOK /\ 0 \in Used /\ ListenersValid /\ CountersExact

\* The sets that the counters of the bridge stand for are finite.
LEMMA CountsAreNat ==
    /\ IsFiniteSet(Slot) /\ Cardinality(Slot) = MaxPorts
    /\ IsFiniteSet(Used) /\ Cardinality(Used) \in Nat
    /\ IsFiniteSet(Conn) /\ Cardinality(Conn) \in Nat
    /\ \A d : IsFiniteSet(Transmitters(d)) /\ Cardinality(Transmitters(d)) \in Nat
<1>1. IsFiniteSet(Slot) /\ Cardinality(Slot) = MaxPorts
  <2>1. MaxPorts \in Nat /\ MaxPorts # 0
    BY ConferenceAssumption
  <2>2. 0 \in Int /\ MaxPorts - 1 \in Int /\ ~(0 > MaxPorts - 1) /\ MaxPorts - 1 - 0 + 1 = MaxPorts
    BY <2>1
  <2> QED
    BY <2>2, FS_Interval DEF Slot
<1>2. Used \subseteq Slot /\ Conn \subseteq Slot \X Slot /\ \A d : Transmitters(d) \subseteq Slot
  BY DEF Used, Conn, Transmitters
<1>3. IsFiniteSet(Slot \X Slot)
  BY <1>1, FS_Product
<1>4. IsFiniteSet(Used) /\ IsFiniteSet(Conn) /\ \A d : IsFiniteSet(Transmitters(d))
  BY <1>1, <1>2, <1>3, FS_Subset
<1> QED
  BY <1>1, <1>4, FS_CardinalityType

\* The fields of a registered port.
LEMMA PortFields ==
    ASSUME PortsOK, NEW p \in Used
    PROVE  /\ p \in Slot /\ ports[p] \in ConfPort
           /\ ports[p].listener_slots \in Seq(Slot)
           /\ ports[p].transmitter_cnt \in Int
<1>1. ports[p] \in ConfPort
  BY DEF PortsOK, Used
<1> QED
  BY <1>1 DEF Used, ConfPort

\* An operation that touches no listener array and no counter keeps the
\* connections.
LEMMA FrameKeepsCore ==
    ASSUME Core, PortsOK', Used' = Used,
           \A q \in Used : /\ ports'[q].listener_slots = ports[q].listener_slots
                           /\ ports'[q].transmitter_cnt = ports[q].transmitter_cnt,
           port_cnt' = port_cnt, connect_cnt' = connect_cnt
    PROVE  Core' /\ Conn' = Conn /\ \A d : Transmitters(d)' = Transmitters(d)
<1>1. \A q \in Used : Listeners(q)' = Listeners(q)
  BY DEF Listeners
<1>2. Conn' = Conn
  BY <1>1 DEF Conn
<1>3. \A d : Transmitters(d)' = Transmitters(d)
  BY <1>1 DEF Transmitters
<1>4. ListenersValid'
  BY <1>1 DEF Core, ListenersValid
<1>5. CountersExact'
  BY <1>2, <1>3 DEF Core, CountersExact
<1> QED
  BY <1>2, <1>3, <1>4, <1>5 DEF Core

\* What create_conf_port() returns is a port.
LEMMA NewPortOK == NewPort \in ConfPort /\ NewPort # NULL
<1>1. << >> \in Seq(Slot)
  OBVIOUS
<1>2. [i \in 1 .. MaxPorts |-> 0] \in [1 .. MaxPorts -> Level \union {0}]
  OBVIOUS
<1>3. NewPort \in ConfPort
  BY <1>1, <1>2, ConferenceAssumption DEF NewPort, ConfPort
<1> QED
  BY <1>3, NullAssumption

\* add_port() keeps the core and adds one unconnected port.
LEMMA AddPortCore ==
    ASSUME Core, NEW p \in Slot, AddPort(p)
    PROVE  /\ Core' /\ Conn' = Conn
           /\ p \notin Used /\ Used' = Used \union {p}
<1>1. PortsOK /\ PortsOK'
  BY NewPortOK DEF Core, PortsOK, AddPort
<1>2. p \notin Used /\ Used' = Used \union {p}
  BY <1>1, NewPortOK DEF Used, AddPort, PortsOK
<1>3. ports'[p] = NewPort /\ \A q \in Used : ports'[q] = ports[q]
  BY <1>1, <1>2 DEF AddPort, PortsOK, Used
<1>4. Listeners(p)' = {} /\ \A q \in Used : Listeners(q)' = Listeners(q)
  BY <1>3 DEF Listeners, NewPort, Range
<1>5. \A q \in Used : Listeners(q) \subseteq Used
  BY DEF Core, ListenersValid
<1>6. Conn' = Conn
  BY <1>2, <1>4, <1>5 DEF Conn
<1>7. Transmitters(p)' = {} /\ \A d \in Used : Transmitters(d)' = Transmitters(d)
  BY <1>2, <1>4, <1>5 DEF Transmitters
<1>8. ListenersValid'
  BY <1>2, <1>3, <1>4 DEF Core, ListenersValid, NewPort
<1>9. CountersExact'
  <2>1. port_cnt' = Cardinality(Used')
    BY <1>2, CountsAreNat, FS_AddElement DEF Core, CountersExact, AddPort
  <2>2. connect_cnt' = Cardinality(Conn')
    BY <1>6 DEF Core, CountersExact, AddPort
  <2>3. ports'[p].transmitter_cnt = Cardinality(Transmitters(p)')
    BY <1>3, <1>7, FS_EmptySet DEF NewPort
  <2>4. \A d \in Used : ports'[d].transmitter_cnt = Cardinality(Transmitters(d)')
    BY <1>3, <1>7 DEF Core, CountersExact
  <2> QED
    BY <2>1, <2>2, <2>3, <2>4, <1>2 DEF CountersExact
<1> QED
  BY <1>1, <1>2, <1>6, <1>8, <1>9 DEF Core

\* Counting a transmitter changes one field.
LEMMA CountedFacts ==
    ASSUME NEW r \in ConfPort, NEW k \in Int
    PROVE  /\ Counted(r, k) \in ConfPort /\ Counted(r, k) # NULL
           /\ Counted(r, k).listener_slots = r.listener_slots
           /\ Counted(r, k).transmitter_cnt = r.transmitter_cnt + k
<1>1. Counted(r, k) \in ConfPort
  BY DEF Counted, ConfPort
<1>2. /\ Counted(r, k).listener_slots = r.listener_slots
      /\ Counted(r, k).transmitter_cnt = r.transmitter_cnt + k
  BY DEF Counted, ConfPort
<1> QED
  BY <1>1, <1>2, NullAssumption

\* Appending a listener changes the array and the level beside it.
LEMMA WithListenerFacts ==
    ASSUME NEW r \in ConfPort, NEW sink \in Slot, NEW level \in Level
    PROVE  /\ WithListener(r, sink, level) \in ConfPort /\ WithListener(r, sink, level) # NULL
           /\ WithListener(r, sink, level).listener_slots = Append(r.listener_slots, sink)
           /\ WithListener(r, sink, level).transmitter_cnt = r.transmitter_cnt
<1>1. Append(r.listener_slots, sink) \in Seq(Slot)
  BY DEF ConfPort
<1>2. WithListener(r, sink, level) \in ConfPort
  BY <1>1 DEF WithListener, ConfPort
<1>3. /\ WithListener(r, sink, level).listener_slots = Append(r.listener_slots, sink)
      /\ WithListener(r, sink, level).transmitter_cnt = r.transmitter_cnt
  BY DEF WithListener, ConfPort
<1> QED
  BY <1>2, <1>3, NullAssumption

\* Erasing a listener changes the array alone.
LEMMA WithoutListenerFacts ==
    ASSUME NEW r \in ConfPort, NEW i \in 1 .. Len(r.listener_slots), Distinct(r.listener_slots)
    PROVE  /\ WithoutListener(r, i) \in ConfPort /\ WithoutListener(r, i) # NULL
           /\ WithoutListener(r, i).listener_slots = Erase(r.listener_slots, i)
           /\ WithoutListener(r, i).transmitter_cnt = r.transmitter_cnt
<1>0. r.listener_slots \in Seq(Slot)
  BY DEF ConfPort
<1>1. Erase(r.listener_slots, i) \in Seq(Slot)
  BY <1>0, EraseFacts
<1>2. WithoutListener(r, i) \in ConfPort
  BY <1>1 DEF WithoutListener, ConfPort
<1>3. /\ WithoutListener(r, i).listener_slots = Erase(r.listener_slots, i)
      /\ WithoutListener(r, i).transmitter_cnt = r.transmitter_cnt
  BY DEF WithoutListener, ConfPort
<1> QED
  BY <1>2, <1>3, NullAssumption

\* The effect of changing a source and counting at a sink, which may be the
\* source itself.
LEMMA TwoPortUpdate ==
    ASSUME PortsOK, NEW src \in Used, NEW sink \in Used, NEW k \in Int,
           NEW r \in ConfPort, r # NULL, r.transmitter_cnt = ports[src].transmitter_cnt,
           ports' = Linked(src, r, sink, k)
    PROVE  /\ PortsOK' /\ Used' = Used
           /\ ports'[src].listener_slots = r.listener_slots
           /\ \A q \in Used \ {src} : ports'[q].listener_slots = ports[q].listener_slots
           /\ ports'[sink].transmitter_cnt = ports[sink].transmitter_cnt + k
           /\ \A q \in Used \ {sink} : ports'[q].transmitter_cnt = ports[q].transmitter_cnt
<1>1. \A q \in Used : q \in Slot /\ ports[q] \in ConfPort
  BY PortFields
<1>2. CASE src = sink
  <2>1. src \in Slot
    BY <1>1
  <2>2. /\ ports'[src] = Counted(r, k)
        /\ \A q \in Slot \ {src} : ports'[q] = ports[q]
        /\ ports' = [q \in Slot |-> ports'[q]]
    <3> DEFINE mid == [ports EXCEPT ![src] = r]
    <3>1. ports' = [mid EXCEPT ![sink] = Counted(mid[sink], k)]
      BY DEF Linked
    <3>2. mid[src] = r /\ mid = [q \in Slot |-> mid[q]] /\ \A q \in Slot \ {src} : mid[q] = ports[q]
      BY <2>1 DEF PortsOK
    <3> HIDE DEF mid
    <3> QED
      BY <1>2, <2>1, <3>1, <3>2
  <2>3. PortsOK'
    BY <2>1, <2>2, CountedFacts DEF PortsOK
  <2>4. Used' = Used
    BY <1>1, <2>1, <2>2, CountedFacts DEF Used
  <2>5. /\ ports'[src].listener_slots = r.listener_slots
        /\ ports'[sink].transmitter_cnt = ports[sink].transmitter_cnt + k
    BY <1>2, <2>2, CountedFacts
  <2>6. \A q \in Used \ {src} : ports'[q] = ports[q]
    BY <1>1, <2>2
  <2> QED
    BY <1>2, <2>3, <2>4, <2>5, <2>6
<1>3. CASE src # sink
  <2>1. ports' = [ports EXCEPT ![src] = r, ![sink] = Counted(ports[sink], k)]
    BY <1>1, <1>3 DEF PortsOK, Linked
  <2>2. ports[sink] \in ConfPort /\ src \in Slot /\ sink \in Slot
    BY <1>1
  <2>3. /\ ports'[src] = r /\ ports'[sink] = Counted(ports[sink], k)
        /\ \A q \in Slot \ {src, sink} : ports'[q] = ports[q]
        /\ DOMAIN ports' = Slot
    BY <1>3, <2>1, <2>2 DEF PortsOK
  <2>4. PortsOK'
    BY <2>1, <2>2, CountedFacts DEF PortsOK
  <2> QED
    BY <1>1, <1>3, <2>2, <2>3, <2>4, CountedFacts DEF Used
<1> QED
  BY <1>2, <1>3

\* connect_port() keeps the core and adds one connection.
LEMMA ConnectPortCore ==
    ASSUME Core, NEW src \in Slot, NEW sink \in Slot, NEW level \in Level,
           ConnectPort(src, sink, level)
    PROVE  /\ Core'
           /\ src \in Used /\ sink \in Used /\ Used' = Used
           /\ Conn' = Conn \union {<< src, sink >>}
<1>1. PortsOK /\ src \in Used /\ sink \in Used /\ sink \notin Listeners(src)
  BY DEF Core, ConnectPort, NotConnected
<1>2. \A q \in Used : /\ ports[q] \in ConfPort
                      /\ ports[q].listener_slots \in Seq(Slot)
                      /\ ports[q].transmitter_cnt \in Int
                      /\ Distinct(ports[q].listener_slots)
  BY <1>1, PortFields DEF Core, ListenersValid, Distinct
<1> DEFINE old == ports[src].listener_slots
           new == Append(old, sink)
           r == WithListener(ports[src], sink, level)
<1>3. new \in Seq(Slot) /\ Distinct(new) /\ Range(new) = Range(old) \union {sink}
  <2>1. sink \notin Range(old) /\ old \in Seq(Slot) /\ Distinct(old)
    BY <1>1, <1>2 DEF Listeners
  <2> QED
    BY <2>1, AppendFacts
<1>4. /\ r \in ConfPort /\ r # NULL
      /\ r.listener_slots = new /\ r.transmitter_cnt = ports[src].transmitter_cnt
  BY <1>1, <1>2, WithListenerFacts
<1>5. ports' = Linked(src, r, sink, 1)
  BY DEF ConnectPort
<1> HIDE DEF r
<1>6. /\ PortsOK' /\ Used' = Used
      /\ ports'[src].listener_slots = new
      /\ \A q \in Used \ {src} : ports'[q].listener_slots = ports[q].listener_slots
      /\ ports'[sink].transmitter_cnt = ports[sink].transmitter_cnt + 1
      /\ \A q \in Used \ {sink} : ports'[q].transmitter_cnt = ports[q].transmitter_cnt
  <2>1. 1 \in Int
    OBVIOUS
  <2>2. /\ PortsOK' /\ Used' = Used
        /\ ports'[src].listener_slots = r.listener_slots
        /\ \A q \in Used \ {src} : ports'[q].listener_slots = ports[q].listener_slots
        /\ ports'[sink].transmitter_cnt = ports[sink].transmitter_cnt + 1
        /\ \A q \in Used \ {sink} : ports'[q].transmitter_cnt = ports[q].transmitter_cnt
    BY <1>1, <1>4, <1>5, <2>1, TwoPortUpdate
  <2> QED
    BY <1>4, <2>2
<1> HIDE DEF new
<1>7. /\ Listeners(src)' = Listeners(src) \union {sink}
      /\ \A q \in Used \ {src} : Listeners(q)' = Listeners(q)
  BY <1>3, <1>6 DEF Listeners
<1>8. Conn' = Conn \union {<< src, sink >>} /\ << src, sink >> \notin Conn
  <2>1. \A a, b \in Used : b \in Listeners(a)' <=> b \in Listeners(a) \/ << a, b >> = << src, sink >>
    BY <1>1, <1>7
  <2> QED
    BY <1>1, <1>6, <2>1 DEF Conn
<1>9. /\ Transmitters(sink)' = Transmitters(sink) \union {src} /\ src \notin Transmitters(sink)
      /\ \A d \in Used \ {sink} : Transmitters(d)' = Transmitters(d)
  BY <1>1, <1>6, <1>7 DEF Transmitters
<1>10. ListenersValid'
  <2>1. \A q \in Used : Listeners(q)' \subseteq Used /\ Distinct(ports'[q].listener_slots)
    BY <1>1, <1>2, <1>3, <1>6, <1>7 DEF Core, ListenersValid
  <2> QED
    BY <1>6, <2>1 DEF ListenersValid, Distinct
<1>11. CountersExact'
  <2>1. port_cnt' = Cardinality(Used')
    BY <1>6 DEF Core, CountersExact, ConnectPort
  <2>2. connect_cnt' = Cardinality(Conn')
    BY <1>8, CountsAreNat, FS_AddElement DEF Core, CountersExact, ConnectPort
  <2>3. ports'[sink].transmitter_cnt = Cardinality(Transmitters(sink)')
    <3>1. ports[sink].transmitter_cnt = Cardinality(Transmitters(sink))
      BY <1>1 DEF Core, CountersExact
    <3>2. ports'[sink].transmitter_cnt = ports[sink].transmitter_cnt + 1
      BY <1>6
    <3>3. IsFiniteSet(Transmitters(sink))
      BY <1>1, CountsAreNat
    <3>4. Cardinality(Transmitters(sink)') = Cardinality(Transmitters(sink)) + 1
      BY <1>9, <3>3, FS_AddElement
    <3> QED
      BY <3>1, <3>2, <3>4
  <2>4. \A d \in Used \ {sink} : ports'[d].transmitter_cnt = Cardinality(Transmitters(d)')
    BY <1>6, <1>9 DEF Core, CountersExact
  <2>5. \A d \in Used' : ports'[d].transmitter_cnt = Cardinality(Transmitters(d)')
    <3> SUFFICES ASSUME NEW d \in Used
                 PROVE  ports'[d].transmitter_cnt = Cardinality(Transmitters(d)')
      BY <1>6
    <3>1. CASE d = sink
      BY <2>3, <3>1
    <3>2. CASE d # sink
      BY <2>4, <3>2
    <3> QED
      BY <3>1, <3>2
  <2> QED
    BY <2>1, <2>2, <2>5 DEF CountersExact
<1> QED
  BY <1>1, <1>6, <1>8, <1>10, <1>11 DEF Core

\* disconnect_port() keeps the core and takes one connection away.
LEMMA DisconnectPortCore ==
    ASSUME Core, NEW src \in Slot, NEW sink \in Slot, DisconnectPort(src, sink)
    PROVE  /\ Core' /\ Used' = Used
           /\ Conn' = Conn \ {<< src, sink >>}
<1>1. PortsOK /\ src \in Used /\ sink \in Used
  BY DEF Core, DisconnectPort
<1>2. \A q \in Used : /\ ports[q] \in ConfPort
                      /\ ports[q].listener_slots \in Seq(Slot)
                      /\ ports[q].transmitter_cnt \in Int
                      /\ Distinct(ports[q].listener_slots)
  BY <1>1, PortFields DEF Core, ListenersValid, Distinct
<1> DEFINE old == ports[src].listener_slots
<1>a. PICK i \in DOMAIN old :
         /\ old[i] = sink
         /\ ports' = Linked(src, WithoutListener(ports[src], i), sink, -1)
  BY DEF DisconnectPort
<1>b. i \in 1 .. Len(old)
  BY <1>1, <1>2, <1>a
<1> DEFINE new == Erase(old, i)
           r == WithoutListener(ports[src], i)
<1>3. /\ new \in Seq(Slot) /\ Distinct(new) /\ Range(new) = Range(old) \ {sink}
      /\ sink \in Range(old)
  <2>1. sink \in Range(old)
    BY <1>a DEF Range
  <2> QED
    BY <1>1, <1>2, <1>a, <1>b, <2>1, EraseFacts
<1>4. /\ r \in ConfPort /\ r # NULL
      /\ r.listener_slots = new /\ r.transmitter_cnt = ports[src].transmitter_cnt
  BY <1>1, <1>2, <1>b, WithoutListenerFacts
<1> HIDE DEF r
<1>6. /\ PortsOK' /\ Used' = Used
      /\ ports'[src].listener_slots = new
      /\ \A q \in Used \ {src} : ports'[q].listener_slots = ports[q].listener_slots
      /\ ports'[sink].transmitter_cnt = ports[sink].transmitter_cnt - 1
      /\ \A q \in Used \ {sink} : ports'[q].transmitter_cnt = ports[q].transmitter_cnt
  <2>1. ports' = Linked(src, r, sink, -1)
    BY <1>a DEF r
  <2>2. -1 \in Int /\ ports[sink].transmitter_cnt - 1 = ports[sink].transmitter_cnt + (-1)
    BY <1>1, <1>2
  <2>3. /\ PortsOK' /\ Used' = Used
        /\ ports'[src].listener_slots = r.listener_slots
        /\ \A q \in Used \ {src} : ports'[q].listener_slots = ports[q].listener_slots
        /\ ports'[sink].transmitter_cnt = ports[sink].transmitter_cnt + (-1)
        /\ \A q \in Used \ {sink} : ports'[q].transmitter_cnt = ports[q].transmitter_cnt
    BY <1>1, <1>4, <2>1, <2>2, TwoPortUpdate
  <2> QED
    BY <1>4, <2>2, <2>3
<1> HIDE DEF new
<1>7. /\ Listeners(src)' = Listeners(src) \ {sink} /\ sink \in Listeners(src)
      /\ \A q \in Used \ {src} : Listeners(q)' = Listeners(q)
  BY <1>3, <1>6 DEF Listeners
<1>8. Conn' = Conn \ {<< src, sink >>} /\ << src, sink >> \in Conn
  <2>1. \A a, b \in Used : b \in Listeners(a)' <=> b \in Listeners(a) /\ << a, b >> # << src, sink >>
    BY <1>1, <1>7
  <2> QED
    BY <1>1, <1>6, <1>7, <2>1 DEF Conn
<1>9. /\ Transmitters(sink)' = Transmitters(sink) \ {src} /\ src \in Transmitters(sink)
      /\ \A d \in Used \ {sink} : Transmitters(d)' = Transmitters(d)
  BY <1>1, <1>6, <1>7 DEF Transmitters
<1>10. ListenersValid'
  <2>1. \A q \in Used : Listeners(q)' \subseteq Used /\ Distinct(ports'[q].listener_slots)
    BY <1>1, <1>2, <1>3, <1>6, <1>7 DEF Core, ListenersValid
  <2> QED
    BY <1>6, <2>1 DEF ListenersValid, Distinct
<1>11. CountersExact'
  <2>1. port_cnt' = Cardinality(Used')
    BY <1>6 DEF Core, CountersExact, DisconnectPort
  <2>2. connect_cnt' = Cardinality(Conn')
    BY <1>8, CountsAreNat, FS_RemoveElement DEF Core, CountersExact, DisconnectPort
  <2>3. ports'[sink].transmitter_cnt = Cardinality(Transmitters(sink)')
    <3>1. ports[sink].transmitter_cnt = Cardinality(Transmitters(sink))
      BY <1>1 DEF Core, CountersExact
    <3>2. ports'[sink].transmitter_cnt = ports[sink].transmitter_cnt - 1
      BY <1>6
    <3>3. IsFiniteSet(Transmitters(sink))
      BY <1>1, CountsAreNat
    <3>4. Cardinality(Transmitters(sink)') = Cardinality(Transmitters(sink)) - 1
      BY <1>9, <3>3, FS_RemoveElement
    <3> QED
      BY <3>1, <3>2, <3>4
  <2>4. \A d \in Used \ {sink} : ports'[d].transmitter_cnt = Cardinality(Transmitters(d)')
    BY <1>6, <1>9 DEF Core, CountersExact
  <2>5. \A d \in Used' : ports'[d].transmitter_cnt = Cardinality(Transmitters(d)')
    <3> SUFFICES ASSUME NEW d \in Used
                 PROVE  ports'[d].transmitter_cnt = Cardinality(Transmitters(d)')
      BY <1>6
    <3>1. CASE d = sink
      BY <2>3, <3>1
    <3>2. CASE d # sink
      BY <2>4, <3>2
    <3> QED
      BY <3>1, <3>2
  <2> QED
    BY <2>1, <2>2, <2>5 DEF CountersExact
<1> QED
  BY <1>1, <1>6, <1>8, <1>10, <1>11 DEF Core

\* The connections from S to p, and from p to S.
Into(S, p) == {<< x, p >> : x \in S}
OutOf(p, S) == {<< p, x >> : x \in S}

\* There are as many connections into, or out of, a port as there are ports on
\* their other ends.
LEMMA PairsCount ==
    ASSUME NEW S, IsFiniteSet(S), NEW p
    PROVE  /\ IsFiniteSet(Into(S, p)) /\ Cardinality(Into(S, p)) = Cardinality(S)
           /\ IsFiniteSet(OutOf(p, S)) /\ Cardinality(OutOf(p, S)) = Cardinality(S)
<1>1. [x \in S |-> << x, p >>] \in Bijection(S, Into(S, p))
  BY DEF Into, Bijection, Injection, Surjection, IsInjective
<1>2. [x \in S |-> << p, x >>] \in Bijection(S, OutOf(p, S))
  BY DEF OutOf, Bijection, Injection, Surjection, IsInjective
<1> QED
  BY <1>1, <1>2, FS_Bijection DEF ExistsBijection

\* remove_port() keeps the core: its two loops together decrement connect_cnt
\* once per connection of the port, the one to itself included.
LEMMA RemovePortCore ==
    ASSUME Core, NEW p \in Slot, RemovePort(p)
    PROVE  /\ Core' /\ Used' = Used \ {p}
           /\ Conn' = {c \in Conn : c[1] # p /\ c[2] # p}
<1>1. PortsOK /\ p \in Used /\ p # 0
  BY DEF Core, RemovePort
<1>2. \A q \in Used : /\ q \in Slot /\ ports[q] \in ConfPort
                      /\ ports[q].listener_slots \in Seq(Slot)
                      /\ ports[q].transmitter_cnt \in Int
                      /\ Distinct(ports[q].listener_slots)
                      /\ Listeners(q) \subseteq Used
  BY <1>1, PortFields DEF Core, ListenersValid, Distinct
<1> DEFINE rest(q) == Without(ports[q].listener_slots, p)
<1>3. \A q \in Used : /\ rest(q) \in Seq(Slot) /\ Distinct(rest(q))
                      /\ Range(rest(q)) = Listeners(q) \ {p}
  BY <1>2, WithoutFacts DEF Listeners
<1>4. \A q \in Used : /\ AfterRemove(q, p) \in ConfPort
                      /\ AfterRemove(q, p).listener_slots = rest(q)
                      /\ AfterRemove(q, p).transmitter_cnt =
                            IF q \in Listeners(p) THEN ports[q].transmitter_cnt - 1
                                                  ELSE ports[q].transmitter_cnt
  <2> SUFFICES ASSUME NEW q \in Used
               PROVE  /\ AfterRemove(q, p) \in ConfPort
                      /\ AfterRemove(q, p).listener_slots = rest(q)
                      /\ AfterRemove(q, p).transmitter_cnt =
                            IF q \in Listeners(p) THEN ports[q].transmitter_cnt - 1
                                                  ELSE ports[q].transmitter_cnt
    OBVIOUS
  <2> DEFINE n == IF q \in Listeners(p) THEN ports[q].transmitter_cnt - 1
                                        ELSE ports[q].transmitter_cnt
  <2>1. n \in Int /\ rest(q) \in Seq(Slot) /\ ports[q] \in ConfPort
    BY <1>2, <1>3
  <2>2. AfterRemove(q, p) = [ports[q] EXCEPT !.listener_slots = rest(q), !.transmitter_cnt = n]
    BY <2>1 DEF AfterRemove, ConfPort
  <2> HIDE DEF n, rest
  <2>3. /\ AfterRemove(q, p) \in ConfPort
        /\ AfterRemove(q, p).listener_slots = rest(q)
        /\ AfterRemove(q, p).transmitter_cnt = n
    BY <2>1, <2>2 DEF ConfPort
  <2> QED
    BY <2>3 DEF n
<1> HIDE DEF rest
<1>5. /\ PortsOK' /\ Used' = Used \ {p}
      /\ \A q \in Used \ {p} : ports'[q] = AfterRemove(q, p)
  <2>1. \A q \in Slot : ports'[q] = IF q = p \/ ports[q] = NULL THEN NULL ELSE AfterRemove(q, p)
    BY DEF RemovePort
  <2>2. \A q \in Used : AfterRemove(q, p) \in ConfPort /\ AfterRemove(q, p) # NULL
    BY <1>4, NullAssumption
  <2>3. \A q \in Slot : ports'[q] \in ConfPort \union {NULL}
    BY <2>1, <2>2 DEF Used
  <2>4. ports' = [q \in Slot |-> ports'[q]]
    BY DEF RemovePort
  <2>5. PortsOK'
    BY <2>3, <2>4 DEF PortsOK
  <2>6. Used' = Used \ {p}
    BY <2>1, <2>2 DEF Used
  <2> QED
    BY <2>1, <2>5, <2>6 DEF Used
<1>6. \A q \in Used \ {p} : Listeners(q)' = Listeners(q) \ {p}
  BY <1>3, <1>4, <1>5 DEF Listeners
<1>7. Conn' = {c \in Conn : c[1] # p /\ c[2] # p}
  <2>1. \A a, b \in Used \ {p} : b \in Listeners(a)' <=> b \in Listeners(a)
    BY <1>6
  <2> QED
    BY <1>5, <2>1 DEF Conn
<1>8. \A d \in Used \ {p} : /\ Transmitters(d)' = Transmitters(d) \ {p}
                            /\ p \in Transmitters(d) <=> d \in Listeners(p)
  BY <1>1, <1>5, <1>6 DEF Transmitters
<1>9. ListenersValid'
  <2>1. \A q \in Used \ {p} : Listeners(q)' \subseteq Used \ {p} /\ Distinct(ports'[q].listener_slots)
    BY <1>2, <1>3, <1>4, <1>5, <1>6
  <2> QED
    BY <1>5, <2>1 DEF ListenersValid, Distinct
<1>10. CountersExact'
  <2>1. port_cnt' = Cardinality(Used')
    BY <1>1, <1>5, CountsAreNat, FS_RemoveElement DEF Core, CountersExact, RemovePort
  <2>2. connect_cnt' = Cardinality(Conn')
    <3> DEFINE T == Transmitters(p)
               L == Listeners(p) \ {p}
               A == Into(T, p)
               B == OutOf(p, L)
    <3>1. IsFiniteSet(T) /\ Cardinality(T) \in Nat
      BY CountsAreNat
    <3>2. IsFiniteSet(L) /\ Cardinality(L) = Len(rest(p)) /\ Len(rest(p)) \in Nat
      <4>1. rest(p) \in Seq(Slot) /\ Distinct(rest(p)) /\ Range(rest(p)) = L
        BY <1>1, <1>3
      <4>2. Len(rest(p)) \in Nat
        BY <4>1
      <4>3. IsFiniteSet(Range(rest(p))) /\ Cardinality(Range(rest(p))) = Len(rest(p))
        BY <4>1, LenIsCardinality
      <4> QED
        BY <4>1, <4>2, <4>3
    <3>3. /\ IsFiniteSet(A) /\ Cardinality(A) = Cardinality(T)
          /\ IsFiniteSet(B) /\ Cardinality(B) = Cardinality(L)
      BY <3>1, <3>2, PairsCount
    <3>4. A \intersect B = {}
      BY DEF Into, OutOf
    <3>5. Conn \intersect (A \union B) = A \union B /\ Conn' = Conn \ (A \union B)
      <4>1. \A c \in Conn : c \in A \union B <=> c[1] = p \/ c[2] = p
        BY <1>1 DEF Conn, Transmitters, Into, OutOf
      <4>2. A \union B \subseteq Conn
        BY <1>1, <1>2 DEF Conn, Transmitters, Into, OutOf
      <4> HIDE DEF A, B
      <4> QED
        BY <1>7, <4>1, <4>2
    <3>6. Cardinality(A \union B) = Cardinality(T) + Cardinality(L) /\ IsFiniteSet(A \union B)
      <4> HIDE DEF A, B, T, L
      <4>1. Cardinality(A \intersect B) = 0
        BY <3>4, FS_EmptySet
      <4>2. /\ IsFiniteSet(A \union B)
            /\ Cardinality(A \union B) = Cardinality(A) + Cardinality(B) - Cardinality(A \intersect B)
        BY <3>3, FS_Union
      <4> QED
        BY <3>1, <3>2, <3>3, <4>1, <4>2
    <3>7. Cardinality(Conn') = Cardinality(Conn) - Cardinality(A \union B)
      <4> HIDE DEF A, B
      <4>1. IsFiniteSet(Conn)
        BY CountsAreNat
      <4>2. Cardinality(Conn \ (A \union B)) =
               Cardinality(Conn) - Cardinality(Conn \intersect (A \union B))
        BY <4>1, FS_Difference
      <4> QED
        BY <3>5, <4>2
    <3>8. connect_cnt' = connect_cnt - Cardinality(T) - Len(rest(p))
      BY DEF RemovePort, rest
    <3>9. connect_cnt = Cardinality(Conn) /\ Cardinality(Conn) \in Nat
      BY CountsAreNat DEF Core, CountersExact
    <3> HIDE DEF A, B, T, L
    <3> QED
      BY <3>1, <3>2, <3>6, <3>7, <3>8, <3>9
  <2>3. ASSUME NEW d \in Used \ {p}
        PROVE  ports'[d].transmitter_cnt = Cardinality(Transmitters(d)')
    <3>1. /\ IsFiniteSet(Transmitters(d)) /\ Cardinality(Transmitters(d)) \in Nat
          /\ ports[d].transmitter_cnt = Cardinality(Transmitters(d))
      BY CountsAreNat DEF Core, CountersExact
    <3>2. Cardinality(Transmitters(d)') =
             IF d \in Listeners(p) THEN Cardinality(Transmitters(d)) - 1
                                   ELSE Cardinality(Transmitters(d))
      BY <1>8, <3>1, FS_RemoveElement
    <3> QED
      BY <1>4, <1>5, <3>1, <3>2
  <2> QED
    BY <1>5, <2>1, <2>2, <2>3 DEF CountersExact
<1> QED
  BY <1>1, <1>5, <1>7, <1>9, <1>10 DEF Core
-----------------------------------------------------------------------------
(* Operations that leave the connections alone.                            *)

\* The ports keep their connections and their counters.
SameLinks ==
    /\ PortsOK' /\ Used' = Used
    /\ \A q \in Used : /\ ports'[q].listener_slots = ports[q].listener_slots
                       /\ ports'[q].transmitter_cnt = ports[q].transmitter_cnt

\* Writing a mix buffer changes that field alone.
LEMMA MixFacts ==
    ASSUME NEW r \in ConfPort, NEW m \in SUBSET (Slot \union {Stale})
    PROVE  LET n == [r EXCEPT !.mix_buf = m]
           IN  /\ n \in ConfPort /\ n # NULL
               /\ n.listener_slots = r.listener_slots
               /\ n.transmitter_cnt = r.transmitter_cnt
<1> DEFINE n == [r EXCEPT !.mix_buf = m]
<1>1. n \in ConfPort
  BY DEF ConfPort
<1>2. n.listener_slots = r.listener_slots /\ n.transmitter_cnt = r.transmitter_cnt
  BY DEF ConfPort
<1> QED
  BY <1>1, <1>2, NullAssumption

\* Writing any mix buffers keeps arrays and counters.
LEMMA MixKeepsLinks ==
    ASSUME PortsOK, NEW M \in SUBSET Used, NEW m \in [M -> SUBSET (Slot \union {Stale})],
           ports' = [p \in Slot |-> IF p \in M THEN [ports[p] EXCEPT !.mix_buf = m[p]] ELSE ports[p]]
    PROVE  SameLinks
<1>1. \A q \in Used : q \in Slot /\ ports[q] \in ConfPort
  BY PortFields
<1>2. ASSUME NEW q \in M
      PROVE  /\ ports'[q] \in ConfPort /\ ports'[q] # NULL
             /\ ports'[q].listener_slots = ports[q].listener_slots
             /\ ports'[q].transmitter_cnt = ports[q].transmitter_cnt
  <2>1. ports[q] \in ConfPort /\ m[q] \in SUBSET (Slot \union {Stale}) /\ q \in Slot
    BY <1>1
  <2>2. ports'[q] = [ports[q] EXCEPT !.mix_buf = m[q]]
    BY <2>1
  <2> QED
    BY <2>1, <2>2, MixFacts
<1>3. \A q \in Slot \ M : ports'[q] = ports[q]
  OBVIOUS
<1>4. ports' = [p \in Slot |-> ports'[p]]
  OBVIOUS
<1>5. PortsOK'
  BY <1>2, <1>3, <1>4 DEF PortsOK
<1>6. Used' = Used
  BY <1>1, <1>2, <1>3 DEF Used
<1> QED
  BY <1>1, <1>2, <1>3, <1>5, <1>6 DEF SameLinks

\* configure_port() keeps arrays and counters.
LEMMA ConfigureKeepsLinks ==
    ASSUME PortsOK, NEW p \in Slot, NEW tx \in Setting, NEW rx \in Setting, ConfigurePort(p, tx, rx)
    PROVE  SameLinks
<1>1. p \in Used /\ \A q \in Used : q \in Slot /\ ports[q] \in ConfPort
  BY PortFields DEF ConfigurePort
<1> DEFINE n == [ports[p] EXCEPT !.tx_setting = tx, !.rx_setting = rx]
<1>2. n \in ConfPort /\ n.listener_slots = ports[p].listener_slots /\ n.transmitter_cnt = ports[p].transmitter_cnt
  BY <1>1 DEF ConfPort
<1>3. ports' = [ports EXCEPT ![p] = n]
  BY <1>1 DEF ConfigurePort, PortsOK
<1> HIDE DEF n
<1>4. PortsOK' /\ Used' = Used
  BY <1>1, <1>2, <1>3, NullAssumption DEF PortsOK, Used
<1> QED
  BY <1>1, <1>2, <1>3, <1>4 DEF SameLinks, PortsOK

\* adjust_conn_level() keeps arrays and counters.
LEMMA AdjustKeepsLinks ==
    ASSUME PortsOK, NEW s \in Slot, NEW d \in Slot, NEW l \in Level, AdjustConnLevel(s, d, l)
    PROVE  SameLinks
<1>1. s \in Used /\ \A q \in Used : q \in Slot /\ ports[q] \in ConfPort
  BY PortFields DEF AdjustConnLevel
<1>2. PICK i : ports' = [ports EXCEPT ![s].listener_adj_level[i] = l]
  BY DEF AdjustConnLevel
<1> DEFINE n == [ports[s] EXCEPT !.listener_adj_level = [@ EXCEPT ![i] = l]]
<1>3. n \in ConfPort /\ n.listener_slots = ports[s].listener_slots /\ n.transmitter_cnt = ports[s].transmitter_cnt
  BY <1>1 DEF ConfPort
<1>4. ports' = [ports EXCEPT ![s] = n]
  BY <1>1, <1>2 DEF PortsOK
<1> HIDE DEF n
<1>5. PortsOK' /\ Used' = Used
  BY <1>1, <1>3, <1>4, NullAssumption DEF PortsOK, Used
<1> QED
  BY <1>1, <1>3, <1>4, <1>5 DEF SameLinks, PortsOK

\* Clearing the mix buffers, and letting them age, keeps arrays and counters.
LEMMA GetFrameKeepsLinks ==
    ASSUME PortsOK, GetFrame \/ GetFrameReturn
    PROVE  SameLinks
<1>1. \A q \in Used : q \in Slot /\ ports[q] \in ConfPort /\ ports[q].mix_buf \in SUBSET (Slot \union {Stale})
  BY PortFields DEF ConfPort
<1>2. CASE GetFrame
  <2> DEFINE m == [p \in Used |-> ClearedMix(p)]
  <2>1. m \in [Used -> SUBSET (Slot \union {Stale})]
    BY <1>1 DEF ClearedMix
  <2>2. ports' = [p \in Slot |-> IF p \in Used THEN [ports[p] EXCEPT !.mix_buf = m[p]] ELSE ports[p]]
    BY <1>2 DEF GetFrame, Used
  <2> HIDE DEF m
  <2> QED
    BY <2>1, <2>2, MixKeepsLinks
<1>3. CASE GetFrameReturn
  <2> DEFINE m == [p \in Used |-> Aged(ports[p].mix_buf)]
  <2>1. m \in [Used -> SUBSET (Slot \union {Stale})]
    BY <1>1 DEF Aged
  <2>2. ports' = [p \in Slot |-> IF p \in Used THEN [ports[p] EXCEPT !.mix_buf = m[p]] ELSE ports[p]]
    BY <1>3 DEF GetFrameReturn, Used
  <2> HIDE DEF m
  <2> QED
    BY <2>1, <2>2, MixKeepsLinks
<1> QED
  BY <1>2, <1>3

\* Mixing the audio of a port into its listeners keeps arrays and counters.
LEMMA ReadAudioKeepsLinks ==
    ASSUME PortsOK, ListenersValid, tick.i \in Used, ReadAudio
    PROVE  SameLinks
<1>1. \A q \in Used : q \in Slot /\ ports[q] \in ConfPort /\ ports[q].mix_buf \in SUBSET (Slot \union {Stale})
  BY PortFields DEF ConfPort
<1> DEFINE M == {d \in Used : d \in Listeners(tick.i) /\ ports[d].tx_setting = "ENABLE"}
           m == [p \in M |-> Mixed(p, tick.i)]
<1>2. m \in [M -> SUBSET (Slot \union {Stale})] /\ M \in SUBSET Used
  BY <1>1 DEF Mixed
<1>3. \A d \in Slot : d \in M <=> d \in Listeners(tick.i) /\ ports[d].tx_setting = "ENABLE"
  BY DEF ListenersValid
<1>4. ports' = [p \in Slot |-> IF p \in M THEN [ports[p] EXCEPT !.mix_buf = m[p]] ELSE ports[p]]
  BY <1>3 DEF ReadAudio
<1> HIDE DEF M, m
<1> QED
  BY <1>2, <1>4, MixKeepsLinks
-----------------------------------------------------------------------------
(* The inductive invariant.                                                *)

\* The loop variables of get_frame().
TickOK ==
    /\ tick \in [phase : {"idle", "read", "in_get", "write", "in_put"},
                 i : 0 .. MaxPorts, ci : 0 .. MaxPorts, gone : BOOLEAN]
    /\ tick.phase \in {"in_get", "in_put"} => tick.i < MaxPorts
    /\ tick.phase = "in_get" /\ ~tick.gone => tick.i \in Used

HistoryOK ==
    /\ got \subseteq Slot \X Slot /\ kept \subseteq Slot /\ served \subseteq Slot
    /\ asked \in [Slot \X Slot -> Level \union {0}]

IndInv == Core /\ TickOK /\ HistoryOK

\* The counters stay within the table, and so do the listener arrays.
LEMMA CoreBounds ==
    ASSUME Core
    PROVE  /\ port_cnt \in 1 .. MaxPorts /\ connect_cnt \in Nat
           /\ \A p \in Used : Len(ports[p].listener_slots) <= MaxPorts
<1>1. port_cnt = Cardinality(Used) /\ connect_cnt = Cardinality(Conn)
  BY DEF Core, CountersExact
<1>2. Cardinality(Used) <= MaxPorts
  <2>1. Used \subseteq Slot
    BY DEF Used
  <2> QED
    BY <2>1, CountsAreNat, FS_Subset
<1>3. Cardinality(Used) # 0
  BY CountsAreNat, FS_EmptySet DEF Core
<1>4. ASSUME NEW p \in Used PROVE Len(ports[p].listener_slots) <= MaxPorts
  <2>1. ports[p].listener_slots \in Seq(Slot) /\ Distinct(ports[p].listener_slots)
    BY PortFields DEF Core, ListenersValid, Distinct
  <2>2. Range(ports[p].listener_slots) \subseteq Slot
    BY <2>1 DEF Range
  <2>3. Cardinality(Range(ports[p].listener_slots)) <= MaxPorts
    BY <2>2, CountsAreNat, FS_Subset
  <2> QED
    BY <2>1, <2>3, LenIsCardinality
<1> QED
  BY <1>1, <1>2, <1>3, <1>4, CountsAreNat, ConferenceAssumption

\* pjmedia_conf_create() establishes the invariant and the empty matrix.
LEMMA InitIndInv == Init => IndInv /\ Matrix!Init
<1> SUFFICES ASSUME Init PROVE IndInv /\ Matrix!Init
  OBVIOUS
<1>0. 0 \in Slot /\ MaxPorts \in Nat
  BY ConferenceAssumption DEF Slot
<1>1. PortsOK /\ Used = {0} /\ ports[0] = NewPort
  BY <1>0, NewPortOK DEF Init, PortsOK, Used
<1>2. Listeners(0) = {}
  BY <1>1 DEF Listeners, NewPort, Range
<1>3. Conn = {} /\ Transmitters(0) = {}
  BY <1>1, <1>2 DEF Conn, Transmitters
<1>4. ListenersValid
  BY <1>1, <1>2 DEF ListenersValid, NewPort
<1>5. CountersExact
  <2>1. Cardinality({0}) = 1 /\ Cardinality({}) = 0
    BY FS_EmptySet, FS_Singleton
  <2>2. port_cnt = Cardinality(Used) /\ connect_cnt = Cardinality(Conn)
    BY <1>1, <1>3, <2>1 DEF Init
  <2>3. ports[0].transmitter_cnt = Cardinality(Transmitters(0))
    <3>1. NewPort.transmitter_cnt = 0
      BY DEF NewPort
    <3> QED
      BY <1>1, <1>3, <2>1, <3>1
  <2> QED
    BY <1>1, <2>2, <2>3 DEF CountersExact
<1>6. TickOK /\ HistoryOK
  BY <1>0 DEF Init, TickOK, HistoryOK, Idle
<1> QED
  BY <1>1, <1>3, <1>4, <1>5, <1>6 DEF IndInv, Core, Init, Matrix!Init

\* Every step keeps the core, and is a step of the connection matrix.
LEMMA NextCore ==
    ASSUME IndInv, [Next]_vars
    PROVE  Core' /\ [Matrix!Next]_<< Used, Conn >>
<1> USE DEF IndInv
<1>1. ASSUME NEW p \in Slot, AddPort(p)
      PROVE  Core' /\ Matrix!Next
  <2>1. Core' /\ Conn' = Conn /\ p \notin Used /\ Used' = Used \union {p}
    BY <1>1, AddPortCore
  <2> QED
    BY <2>1 DEF Matrix!Next, Matrix!Add
<1>2. ASSUME NEW p \in Slot, RemovePort(p)
      PROVE  Core' /\ Matrix!Next
  <2>1. Core' /\ Used' = Used \ {p} /\ Conn' = {c \in Conn : c[1] # p /\ c[2] # p}
    BY <1>2, RemovePortCore
  <2> QED
    BY <2>1 DEF Matrix!Next, Matrix!Remove
<1>3. ASSUME NEW s \in Slot, NEW d \in Slot, NEW l \in Level, ConnectPort(s, d, l)
      PROVE  Core' /\ Matrix!Next
  <2>1. /\ Core' /\ s \in Used /\ d \in Used /\ Used' = Used
        /\ Conn' = Conn \union {<< s, d >>}
    BY <1>3, ConnectPortCore
  <2> QED
    BY <2>1 DEF Matrix!Next, Matrix!Connect
<1>4. ASSUME NEW s \in Slot, NEW d \in Slot, DisconnectPort(s, d)
      PROVE  Core' /\ Matrix!Next
  <2>1. Core' /\ Used' = Used /\ Conn' = Conn \ {<< s, d >>}
    BY <1>4, DisconnectPortCore
  <2> QED
    BY <2>1 DEF Matrix!Next, Matrix!Disconnect
<1>5. ASSUME SameLinks, port_cnt' = port_cnt, connect_cnt' = connect_cnt
      PROVE  Core' /\ UNCHANGED << Used, Conn >>
  BY <1>5, FrameKeepsCore DEF SameLinks
<1>6. ASSUME NEW p \in Slot, NEW tx \in Setting, NEW rx \in Setting, ConfigurePort(p, tx, rx)
      PROVE  Core' /\ UNCHANGED << Used, Conn >>
  BY <1>6, <1>5, ConfigureKeepsLinks DEF Core, ConfigurePort
<1>7. ASSUME NEW s \in Slot, NEW d \in Slot, NEW l \in Level, AdjustConnLevel(s, d, l)
      PROVE  Core' /\ UNCHANGED << Used, Conn >>
  BY <1>7, <1>5, AdjustKeepsLinks DEF Core, AdjustConnLevel
<1>8. CASE GetFrame \/ GetFrameReturn
  <2>1. port_cnt' = port_cnt /\ connect_cnt' = connect_cnt
    BY <1>8 DEF GetFrame, GetFrameReturn
  <2> QED
    BY <1>8, <1>5, <2>1, GetFrameKeepsLinks DEF Core
<1>9. CASE ReadAudio
  <2>1. tick.i \in Used
    BY <1>9 DEF ReadAudio, TickOK
  <2>2. port_cnt' = port_cnt /\ connect_cnt' = connect_cnt
    BY <1>9 DEF ReadAudio
  <2> QED
    BY <1>9, <1>5, <2>1, <2>2, ReadAudioKeepsLinks DEF Core
<1>10. CASE UNCHANGED << ports, port_cnt, connect_cnt >>
  <2>1. SameLinks
    BY <1>10 DEF SameLinks, Core, PortsOK, Used
  <2> QED
    BY <1>10, <1>5, <2>1
<1>11. SkipEmpty \/ SkipRead \/ ReadPort \/ ReadNothing \/ ReadDone \/ WritePort \/ WriteReturn
         \/ UNCHANGED vars
       => UNCHANGED << ports, port_cnt, connect_cnt >>
  BY DEF SkipEmpty, SkipRead, ReadPort, ReadNothing, ReadDone, WritePort, WriteReturn, vars
<1> QED
  BY <1>1, <1>2, <1>3, <1>4, <1>6, <1>7, <1>8, <1>9, <1>10, <1>11 DEF Next, Step

\* What the loops have to keep when they move to another phase or slot.
LEMMA TickTo ==
    ASSUME NEW ph \in {"idle", "read", "in_get", "write", "in_put"},
           NEW a \in 0 .. MaxPorts, NEW b \in 0 .. MaxPorts, NEW g \in BOOLEAN,
           tick' = [phase |-> ph, i |-> a, ci |-> b, gone |-> g],
           ph \in {"in_get", "in_put"} => a < MaxPorts,
           ph = "in_get" => a \in Used'
    PROVE  TickOK'
  BY DEF TickOK

\* Every step keeps the loop variables in their ranges.
LEMMA NextTick ==
    ASSUME IndInv, [Next]_vars
    PROVE  TickOK' /\ HistoryOK'
<1> USE ConferenceAssumption DEF IndInv, TickOK, HistoryOK
<1>0. port_cnt \in 1 .. MaxPorts /\ Used \subseteq Slot /\ MaxPorts \in Nat \ {0}
  BY CoreBounds DEF Used
<1>1. ASSUME NEW p \in Slot, AddPort(p)
      PROVE  TickOK' /\ HistoryOK'
  <2>1. Used' = Used \union {p}
    BY <1>1, AddPortCore
  <2> QED
    BY <1>1, <2>1 DEF AddPort, tickVars
<1>2. ASSUME NEW p \in Slot, RemovePort(p)
      PROVE  TickOK' /\ HistoryOK'
  <2>1. Used' = Used \ {p}
    BY <1>2, RemovePortCore
  <2>2. TickOK'
    BY <1>2, <2>1 DEF RemovePort
  <2>3. HistoryOK'
    BY <1>2 DEF RemovePort
  <2> QED
    BY <2>2, <2>3
<1>3. ASSUME NEW s \in Slot, NEW d \in Slot, NEW l \in Level, ConnectPort(s, d, l)
      PROVE  TickOK' /\ HistoryOK'
  <2>1. Used' = Used
    BY <1>3, ConnectPortCore
  <2> QED
    BY <1>3, <2>1 DEF ConnectPort, tickVars
<1>4. ASSUME NEW s \in Slot, NEW d \in Slot, DisconnectPort(s, d)
      PROVE  TickOK' /\ HistoryOK'
  <2>1. Used' = Used
    BY <1>4, DisconnectPortCore
  <2> QED
    BY <1>4, <2>1 DEF DisconnectPort, tickVars
<1>5. ASSUME NEW p \in Slot, NEW tx \in Setting, NEW rx \in Setting, ConfigurePort(p, tx, rx)
      PROVE  TickOK' /\ HistoryOK'
  BY <1>5 DEF ConfigurePort, tickVars
<1>6. ASSUME NEW s \in Slot, NEW d \in Slot, NEW l \in Level, AdjustConnLevel(s, d, l)
      PROVE  TickOK' /\ HistoryOK'
  BY <1>6 DEF AdjustConnLevel, tickVars
<1>a. /\ tick.i \in 0 .. MaxPorts /\ tick.ci \in 0 .. MaxPorts /\ tick.gone \in BOOLEAN
      /\ tick = [phase |-> tick.phase, i |-> tick.i, ci |-> tick.ci, gone |-> tick.gone]
  OBVIOUS
<1>b. InLoop => /\ tick.i + 1 \in 0 .. MaxPorts /\ tick.i < MaxPorts /\ tick.i \in Slot
                /\ tick.ci + 0 \in 0 .. MaxPorts /\ tick.ci + 1 \in 0 .. MaxPorts
  BY <1>0, <1>a DEF InLoop, Slot
<1>c. tick.phase \in {"in_get", "in_put"} => tick.i + 1 \in 0 .. MaxPorts /\ tick.i \in Slot
  BY <1>0, <1>a DEF Slot
<1>d. 0 \in 0 .. MaxPorts
  BY <1>0
<1>7. CASE GetFrame \/ GetFrameReturn \/ ReadDone
  <2>1. PICK ph \in {"read", "idle", "write"} :
           tick' = [phase |-> ph, i |-> 0, ci |-> 0, gone |-> FALSE]
    BY <1>7 DEF GetFrame, GetFrameReturn, ReadDone, Idle
  <2>2. TickOK'
    BY <2>1, <1>d, TickTo
  <2> QED
    BY <2>2, <1>7, <1>0 DEF GetFrame, GetFrameReturn, ReadDone
<1>8. CASE SkipEmpty \/ SkipRead
  <2>1. PICK k \in {0, 1}, ph \in {"read", "write"} :
           tick' = [phase |-> ph, i |-> tick.i + 1, ci |-> tick.ci + k, gone |-> FALSE]
    BY <1>8 DEF SkipEmpty, SkipRead, NextSlot
  <2>2. TickOK'
    BY <2>1, <1>8, <1>b, TickTo DEF SkipEmpty, SkipRead
  <2> QED
    BY <2>2, <1>8, <1>b DEF SkipEmpty, SkipRead
<1>9. CASE ReadPort \/ WritePort
  <2>1. PICK ph \in {"in_get", "in_put"} :
           tick' = [phase |-> ph, i |-> tick.i, ci |-> tick.ci + 1, gone |-> tick.gone]
    BY <1>9, <1>a DEF ReadPort, WritePort, CallPort
  <2>2. InLoop /\ tick.i \in Slot /\ ports[tick.i] # NULL /\ ports' = ports
    BY <1>9, <1>b DEF ReadPort, WritePort
  <2>3. tick.i \in Used'
    BY <2>2 DEF Used
  <2>4. TickOK'
    BY <2>1, <2>2, <2>3, <1>a, <1>b, TickTo
  <2> QED
    BY <2>2, <2>4, <1>9 DEF ReadPort, WritePort
<1>10. CASE ReadNothing \/ WriteReturn \/ ReadAudio
  <2>1. PICK ph \in {"read", "write"}, g \in BOOLEAN :
           tick' = [phase |-> ph, i |-> tick.i + 1, ci |-> tick.ci, gone |-> g]
    BY <1>10, <1>a DEF ReadNothing, WriteReturn, ReadAudio
  <2>2. tick.i \in Slot /\ tick.i + 1 \in 0 .. MaxPorts
    BY <1>10, <1>c DEF ReadNothing, WriteReturn, ReadAudio
  <2>3. TickOK'
    BY <2>1, <2>2, <1>a, TickTo
  <2>4. ReadAudio => {tick.i} \X Listeners(tick.i) \subseteq Slot \X Slot
    <3>1. ReadAudio => tick.i \in Used
      BY DEF ReadAudio
    <3> QED
      BY <3>1, <2>2, <1>0 DEF Core, ListenersValid
  <2> QED
    BY <2>3, <2>4, <1>10 DEF ReadNothing, WriteReturn, ReadAudio
<1>13. CASE UNCHANGED vars
  BY <1>13 DEF vars, tickVars, Used
<1> QED
  BY <1>1, <1>2, <1>3, <1>4, <1>5, <1>6, <1>7, <1>8, <1>9, <1>10, <1>13
     DEF Next, Step
-----------------------------------------------------------------------------
(* The theorems.                                                           *)

\* The inductive invariant holds in every reachable state.
THEOREM IndInvariance == Spec => []IndInv
<1>1. IndInv /\ [Next]_vars => IndInv'
  BY NextCore, NextTick DEF IndInv
<1>2. Init => IndInv
  BY InitIndInv
<1> QED
  BY <1>1, <1>2, PTL DEF Spec

\* The types, and the bounds of the arrays: no sequence of calls writes past
\* the max_ports entries of a listener array.
THEOREM TypeInvariance == Spec => []TypeOK
<1>1. IndInv => TypeOK
  BY CoreBounds DEF IndInv, TypeOK, Core, PortsOK, TickOK, HistoryOK
<1> QED
  BY <1>1, IndInvariance, PTL

\* No listener array ever holds a port twice or one that is gone, so that
\* get_frame() and remove_port() may dereference what they find there.
THEOREM ListenersValidInvariance == Spec => []ListenersValid
<1>1. IndInv => ListenersValid
  BY DEF IndInv, Core
<1> QED
  BY <1>1, IndInvariance, PTL

\* The counters are exact after every sequence of operations.
THEOREM CountersExactInvariance == Spec => []CountersExact
<1>1. IndInv => CountersExact
  BY DEF IndInv, Core
<1> QED
  BY <1>1, IndInvariance, PTL

\* The bridge implements the connection matrix.
THEOREM BridgeImplementsMatrix == Spec => ImplementsMatrix
<1>1. IndInv /\ [Next]_vars => [Matrix!Next]_<< Used, Conn >>
  BY NextCore
<1>2. Init => Matrix!Init
  BY InitIndInv
<1> QED
  BY <1>1, <1>2, IndInvariance, PTL DEF Spec, ImplementsMatrix, Matrix!Spec
-----------------------------------------------------------------------------
(* The mix, when callbacks add, disconnect and remove but connect no ports. *)

MixInv ==
    tick.phase # "idle" =>
        \A p \in Used : SendsAudio(p) =>
            /\ Heard(p) \intersect Transmitters(p) \subseteq ports[p].mix_buf
            /\ ports[p].mix_buf \subseteq Heard(p)

\* The transmitters of a port are its connections, and a port without any is sent
\* no audio.
LEMMA TransmittersAreConn ==
    ASSUME Core
    PROVE  /\ \A p \in Used : \A s : s \in Transmitters(p) <=> << s, p >> \in Conn
           /\ \A p \in Used : SendsAudio(p) <=>
                 ports[p].tx_setting = "ENABLE" /\ Transmitters(p) # {}
<1>1. \A p \in Used : \A s : s \in Transmitters(p) <=> << s, p >> \in Conn
  BY DEF Transmitters, Conn
<1>2. ASSUME NEW p \in Used PROVE ports[p].transmitter_cnt > 0 <=> Transmitters(p) # {}
  <2>1. /\ ports[p].transmitter_cnt = Cardinality(Transmitters(p))
        /\ IsFiniteSet(Transmitters(p)) /\ Cardinality(Transmitters(p)) \in Nat
    BY CountsAreNat DEF Core, CountersExact
  <2>2. Cardinality(Transmitters(p)) = 0 <=> Transmitters(p) = {}
    BY <2>1, FS_EmptySet
  <2> QED
    BY <2>1, <2>2
<1> QED
  BY <1>1, <1>2 DEF SendsAudio

\* What an operation that makes no connection must leave alone: the mix buffer and
\* the setting of the ports that stay.
MixKept ==
    /\ Conn' \subseteq Conn
    /\ \A p \in Used \intersect Used' : /\ ports'[p].mix_buf = ports[p].mix_buf
                                        /\ ports'[p].tx_setting = ports[p].tx_setting

\* Such an operation keeps the mix: a port loses transmitters, and needs less.
LEMMA FewerConnections ==
    ASSUME Core, Core', MixInv, MixKept, got' = got, tick'.phase # "idle" => tick.phase # "idle"
    PROVE  MixInv'
<1> SUFFICES ASSUME tick.phase # "idle", NEW p \in Used', SendsAudio(p)'
             PROVE  /\ Heard(p)' \intersect Transmitters(p)' \subseteq ports'[p].mix_buf
                    /\ ports'[p].mix_buf \subseteq Heard(p)'
  BY DEF MixInv
<1>1. \A s : s \in Transmitters(p)' <=> << s, p >> \in Conn'
  BY DEF Transmitters, Conn
<1>2. Transmitters(p)' # {} /\ ports'[p].tx_setting = "ENABLE"
  <2>1. /\ ports'[p].transmitter_cnt > 0 /\ ports'[p].tx_setting = "ENABLE"
        /\ ports'[p].transmitter_cnt = Cardinality(Transmitters(p)')
    BY DEF SendsAudio, Core, CountersExact
  <2>2. Cardinality({}) = 0
    BY FS_EmptySet
  <2> QED
    BY <2>1, <2>2
<1>3. PICK s : << s, p >> \in Conn'
  BY <1>1, <1>2
<1>4. p \in Used /\ << s, p >> \in Conn
  BY <1>3 DEF MixKept, Conn
<1>5. Transmitters(p)' \subseteq Transmitters(p) /\ Transmitters(p) # {}
  BY <1>1, <1>4, TransmittersAreConn DEF MixKept
<1>6. /\ ports'[p].mix_buf = ports[p].mix_buf /\ ports'[p].tx_setting = ports[p].tx_setting
      /\ Heard(p)' = Heard(p)
  BY <1>4 DEF MixKept, Heard
<1>7. SendsAudio(p)
  BY <1>2, <1>4, <1>5, <1>6, TransmittersAreConn
<1>8. /\ Heard(p) \intersect Transmitters(p) \subseteq ports[p].mix_buf
      /\ ports[p].mix_buf \subseteq Heard(p)
  BY <1>4, <1>7 DEF MixInv
<1> QED
  BY <1>5, <1>6, <1>8

\* disconnect_port() touches neither mix buffers nor settings.
LEMMA DisconnectKeepsMix ==
    ASSUME Core, NEW src \in Slot, NEW sink \in Slot, DisconnectPort(src, sink)
    PROVE  MixKept
<1>1. Used' = Used /\ Conn' \subseteq Conn
  BY DisconnectPortCore
<1>2. PICK i : ports' = Linked(src, WithoutListener(ports[src], i), sink, -1)
  BY DEF DisconnectPort
<1> DEFINE r == WithoutListener(ports[src], i)
           mid == [ports EXCEPT ![src] = r]
<1>3. /\ src \in Used /\ sink \in Used
      /\ \A q \in Used : q \in Slot /\ ports[q] \in ConfPort
  BY PortFields DEF Core, DisconnectPort
<1>4. r.mix_buf = ports[src].mix_buf /\ r.tx_setting = ports[src].tx_setting /\ DOMAIN r = DOMAIN ports[src]
  BY <1>3 DEF WithoutListener, ConfPort
<1> HIDE DEF r
<1>5. \A q \in Used : mid[q] = IF q = src THEN r ELSE ports[q]
  BY <1>3 DEF Core, PortsOK
<1>6. DOMAIN mid = Slot
  BY DEF Core, PortsOK
<1>7. ports' = [mid EXCEPT ![sink] = Counted(mid[sink], -1)]
  BY <1>2 DEF Linked, r
<1> HIDE DEF mid
<1>8. \A q \in Used : ports'[q] = IF q = sink THEN Counted(mid[q], -1) ELSE mid[q]
  BY <1>3, <1>6, <1>7
<1>9. ASSUME NEW q \in Used
      PROVE  /\ Counted(mid[q], -1).mix_buf = mid[q].mix_buf
             /\ Counted(mid[q], -1).tx_setting = mid[q].tx_setting
  BY <1>3, <1>4, <1>5 DEF Counted, ConfPort
<1>10. \A q \in Used : mid[q].mix_buf = ports[q].mix_buf /\ mid[q].tx_setting = ports[q].tx_setting
  BY <1>4, <1>5
<1> QED
  BY <1>1, <1>8, <1>9, <1>10 DEF MixKept

\* remove_port() leaves the mix buffers and settings of the other ports alone.
LEMMA RemoveKeepsMix ==
    ASSUME Core, NEW p \in Slot, RemovePort(p)
    PROVE  MixKept
<1>1. Used' = Used \ {p} /\ Conn' \subseteq Conn
  BY RemovePortCore
<1>2. ASSUME NEW q \in Used \ {p}
      PROVE  ports'[q].mix_buf = ports[q].mix_buf /\ ports'[q].tx_setting = ports[q].tx_setting
  <2>1. q \in Slot /\ ports[q] \in ConfPort /\ ports[q] # NULL
    BY PortFields DEF Core, Used
  <2>2. ports'[q] = AfterRemove(q, p)
    BY <2>1 DEF RemovePort
  <2> QED
    BY <2>1, <2>2 DEF AfterRemove, ConfPort
<1> QED
  BY <1>1, <1>2 DEF MixKept

\* Every step keeps the mix complete when no callback makes a connection: the
\* copying case is right because the only transmitter of a port is the one that is
\* being copied.
LEMMA NextMixInv ==
    ASSUME "connect" \notin InCallback, IndInv, MixInv, [Next]_vars
    PROVE  MixInv'
<1> USE DEF IndInv
<1>0. Core'
  BY NextCore
<1>1. ASSUME tick'.phase = "idle" PROVE MixInv'
  BY <1>1 DEF MixInv
<1>2. ASSUME UNCHANGED << ports, got >>, tick'.phase # "idle" => tick.phase # "idle" PROVE MixInv'
  <2>1. Used' = Used /\ Conn' = Conn
    BY <1>2 DEF Used, Conn, Listeners
  <2>2. MixKept
    BY <1>2, <2>1 DEF MixKept
  <2> QED
    BY <1>0, <1>2, <2>2, FewerConnections
<1>3. ASSUME NEW p \in Slot, RemovePort(p) PROVE MixInv'
  <2>1. got' = got /\ tick'.phase = tick.phase
    BY <1>3 DEF RemovePort, TickOK
  <2> QED
    BY <1>0, <1>3, <2>1, RemoveKeepsMix, FewerConnections
<1>4. ASSUME NEW s \in Slot, NEW d \in Slot, DisconnectPort(s, d) PROVE MixInv'
  <2>1. got' = got /\ tick' = tick
    BY <1>4 DEF DisconnectPort, tickVars
  <2> QED
    BY <1>0, <1>4, <2>1, DisconnectKeepsMix, FewerConnections
<1>5. ASSUME NEW p \in Slot, AddPort(p) PROVE MixInv'
  <2>1. Conn' = Conn /\ p \notin Used
    BY <1>5, AddPortCore
  <2>2. (\A q \in Used : ports'[q] = ports[q]) /\ tick' = tick /\ got' = got
    BY <1>5, <2>1 DEF AddPort, Core, PortsOK, Used, tickVars
  <2>3. MixKept
    BY <2>1, <2>2 DEF MixKept
  <2> QED
    BY <1>0, <2>2, <2>3, FewerConnections
<1>6. CASE \E s, d \in Slot, l \in Level : ConnectPort(s, d, l) \/ AdjustConnLevel(s, d, l)
  BY <1>1, <1>6 DEF ConnectPort, AdjustConnLevel, MayCall, tickVars
<1>7. CASE \E p \in Slot, tx, rx \in Setting : ConfigurePort(p, tx, rx)
  BY <1>1, <1>7 DEF ConfigurePort, tickVars
<1>8. CASE GetFrame
  <2>1. SameLinks /\ port_cnt' = port_cnt /\ connect_cnt' = connect_cnt
    BY <1>8, GetFrameKeepsLinks DEF Core, GetFrame
  <2>2. ASSUME NEW p \in Used, SendsAudio(p)' PROVE ports'[p].mix_buf = {}
    <3>1. p \in Slot /\ ports[p] \in ConfPort /\ ports[p] # NULL
      BY PortFields DEF Core, Used
    <3>2. ports[p].transmitter_cnt > 0
      BY <2>1, <2>2 DEF SendsAudio, SameLinks
    <3>3. ports'[p] = [ports[p] EXCEPT !.mix_buf = {}]
      BY <1>8, <3>1, <3>2 DEF GetFrame, ClearedMix
    <3> QED
      BY <3>1, <3>3 DEF ConfPort
  <2>3. Used' = Used /\ \A p : Heard(p)' = {}
    BY <1>8, <2>1 DEF GetFrame, SameLinks, Heard
  <2> QED
    BY <2>2, <2>3 DEF MixInv
<1>9. CASE ReadAudio
  <2>1. tick.i \in Used /\ tick.i \in Slot
    BY <1>9 DEF ReadAudio, TickOK, Used
  <2>2. SameLinks /\ port_cnt' = port_cnt /\ connect_cnt' = connect_cnt
    BY <1>9, <2>1, ReadAudioKeepsLinks DEF Core, ReadAudio
  <2>3. Used' = Used /\ \A d : Transmitters(d)' = Transmitters(d)
    BY <2>2, FrameKeepsCore DEF SameLinks
  <2>4. ASSUME NEW p \in Used, SendsAudio(p)'
        PROVE  /\ Heard(p)' \intersect Transmitters(p) \subseteq ports'[p].mix_buf
               /\ ports'[p].mix_buf \subseteq Heard(p)'
    <3>1. p \in Slot /\ ports[p] \in ConfPort /\ ports[p].transmitter_cnt \in Int
      BY PortFields DEF Core
    <3>2. ports'[p] = IF p \in Listeners(tick.i) /\ ports[p].tx_setting = "ENABLE"
                      THEN [ports[p] EXCEPT !.mix_buf = Mixed(p, tick.i)]
                      ELSE ports[p]
      BY <1>9, <3>1 DEF ReadAudio
    <3>3. /\ ports'[p].tx_setting = ports[p].tx_setting
          /\ ports'[p].transmitter_cnt = ports[p].transmitter_cnt
      BY <3>1, <3>2 DEF ConfPort
    <3>4. SendsAudio(p)
      BY <2>4, <3>3 DEF SendsAudio
    <3>5. /\ Heard(p) \intersect Transmitters(p) \subseteq ports[p].mix_buf
          /\ ports[p].mix_buf \subseteq Heard(p)
      BY <1>9, <3>4 DEF MixInv, ReadAudio
    <3>6. CASE p \notin Listeners(tick.i)
      <4>1. Heard(p)' = Heard(p)
        BY <1>9, <3>6 DEF ReadAudio, Heard
      <4> QED
        BY <3>2, <3>5, <3>6, <4>1
    <3>7. CASE p \in Listeners(tick.i)
      <4>1. ports'[p].mix_buf = Mixed(p, tick.i)
        BY <3>1, <3>2, <3>4, <3>7 DEF SendsAudio, ConfPort
      <4>2. Heard(p)' = Heard(p) \union {tick.i} /\ tick.i \in Transmitters(p)
        <5>1. got' = got \union ({tick.i} \X Listeners(tick.i))
          BY <1>9 DEF ReadAudio
        <5>2. \A q \in Slot : << q, p >> \in got' <=> << q, p >> \in got \/ q = tick.i
          BY <3>7, <5>1
        <5> QED
          BY <2>1, <3>7, <5>2 DEF Heard, Transmitters
      <4>3. CASE ports[p].transmitter_cnt > 1
        BY <3>5, <4>1, <4>2, <4>3 DEF Mixed
      <4>4. CASE ~(ports[p].transmitter_cnt > 1)
        <5>1. Cardinality(Transmitters(p)) = 1
          BY <3>1, <3>4, <4>4 DEF SendsAudio, Core, CountersExact
        <5>2. Transmitters(p) = {tick.i}
          BY <4>2, <5>1, CountsAreNat, FS_Singleton
        <5> QED
          BY <4>1, <4>2, <4>4, <5>2 DEF Mixed
      <4> QED
        BY <4>3, <4>4
    <3> QED
      BY <3>6, <3>7
  <2> QED
    BY <2>3, <2>4 DEF MixInv
<1>10. CASE SkipEmpty \/ SkipRead \/ ReadPort \/ ReadNothing \/ ReadDone \/ WritePort \/ WriteReturn
  BY <1>2, <1>10 DEF SkipEmpty, SkipRead, ReadPort, ReadNothing, ReadDone, WritePort, WriteReturn
<1>11. CASE GetFrameReturn
  BY <1>1, <1>11 DEF GetFrameReturn, Idle
<1>12. CASE UNCHANGED vars
  BY <1>2, <1>12 DEF vars, tickVars
<1> QED
  BY <1>3, <1>4, <1>5, <1>6, <1>7, <1>8, <1>9, <1>10, <1>11, <1>12 DEF Next, Step

\* Whatever ports callbacks add, disconnect and remove under the running loops,
\* write_port() sends a port the signals of all its transmitters that delivered
\* audio in this tick, and none that did not come in this tick.
THEOREM MixIsCompleteInvariance ==
    ASSUME "connect" \notin InCallback
    PROVE  Spec => []MixIsComplete
<1>1. Init => MixInv
  BY DEF Init, MixInv, Idle
<1>2. IndInv /\ MixInv /\ [Next]_vars => MixInv'
  BY NextMixInv
<1>3. MixInv => MixIsComplete
  BY DEF MixInv, MixIsComplete
<1> QED
  BY <1>1, <1>2, <1>3, IndInvariance, PTL DEF Spec
-----------------------------------------------------------------------------
(* The loops, whatever callbacks do.                                       *)

\* The first slot that the running loop has not dealt with.
Passed == IF tick.phase \in {"in_get", "in_put"} THEN tick.i + 1 ELSE tick.i

\* ci counts the ports visited, which are in the slots passed, and the ports of the
\* beginning that are in those slots were visited.
ServeInv ==
    tick.phase # "idle" =>
        /\ kept \subseteq Used
        /\ \A p \in kept : p < Passed => p \in served
        /\ \A p \in served : p < Passed
        /\ tick.ci = Cardinality(served)

\* Every step keeps it.
LEMMA NextServeInv ==
    ASSUME IndInv, ServeInv, [Next]_vars
    PROVE  ServeInv'
<1> USE DEF IndInv
<1>0. /\ tick.i \in Int /\ tick.ci \in Int /\ Passed \in Int
      /\ tick = [phase |-> tick.phase, i |-> tick.i, ci |-> tick.ci, gone |-> tick.gone]
      /\ \A p \in Slot : p \in Int
  <2>1. /\ tick.i \in Int /\ tick.ci \in Int
        /\ tick = [phase |-> tick.phase, i |-> tick.i, ci |-> tick.ci, gone |-> tick.gone]
    BY ConferenceAssumption DEF TickOK
  <2> QED
    BY <2>1, ConferenceAssumption DEF Passed, Slot
<1>1. ASSUME tick'.phase = "idle" PROVE ServeInv'
  BY <1>1 DEF ServeInv
<1>2. ASSUME kept' \subseteq kept, kept' \subseteq Used', served' = served,
             tick'.phase # "idle" => tick.phase # "idle", Passed' = Passed, tick'.ci = tick.ci
      PROVE  ServeInv'
  BY <1>2 DEF ServeInv
<1>3. ASSUME Used \subseteq Used', UNCHANGED tickVars PROVE ServeInv'
  <2>1. Passed' = Passed
    BY <1>3 DEF Passed, tickVars
  <2> QED
    BY <1>3, <2>1 DEF ServeInv, tickVars
<1>4. ASSUME NEW p \in Slot, AddPort(p) PROVE ServeInv'
  BY <1>3, <1>4, AddPortCore DEF AddPort
<1>5. ASSUME NEW p \in Slot, RemovePort(p) PROVE ServeInv'
  <2>1. Used' = Used \ {p} /\ kept' = kept \ {p} /\ served' = served
    BY <1>5, RemovePortCore DEF RemovePort
  <2>2. tick'.phase = tick.phase /\ tick'.i = tick.i /\ tick'.ci = tick.ci
    BY <1>5 DEF RemovePort, TickOK
  <2>3. Passed' = Passed
    BY <2>2 DEF Passed
  <2>4. CASE tick.phase = "idle"
    BY <1>1, <2>2, <2>4
  <2>5. CASE tick.phase # "idle"
    <3>1. kept' \subseteq Used'
      BY <2>1, <2>5 DEF ServeInv
    <3> QED
      BY <1>2, <2>1, <2>2, <2>3, <3>1
  <2> QED
    BY <2>4, <2>5
<1>6. ASSUME NEW s \in Slot, NEW d \in Slot, NEW l \in Level, ConnectPort(s, d, l)
      PROVE  ServeInv'
  BY <1>3, <1>6, ConnectPortCore DEF ConnectPort
<1>7. ASSUME NEW s \in Slot, NEW d \in Slot, DisconnectPort(s, d)
      PROVE  ServeInv'
  BY <1>3, <1>7, DisconnectPortCore DEF DisconnectPort
<1>8. ASSUME NEW p \in Slot, NEW tx \in Setting, NEW rx \in Setting, ConfigurePort(p, tx, rx)
      PROVE  ServeInv'
  BY <1>1, <1>8 DEF ConfigurePort, tickVars
<1>9. ASSUME NEW s \in Slot, NEW d \in Slot, NEW l \in Level, AdjustConnLevel(s, d, l)
      PROVE  ServeInv'
  BY <1>1, <1>9 DEF AdjustConnLevel, tickVars
<1>10. CASE GetFrame \/ ReadDone
  <2>1. Used' = Used
    BY <1>10, GetFrameKeepsLinks DEF ReadDone, Used, SameLinks, Core
  <2>2. /\ tick'.i = 0 /\ tick'.ci = 0 /\ tick'.phase \in {"read", "write"}
        /\ kept' = Used /\ served' = {}
    BY <1>10 DEF GetFrame, ReadDone, Idle
  <2>3. Passed' = 0
    BY <2>2 DEF Passed
  <2>4. \A p \in Used : ~ (p < 0)
    BY ConferenceAssumption DEF Used, Slot
  <2>5. Cardinality(served') = 0
    BY <2>2, FS_EmptySet
  <2> QED
    BY <2>1, <2>2, <2>3, <2>4, <2>5 DEF ServeInv
<1>11. CASE GetFrameReturn
  BY <1>1, <1>11 DEF GetFrameReturn, Idle
<1>12. CASE ReadNothing \/ WriteReturn
  <2>1. /\ tick'.phase \in {"read", "write"} /\ tick'.i = tick.i + 1 /\ tick'.ci = tick.ci
        /\ tick.phase \in {"in_get", "in_put"} /\ UNCHANGED << ports, kept, served >>
    BY <1>0, <1>12 DEF ReadNothing, WriteReturn
  <2>2. Passed' = Passed /\ Used' = Used
    BY <2>1 DEF Passed, Used
  <2>3. kept \subseteq Used
    BY <2>1 DEF ServeInv
  <2> QED
    BY <1>2, <2>1, <2>2, <2>3
<1>13. CASE ReadAudio
  <2>1. tick.i \in Used
    BY <1>13 DEF ReadAudio, TickOK
  <2>2. Used' = Used
    BY <1>13, <2>1, ReadAudioKeepsLinks DEF Core, SameLinks
  <2>3. /\ tick'.phase = "read" /\ tick'.i = tick.i + 1 /\ tick'.ci = tick.ci
        /\ tick.phase = "in_get" /\ UNCHANGED << kept, served >>
    BY <1>0, <1>13 DEF ReadAudio
  <2>4. Passed' = Passed /\ kept \subseteq Used
    BY <2>3 DEF Passed, ServeInv
  <2> QED
    BY <1>2, <2>2, <2>3, <2>4
<1>14. CASE SkipEmpty
  <2>1. /\ tick.phase \in {"read", "write"} /\ tick'.phase = tick.phase
        /\ tick'.i = tick.i + 1 /\ tick'.ci = tick.ci
        /\ ports[tick.i] = NULL /\ UNCHANGED << ports, kept, served >>
    BY <1>0, <1>14 DEF SkipEmpty, NextSlot
  <2>2. Used' = Used /\ tick.i \notin Used /\ Passed = tick.i /\ Passed' = tick.i + 1
    BY <2>1 DEF Used, Passed
  <2>3. /\ kept \subseteq Used /\ \A p \in kept : p < tick.i => p \in served
        /\ \A p \in served : p < tick.i
        /\ tick.ci = Cardinality(served)
    BY <2>1, <2>2 DEF ServeInv
  <2>4. \A p \in kept : p < tick.i + 1 => p \in served
    <3> SUFFICES ASSUME NEW p \in kept, p < tick.i + 1 PROVE p \in served
      OBVIOUS
    <3>1. p \in Int /\ p # tick.i
      BY <1>0, <2>2, <2>3 DEF Used
    <3>2. p < tick.i
      BY <1>0, <3>1
    <3> QED
      BY <2>3, <3>2
  <2>5. \A p \in served : p < tick.i + 1
    BY <1>0, <2>3 DEF HistoryOK
  <2> QED
    BY <2>1, <2>2, <2>3, <2>4, <2>5 DEF ServeInv
<1>15. CASE SkipRead \/ ReadPort \/ WritePort
  <2>1. /\ tick.phase \in {"read", "write"} /\ tick'.phase # "idle"
        /\ Passed = tick.i /\ Passed' = tick.i + 1 /\ tick'.ci = tick.ci + 1
        /\ InLoop /\ ports[tick.i] # NULL /\ UNCHANGED << ports, kept >>
        /\ served' = served \union {tick.i}
    <3>1. CASE SkipRead
      BY <1>0, <3>1 DEF SkipRead, NextSlot, Passed
    <3>2. CASE ReadPort \/ WritePort
      BY <1>0, <3>2 DEF ReadPort, WritePort, CallPort, Passed
    <3> QED
      BY <1>15, <3>1, <3>2
  <2>2. Used' = Used
    BY <2>1 DEF Used
  <2>3. /\ kept \subseteq Used /\ \A p \in kept : p < tick.i => p \in served
        /\ \A p \in served : p < tick.i
        /\ tick.ci = Cardinality(served)
    BY <2>1 DEF ServeInv
  <2>4. tick'.ci = Cardinality(served')
    <3>1. IsFiniteSet(served) /\ tick.i \notin served
      <4>1. IsFiniteSet(served)
        BY CountsAreNat, FS_Subset DEF HistoryOK
      <4> QED
        BY <1>0, <2>3, <4>1
    <3>2. Cardinality(served \union {tick.i}) = Cardinality(served) + 1
      BY <3>1, FS_AddElement
    <3> QED
      BY <2>1, <2>3, <3>2
  <2>5. \A p \in kept : p < tick.i + 1 => p \in served'
    <3> SUFFICES ASSUME NEW p \in kept, p < tick.i + 1 PROVE p \in served'
      OBVIOUS
    <3>1. p \in Int
      BY <1>0, <2>3 DEF Used
    <3>2. p < tick.i \/ p = tick.i
      BY <1>0, <3>1
    <3> QED
      BY <2>1, <2>3, <3>2
  <2>6. \A p \in served' : p < tick.i + 1
    BY <1>0, <2>1, <2>3 DEF HistoryOK
  <2> QED
    BY <2>1, <2>2, <2>3, <2>4, <2>5, <2>6 DEF ServeInv
<1>16. CASE UNCHANGED vars
  BY <1>3, <1>16 DEF vars, Used
<1> QED
  BY <1>4, <1>5, <1>6, <1>7, <1>8, <1>9, <1>10, <1>11, <1>12, <1>13, <1>14, <1>15,
     <1>16 DEF Next, Step

\* When a loop has counted at least as many ports as there are, those it has not
\* visited are at most as many as visited ones that are gone.
LEMMA PassedOver ==
    ASSUME NEW U, NEW S, NEW K \in SUBSET U, IsFiniteSet(U), IsFiniteSet(S),
           Cardinality(S) >= Cardinality(U)
    PROVE  Cardinality(K \ S) <= Cardinality(S \ U)
<1>1. /\ IsFiniteSet(U \ S) /\ IsFiniteSet(S \ U) /\ IsFiniteSet(U \intersect S)
      /\ IsFiniteSet(K \ S)
  <2>1. U \ S \subseteq U /\ S \ U \subseteq S /\ U \intersect S \subseteq U /\ K \ S \subseteq U
    OBVIOUS
  <2> QED
    BY <2>1, FS_Subset
<1>2. Cardinality(K \ S) <= Cardinality(U \ S)
  <2>1. K \ S \subseteq U \ S
    OBVIOUS
  <2> QED
    BY <1>1, <2>1, FS_Subset
<1>3. Cardinality(U \ S) = Cardinality(U) - Cardinality(U \intersect S)
  BY FS_Difference
<1>4. Cardinality(S \ U) = Cardinality(S) - Cardinality(U \intersect S)
  <2>1. U \intersect S = S \intersect U
    OBVIOUS
  <2>2. Cardinality(S \ U) = Cardinality(S) - Cardinality(S \intersect U)
    BY FS_Difference
  <2> QED
    BY <2>1, <2>2
<1>5. /\ Cardinality(K \ S) \in Nat /\ Cardinality(U \ S) \in Nat
      /\ Cardinality(S \ U) \in Nat /\ Cardinality(U \intersect S) \in Nat
      /\ Cardinality(U) \in Nat /\ Cardinality(S) \in Nat
  BY <1>1, FS_CardinalityType
<1> QED
  BY <1>2, <1>3, <1>4, <1>5

\* Whatever callbacks do with the table, a loop of get_frame() passes over no more
\* of the ports that are registered from its beginning to its end than ports it
\* has served are gone at its end; in particular it visits them all when none is
\* removed.
THEOREM FewPassedOverInvariance == Spec => []FewPassedOver
<1>1. Init => ServeInv
  BY DEF Init, ServeInv, Idle
<1>2. IndInv /\ ServeInv /\ [Next]_vars => ServeInv'
  BY NextServeInv
<1>3. IndInv /\ ServeInv => FewPassedOver
  <2> SUFFICES ASSUME IndInv, ServeInv, tick.phase \in {"read", "write"}, ~InLoop
               PROVE  Cardinality(kept \ served) <= Cardinality(served \ Used)
    BY DEF FewPassedOver
  <2>1. /\ kept \in SUBSET Used /\ (\A p \in kept : p < tick.i => p \in served)
        /\ tick.ci = Cardinality(served)
    BY DEF ServeInv, Passed
  <2>2. /\ tick.i \in Int /\ tick.ci \in Int /\ MaxPorts \in Nat
        /\ port_cnt \in Int /\ port_cnt = Cardinality(Used)
        /\ IsFiniteSet(Used) /\ IsFiniteSet(served)
    <3>1. IsFiniteSet(served)
      BY CountsAreNat, FS_Subset DEF IndInv, HistoryOK
    <3> QED
      BY <3>1, CountsAreNat, CoreBounds, ConferenceAssumption
         DEF IndInv, TickOK, Core, CountersExact
  <2>3. CASE tick.i >= MaxPorts
    <3>1. kept \ served = {}
      <4> SUFFICES ASSUME NEW p \in kept PROVE p \in served
        OBVIOUS
      <4>1. p \in 0 .. MaxPorts - 1
        BY <2>1 DEF Used, Slot
      <4> QED
        BY <2>1, <2>2, <2>3, <4>1
    <3>2. served \ Used \subseteq served
      OBVIOUS
    <3>3. Cardinality(served \ Used) \in Nat
      BY <2>2, <3>2, FS_Subset, FS_CardinalityType
    <3> QED
      BY <3>1, <3>3, FS_EmptySet
  <2>4. CASE tick.ci >= port_cnt
    BY <2>1, <2>2, <2>4, PassedOver
  <2> QED
    BY <2>2, <2>3, <2>4 DEF InLoop
<1> QED
  BY <1>1, <1>2, <1>3, IndInvariance, PTL DEF Spec
=============================================================================
