----------------------------- MODULE Conference -----------------------------
(***************************************************************************)
(* The conference bridge of pjmedia/src/pjmedia/conference.c: the table of *)
(* ports, the listener array and the counters of every port, and the       *)
(* get_frame() of the master port that reads, mixes and writes all ports.  *)
(*                                                                         *)
(* Every operation holds conf->mutex from its first test to its end, so it *)
(* is one step; one that finds nothing to do, or a port that is not there, *)
(* changes nothing and is a stuttering step.  get_frame() also holds the   *)
(* mutex, but it calls the get_frame and put_frame of the ports, and the   *)
(* mutex is recursive: a callback may call the operations named in InCallback. *)
(*                                                                         *)
(* Samples are abstracted to the slots whose signal a mix buffer holds.    *)
(***************************************************************************)
EXTENDS Integers, Sequences, FiniteSets, Functions

CONSTANTS MaxPorts,    \* conf->max_ports
          Level,       \* the normalised connection levels that are used
          Setting,     \* the port settings that are used
          Configured,  \* the slots whose settings are changed
          InCallback,  \* the operations that port callbacks call
          NULL

Slot == 0 .. MaxPorts - 1

\* In a mix buffer: samples left over from an earlier tick.
Stale == -1

ASSUME ConferenceAssumption ==
    /\ MaxPorts \in Nat \ {0}
    /\ Level \subseteq Nat
    /\ "ENABLE" \in Setting /\ Setting \subseteq {"ENABLE", "MUTE", "DISABLE"}
    /\ InCallback \subseteq {"add", "connect", "disconnect", "remove"}

VARIABLES ports, port_cnt, connect_cnt,
          tick,    \* the loops of get_frame(): phase, i, ci; gone: the port
                   \* whose callback runs was removed
          got,     \* the connections over which audio came in this tick
          kept,    \* the ports registered since the running loop began
          served,  \* the ports the running loop has visited
          asked    \* the level last asked for on each existing connection

tickVars == << tick, got, kept, served >>
vars == << ports, port_cnt, connect_cnt, tickVars, asked >>

ConfPort ==
    [listener_slots : Seq(Slot), listener_adj_level : [1 .. MaxPorts -> Level \union {0}],
     transmitter_cnt : Int, tx_setting : Setting, rx_setting : Setting,
     mix_buf : SUBSET (Slot \union {Stale})]

ASSUME NullAssumption == NULL \notin ConfPort

\* create_conf_port()
NewPort ==
    [listener_slots |-> << >>, listener_adj_level |-> [i \in 1 .. MaxPorts |-> 0],
     transmitter_cnt |-> 0, tx_setting |-> "ENABLE", rx_setting |-> "ENABLE",
     mix_buf |-> {}]

Idle == [phase |-> "idle", i |-> 0, ci |-> 0, gone |-> FALSE]

\* pjmedia_conf_create() registers the sound device as port 0.
Init ==
    /\ ports = [p \in Slot |-> IF p = 0 THEN NewPort ELSE NULL]
    /\ port_cnt = 1
    /\ connect_cnt = 0
    /\ tick = Idle
    /\ got = {} /\ kept = {} /\ served = {}
    /\ asked = [c \in Slot \X Slot |-> 0]

Used == {p \in Slot : ports[p] # NULL}

Listeners(s) == Range(ports[s].listener_slots)

Conn == {c \in Used \X Used : c[2] \in Listeners(c[1])}

\* An operation is called between two ticks or from a callback of a port.  The
\* sound device, port 0, has none.
MayCall(op) ==
    \/ tick.phase = "idle"
    \/ tick.phase \in {"in_get", "in_put"} /\ tick.i # 0 /\ op \in InCallback
-----------------------------------------------------------------------------
(* Operations on the table of ports.                                       *)

\* pjmedia_conf_add_port() takes the first empty slot.
AddPort(p) ==
    /\ MayCall("add")
    /\ port_cnt < MaxPorts
    /\ ports[p] = NULL /\ \A q \in Slot : q < p => ports[q] # NULL
    /\ ports' = [ports EXCEPT ![p] = NewPort]
    /\ port_cnt' = port_cnt + 1
    /\ UNCHANGED << connect_cnt, tickVars, asked >>

ConfigurePort(p, tx, rx) ==
    /\ tick.phase = "idle"
    /\ p \in Used \intersect Configured
    /\ ports' = [ports EXCEPT ![p].tx_setting = tx, ![p].rx_setting = rx]
    /\ UNCHANGED << port_cnt, connect_cnt, tickVars, asked >>

\* Mutant: the connection is not looked up first.
NotConnected_Unchecked(src, sink) == TRUE

NotConnected(src, sink) == sink \notin Listeners(src)

\* A source with one listener more, and a sink with k transmitters more.
WithListener(port, sink, level) ==
    [port EXCEPT !.listener_slots = Append(@, sink),
                 !.listener_adj_level[Len(port.listener_slots) + 1] = level]

Counted(port, k) == [port EXCEPT !.transmitter_cnt = @ + k]

\* The ports once src is the given one and sink counts k transmitters more; a
\* port may be its own listener.
Linked(src, port, sink, k) ==
    [[ports EXCEPT ![src] = port] EXCEPT ![sink] = Counted(@, k)]

ConnectPort(src, sink, level) ==
    /\ MayCall("connect")
    /\ src \in Used /\ sink \in Used
    /\ NotConnected(src, sink)
    /\ ports' = Linked(src, WithListener(ports[src], sink, level), sink, 1)
    /\ connect_cnt' = connect_cnt + 1
    /\ asked' = [asked EXCEPT ![<< src, sink >>] = level]
    /\ UNCHANGED << port_cnt, tickVars >>

\* pj_array_erase()
Erase(s, i) == [j \in 1 .. Len(s) - 1 |-> IF j < i THEN s[j] ELSE s[j + 1]]

\* What pjmedia_conf_disconnect_port() asserts of a connection it breaks, and a
\* build without assertions does not test.
DisconnectAsserts(src, sink) ==
    /\ Len(ports[src].listener_slots) \in 1 .. MaxPorts - 1
    /\ ports[sink].transmitter_cnt \in 1 .. MaxPorts - 1

\* The listener is erased; listener_adj_level stays as it is.
WithoutListener(port, i) == [port EXCEPT !.listener_slots = Erase(@, i)]

DisconnectPort(src, sink) ==
    /\ MayCall("disconnect")
    /\ src \in Used /\ sink \in Used
    /\ \E i \in DOMAIN ports[src].listener_slots :
          /\ ports[src].listener_slots[i] = sink
          /\ ports' = Linked(src, WithoutListener(ports[src], i), sink, -1)
    /\ connect_cnt' = connect_cnt - 1
    /\ asked' = [asked EXCEPT ![<< src, sink >>] = 0]
    /\ UNCHANGED << port_cnt, tickVars >>

AdjustConnLevel(src, sink, level) ==
    /\ tick.phase = "idle"
    /\ src \in Used
    /\ \E i \in DOMAIN ports[src].listener_slots :
          /\ ports[src].listener_slots[i] = sink
          /\ ports' = [ports EXCEPT ![src].listener_adj_level[i] = level]
    /\ asked' = [asked EXCEPT ![<< src, sink >>] = level]
    /\ UNCHANGED << port_cnt, connect_cnt, tickVars >>

\* The array s without p, if p is in it.
Without(s, p) ==
    IF p \in Range(s) THEN Erase(s, CHOOSE i \in DOMAIN s : s[i] = p) ELSE s

Transmitters(d) == {s \in Used : d \in Listeners(s)}

\* Mutant: the ports that p transmitted to keep counting it.
AfterRemove_StillCounted(q, p) ==
    [ports[q] EXCEPT !.listener_slots = Without(@, p)]

\* Mutant: p stays in the listener arrays.
AfterRemove_StillListener(q, p) ==
    [ports[q] EXCEPT !.transmitter_cnt = IF q \in Listeners(p) THEN @ - 1 ELSE @]

\* Another port q once p is removed.
AfterRemove(q, p) ==
    [ports[q] EXCEPT !.listener_slots = Without(@, p),
                     !.transmitter_cnt = IF q \in Listeners(p) THEN @ - 1 ELSE @]

\* pjmedia_conf_remove_port(); the bridge's own port 0 is not removed by users.
RemovePort(p) ==
    /\ MayCall("remove")
    /\ p \in Used \ {0}
    /\ ports' = [q \in Slot |-> IF q = p \/ ports[q] = NULL THEN NULL
                                ELSE AfterRemove(q, p)]
    /\ connect_cnt' = connect_cnt - Cardinality(Transmitters(p))
                                  - Len(Without(ports[p].listener_slots, p))
    /\ port_cnt' = port_cnt - 1
    /\ tick' = [tick EXCEPT !.gone = @ \/ (tick.phase # "idle" /\ tick.i = p)]
    /\ kept' = kept \ {p}
    /\ asked' = [c \in Slot \X Slot |-> IF p \in {c[1], c[2]} THEN 0 ELSE asked[c]]
    /\ UNCHANGED << got, served >>
-----------------------------------------------------------------------------
(* get_frame(): three loops over the ports.                                *)

\* Mutant: the mix buffers are never cleared.
ClearedMix_Never(p) == ports[p].mix_buf

\* The first loop clears the mix buffers of the ports that have a transmitter.
ClearedMix(p) == IF ports[p].transmitter_cnt > 0 THEN {} ELSE ports[p].mix_buf

GetFrame ==
    /\ tick.phase = "idle"
    /\ ports' = [p \in Slot |-> IF ports[p] = NULL THEN NULL
                                ELSE [ports[p] EXCEPT !.mix_buf = ClearedMix(p)]]
    /\ tick' = [Idle EXCEPT !.phase = "read"]
    /\ got' = {} /\ kept' = Used /\ served' = {}
    /\ UNCHANGED << port_cnt, connect_cnt, asked >>

\* The condition of the loops: i < max_ports && ci < port_cnt.
InLoop == tick.i < MaxPorts /\ tick.ci < port_cnt

NextSlot(phase, seen) ==
    [phase |-> phase, i |-> tick.i + 1, ci |-> tick.ci + seen, gone |-> FALSE]

CallPort(phase) == [tick EXCEPT !.phase = phase, !.ci = @ + 1]

\* Mutant: empty slots are counted as visited ports.
SkipEmpty_Counted ==
    /\ tick.phase \in {"read", "write"} /\ InLoop
    /\ ports[tick.i] = NULL
    /\ tick' = NextSlot(tick.phase, 1)
    /\ UNCHANGED << ports, port_cnt, connect_cnt, got, kept, served, asked >>

\* An empty slot, in either loop.
SkipEmpty ==
    /\ tick.phase \in {"read", "write"} /\ InLoop
    /\ ports[tick.i] = NULL
    /\ tick' = NextSlot(tick.phase, 0)
    /\ UNCHANGED << ports, port_cnt, connect_cnt, got, kept, served, asked >>

Readable(p) == ports[p].rx_setting # "DISABLE" /\ ports[p].listener_slots # << >>

SkipRead ==
    /\ tick.phase = "read" /\ InLoop
    /\ ports[tick.i] # NULL /\ ~Readable(tick.i)
    /\ tick' = NextSlot("read", 1)
    /\ served' = served \union {tick.i}
    /\ UNCHANGED << ports, port_cnt, connect_cnt, got, kept, asked >>

ReadPort ==
    /\ tick.phase = "read" /\ InLoop
    /\ ports[tick.i] # NULL /\ Readable(tick.i)
    /\ tick' = CallPort("in_get")
    /\ served' = served \union {tick.i}
    /\ UNCHANGED << ports, port_cnt, connect_cnt, got, kept, asked >>

\* Mutant: a second source overwrites the first.
Mixed_Copied(d, s) == {s}

\* The samples are added to, or for a single transmitter copied into, mix_buf.
Mixed(d, s) ==
    IF ports[d].transmitter_cnt > 1 THEN ports[d].mix_buf \union {s} ELSE {s}

\* The port's get_frame() has returned no audio, or its port is gone.
ReadNothing ==
    /\ tick.phase = "in_get"
    /\ tick' = [tick EXCEPT !.phase = "read", !.i = @ + 1, !.gone = FALSE]
    /\ UNCHANGED << ports, port_cnt, connect_cnt, got, kept, served, asked >>

ReadAudio ==
    /\ tick.phase = "in_get" /\ ~tick.gone
    /\ ports' = [d \in Slot |->
                   IF d \in Listeners(tick.i) /\ ports[d].tx_setting = "ENABLE"
                   THEN [ports[d] EXCEPT !.mix_buf = Mixed(d, tick.i)]
                   ELSE ports[d]]
    /\ got' = got \union ({tick.i} \X Listeners(tick.i))
    /\ tick' = [tick EXCEPT !.phase = "read", !.i = @ + 1]
    /\ UNCHANGED << port_cnt, connect_cnt, kept, served, asked >>

ReadDone ==
    /\ tick.phase = "read" /\ ~InLoop
    /\ tick' = [Idle EXCEPT !.phase = "write"]
    /\ kept' = Used /\ served' = {}
    /\ UNCHANGED << ports, port_cnt, connect_cnt, got, asked >>

\* write_port() sends the mix, or a NULL frame to a port that is muted or
\* disabled or has no transmitter.
WritePort ==
    /\ tick.phase = "write" /\ InLoop
    /\ ports[tick.i] # NULL
    /\ tick' = CallPort("in_put")
    /\ served' = served \union {tick.i}
    /\ UNCHANGED << ports, port_cnt, connect_cnt, got, kept, asked >>

WriteReturn ==
    /\ tick.phase = "in_put"
    /\ tick' = [tick EXCEPT !.phase = "write", !.i = @ + 1, !.gone = FALSE]
    /\ UNCHANGED << ports, port_cnt, connect_cnt, got, kept, served, asked >>

\* From now on the samples in the mix buffers are old.
Aged(mix) == IF mix = {} THEN {} ELSE {Stale}

GetFrameReturn ==
    /\ tick.phase = "write" /\ ~InLoop
    /\ ports' = [p \in Slot |-> IF ports[p] = NULL THEN NULL
                                ELSE [ports[p] EXCEPT !.mix_buf = Aged(@)]]
    /\ tick' = Idle
    /\ got' = {} /\ kept' = {} /\ served' = {}
    /\ UNCHANGED << port_cnt, connect_cnt, asked >>

Step ==
    \/ SkipEmpty \/ SkipRead \/ ReadPort \/ ReadNothing \/ ReadAudio \/ ReadDone
    \/ WritePort \/ WriteReturn \/ GetFrameReturn

Next ==
    \/ \E p \in Slot : AddPort(p) \/ RemovePort(p)
    \/ \E p \in Slot, tx, rx \in Setting : ConfigurePort(p, tx, rx)
    \/ \E s, d \in Slot, l \in Level : ConnectPort(s, d, l) \/ AdjustConnLevel(s, d, l)
    \/ \E s, d \in Slot : DisconnectPort(s, d)
    \/ GetFrame \/ Step

Spec == Init /\ [][Next]_vars
-----------------------------------------------------------------------------
(* Properties.                                                             *)

\* The types; the array of listeners never outgrows its max_ports entries.
TypeOK ==
    /\ ports \in [Slot -> ConfPort \union {NULL}]
    /\ \A p \in Used : Len(ports[p].listener_slots) <= MaxPorts
    /\ port_cnt \in 1 .. MaxPorts
    /\ connect_cnt \in Nat
    /\ tick \in [phase : {"idle", "read", "in_get", "write", "in_put"},
                 i : 0 .. MaxPorts, ci : 0 .. MaxPorts, gone : BOOLEAN]
    /\ got \subseteq Slot \X Slot /\ kept \subseteq Slot /\ served \subseteq Slot
    /\ asked \in [Slot \X Slot -> Level \union {0}]

\* No port lists a listener twice, or one that is no longer there: get_frame()
\* and remove_port() dereference conf->ports[listener] without a test.
ListenersValid ==
    \A p \in Used :
        /\ Listeners(p) \subseteq Used
        /\ \A i, j \in DOMAIN ports[p].listener_slots :
              ports[p].listener_slots[i] = ports[p].listener_slots[j] => i = j

\* The redundant counters agree with the listener arrays after every mixture of
\* operations: transmitter_cnt decides whether a mix buffer is cleared, mixed
\* into or written, and connect_cnt and port_cnt are what the API reports.
CountersExact ==
    /\ port_cnt = Cardinality(Used)
    /\ connect_cnt = Cardinality(Conn)
    /\ \A d \in Used :
          ports[d].transmitter_cnt = Cardinality(Transmitters(d))

\* The bridge implements the connection matrix.
Matrix == INSTANCE ConnectionMatrix
            WITH member <- Used, conn <- Conn

\* However ports come and go and slots are reused, the arrays represent exactly
\* the connections asked for.
ImplementsMatrix == Matrix!Spec

\* What write_port() would send to p is audio.
SendsAudio(p) == ports[p].tx_setting = "ENABLE" /\ ports[p].transmitter_cnt > 0

\* The ports whose audio has come to p in this tick.
Heard(p) == {q \in Slot : << q, p >> \in got}

\* However callbacks add, remove and disconnect ports under the running loops, a
\* port is sent the signals of all its transmitters that delivered audio in this
\* tick, and of none that did not: nothing is lost between the copying and the
\* mixing case, which is chosen anew for every signal, and nothing is left from
\* an earlier tick.
MixIsComplete ==
    \A p \in Used :
        tick.phase = "write" /\ SendsAudio(p) =>
            /\ Heard(p) \intersect Transmitters(p) \subseteq ports[p].mix_buf
            /\ ports[p].mix_buf \subseteq Heard(p)

\* A loop stops as soon as it has counted port_cnt ports, and callbacks change
\* that number under it.  Of the ports registered from its beginning to its end
\* it passes over at most as many as ports it has served are gone by then.
FewPassedOver ==
    tick.phase \in {"read", "write"} /\ ~InLoop
        => Cardinality(kept \ served) <= Cardinality(served \ Used)
-----------------------------------------------------------------------------
(* What the repository's text says and the code does not do.               *)

\* "The level adjustment value will stay with the connection until the
\* connection is removed or new adjustment value is set."
LevelStays ==
    \A s \in Used : \A i \in DOMAIN ports[s].listener_slots :
        ports[s].listener_adj_level[i] = asked[<< s, ports[s].listener_slots[i] >>]

\* The assertions of pjmedia_conf_disconnect_port() hold for every connection
\* that an application may break.
DisconnectAssertion ==
    tick.phase = "idle" => \A c \in Conn : DisconnectAsserts(c[1], c[2])

\* "Get frames from all ports", "Time for all ports to transmit": a loop visits
\* every port that is registered from its beginning to its end.
AllPortsServed ==
    tick.phase \in {"read", "write"} /\ ~InLoop => kept \subseteq served
=============================================================================
