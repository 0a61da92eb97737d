------------------------ MODULE SipTransaction_proofs ------------------------
(***************************************************************************)
(* Proofs about SipTransaction, for any kinds of transactions, any         *)
(* outcomes of sending and any finite set of threads that poll.            *)
(***************************************************************************)
EXTENDS SipTransaction, FiniteSetTheorems, TLAPS

(* The records that a transaction may be.                                   *)
Tsx == [kind : Kind, state : Null..Destroyed,
        status : Response \cup {0, 408, 503},
        reliable : BOOLEAN, transport : BOOLEAN, res_transport : BOOLEAN,
        resolved : BOOLEAN, pending : BOOLEAN,
        pending_send : BOOLEAN, pending_resched : BOOLEAN,
        pending_destroy : BOOLEAN, pending_tx : BOOLEAN,
        sends : SUBSET {"resolve", "transport", "failed"},
        last_tx : BOOLEAN, null_tx : BOOLEAN, running : [Timer -> BOOLEAN],
        id : {"INACTIVE", "TIMEOUT", "TRANSPORT_ERR"},
        registered : BOOLEAN, terminating : BOOLEAN, told : BOOLEAN,
        refs : Int]

(* The references held by the transaction, its timers and its sends.        *)
Bit(b) == IF b THEN 1 ELSE 0
Held(t) ==
    Bit(~ t.terminating) + Bit(t.running["retransmit"]) + Bit(t.running["timeout"])
    + Bit("resolve" \in t.sends) + Bit("transport" \in t.sends)
    + Bit("failed" \in t.sends)

(* n references are held by others: the pollers that are in a callback.     *)
Counted(t, n) ==
    /\ t.refs = n + Held(t)
    /\ t.registered => ~ t.terminating

(* At most one send is on its way; pending_tx tells the callback that the   *)
(* transaction still waits for it.                                          *)
OneSend(t) ==
    /\ ~ ("resolve" \in t.sends /\ "transport" \in t.sends)
    /\ t.pending_tx => t.pending /\ "resolve" \in t.sends

Core(t, n) == t \in Tsx /\ Counted(t, n) /\ OneSend(t)

(* While a transaction goes on it knows of the send that is on its way, it  *)
(* has a transport unless one is being found, the transport of the request  *)
(* is remembered no longer than it is used, and after the ACK it does not   *)
(* retransmit.                                                              *)
Going(t) ==
    t.state < Terminated =>
        /\ "resolve" \in t.sends => t.pending_tx
        /\ "transport" \in t.sends => t.pending
        /\ ~ t.pending_destroy
        /\ (t.resolved \/ "transport" \in t.sends) /\ "resolve" \notin t.sends
              => t.transport
        /\ t.res_transport => t.transport
        /\ t.state = Confirmed => ~ t.running["retransmit"] /\ ~ t.pending_resched

Sound(t, n) == Core(t, n) /\ Going(t)

(* What a later step may have to send.                                      *)
HasMessage(t) ==
    t.state < Terminated
        /\ (UAC(t) \/ t.state = Calling \/ t.state >= Proceeding \/ t.pending_send)
        => t.last_tx

Good(t, n) == Sound(t, n) /\ HasMessage(t)

InCallback == {p \in Poller : thread[p].pc # "poll"}

(* The places that a callback reaches by ending the transaction.            *)
Over == {"tell_timeout", "tell_error", "terminated", "destroyed", "error_told"}

IndInv ==
    /\ thread \in [Poller -> [pc : Place, timer : Timer]]
    /\ Good(tsx, Cardinality(InCallback))
    /\ \A p \in Poller : thread[p].pc \in Over => tsx.state >= Terminated

(* What has ended does not start again.                                     *)
Forward(t, u) == t.state >= Terminated => u.state >= Terminated

-----------------------------------------------------------------------------
(* Types.                                                                   *)

Id == {"INACTIVE", "TIMEOUT", "TRANSPORT_ERR"}
Pieces == {"resolve", "transport", "failed"}
Status == Response \cup {0, 408, 503}

LEMMA States ==
    {Null, Calling, Trying, Proceeding, Completed, Confirmed, Terminated, Destroyed}
        \subseteq Null..Destroyed
BY DEF Null, Calling, Trying, Proceeding, Completed, Confirmed, Terminated, Destroyed

LEMMA Fields ==
    ASSUME NEW t \in Tsx
    PROVE  /\ t.kind \in Kind /\ t.state \in Null..Destroyed /\ t.status \in Status
           /\ t.sends \in SUBSET Pieces /\ t.running \in [Timer -> BOOLEAN]
           /\ t.id \in Id /\ t.refs \in Int
           /\ t.transport \in BOOLEAN /\ t.resolved \in BOOLEAN
           /\ t.pending \in BOOLEAN /\ t.pending_send \in BOOLEAN
           /\ t.pending_resched \in BOOLEAN /\ t.pending_destroy \in BOOLEAN
           /\ t.pending_tx \in BOOLEAN /\ t.last_tx \in BOOLEAN
           /\ t.registered \in BOOLEAN /\ t.terminating \in BOOLEAN
           /\ t.told \in BOOLEAN /\ t.reliable \in BOOLEAN
           /\ t.res_transport \in BOOLEAN /\ t.null_tx \in BOOLEAN
BY DEF Tsx, Id, Pieces, Status

(* Writing a value of its type to a field leaves a transaction.             *)
LEMMA Updates ==
    ASSUME NEW t \in Tsx
    PROVE  /\ \A v \in Null..Destroyed : [t EXCEPT !.state = v] \in Tsx
           /\ \A v \in Status : [t EXCEPT !.status = v] \in Tsx
           /\ \A v \in SUBSET Pieces : [t EXCEPT !.sends = v] \in Tsx
           /\ \A v \in [Timer -> BOOLEAN] : [t EXCEPT !.running = v] \in Tsx
           /\ \A v \in Id : [t EXCEPT !.id = v] \in Tsx
           /\ \A v \in Int : [t EXCEPT !.refs = v] \in Tsx
           /\ \A v \in BOOLEAN :
                 /\ [t EXCEPT !.transport = v] \in Tsx
                 /\ [t EXCEPT !.resolved = v] \in Tsx
                 /\ [t EXCEPT !.pending = v] \in Tsx
                 /\ [t EXCEPT !.pending_send = v] \in Tsx
                 /\ [t EXCEPT !.pending_resched = v] \in Tsx
                 /\ [t EXCEPT !.pending_destroy = v] \in Tsx
                 /\ [t EXCEPT !.pending_tx = v] \in Tsx
                 /\ [t EXCEPT !.last_tx = v] \in Tsx
                 /\ [t EXCEPT !.registered = v] \in Tsx
                 /\ [t EXCEPT !.terminating = v] \in Tsx
                 /\ [t EXCEPT !.told = v] \in Tsx
                 /\ [t EXCEPT !.reliable = v] \in Tsx
                 /\ [t EXCEPT !.res_transport = v] \in Tsx
                 /\ [t EXCEPT !.null_tx = v] \in Tsx
<1>1. \A v \in Null..Destroyed : [t EXCEPT !.state = v] \in Tsx
  BY DEF Tsx
<1>2. \A v \in Status : [t EXCEPT !.status = v] \in Tsx
  BY DEF Tsx, Status
<1>3. \A v \in SUBSET Pieces : [t EXCEPT !.sends = v] \in Tsx
  BY DEF Tsx, Pieces
<1>4. \A v \in [Timer -> BOOLEAN] : [t EXCEPT !.running = v] \in Tsx
  BY DEF Tsx
<1>5. \A v \in Id : [t EXCEPT !.id = v] \in Tsx
  BY DEF Tsx, Id
<1>6. \A v \in Int : [t EXCEPT !.refs = v] \in Tsx
  BY DEF Tsx
<1>7. \A v \in BOOLEAN : [t EXCEPT !.transport = v] \in Tsx
  BY DEF Tsx
<1>8. \A v \in BOOLEAN : [t EXCEPT !.resolved = v] \in Tsx
  BY DEF Tsx
<1>9. \A v \in BOOLEAN : [t EXCEPT !.pending = v] \in Tsx
  BY DEF Tsx
<1>10. \A v \in BOOLEAN : [t EXCEPT !.pending_send = v] \in Tsx
  BY DEF Tsx
<1>11. \A v \in BOOLEAN : [t EXCEPT !.pending_resched = v] \in Tsx
  BY DEF Tsx
<1>12. \A v \in BOOLEAN : [t EXCEPT !.pending_destroy = v] \in Tsx
  BY DEF Tsx
<1>13. \A v \in BOOLEAN : [t EXCEPT !.pending_tx = v] \in Tsx
  BY DEF Tsx
<1>14. \A v \in BOOLEAN : [t EXCEPT !.last_tx = v] \in Tsx
  BY DEF Tsx
<1>15. \A v \in BOOLEAN : [t EXCEPT !.registered = v] \in Tsx
  BY DEF Tsx
<1>16. \A v \in BOOLEAN : [t EXCEPT !.terminating = v] \in Tsx
  BY DEF Tsx
<1>17. \A v \in BOOLEAN : [t EXCEPT !.told = v] \in Tsx
  BY DEF Tsx
<1>18. \A v \in BOOLEAN : [t EXCEPT !.reliable = v] \in Tsx
  BY DEF Tsx
<1>19. \A v \in BOOLEAN : [t EXCEPT !.res_transport = v] \in Tsx
  BY DEF Tsx
<1>20. \A v \in BOOLEAN : [t EXCEPT !.null_tx = v] \in Tsx
  BY DEF Tsx
<1> QED BY <1>1, <1>2, <1>3, <1>4, <1>5, <1>6, <1>7, <1>8,
          <1>9, <1>10, <1>11, <1>12, <1>13, <1>14, <1>15, <1>16, <1>17,
          <1>18, <1>19, <1>20

-----------------------------------------------------------------------------
(* Timers.                                                                  *)

(* Scheduling and cancelling touch nothing but the timers.                  *)
SameButTimers(t, u) ==
    /\ u.kind = t.kind /\ u.state = t.state /\ u.last_tx = t.last_tx
    /\ u.transport = t.transport /\ u.res_transport = t.res_transport
    /\ u.resolved = t.resolved /\ u.pending_send = t.pending_send
    /\ u.pending = t.pending /\ u.pending_resched = t.pending_resched
    /\ u.pending_tx = t.pending_tx /\ u.pending_destroy = t.pending_destroy
    /\ u.sends = t.sends /\ u.terminating = t.terminating
    /\ u.registered = t.registered

(* A step that does not end the transaction leaves what HasMessage needs.   *)
Kept(t, u) ==
    /\ u.kind = t.kind
    /\ \/ u.state >= Terminated
       \/ /\ u.state = t.state /\ u.last_tx = t.last_tx
          /\ u.pending_send => t.pending_send \/ t.last_tx

LEMMA KeptHasMessage ==
    ASSUME NEW t \in Tsx, NEW u \in Tsx, HasMessage(t), Kept(t, u)
    PROVE  HasMessage(u)
BY Fields DEF HasMessage, Kept, UAC, Null, Terminated, Destroyed

LEMMA ScheduleCore ==
    ASSUME NEW t, NEW n \in Nat, Core(t, n), NEW x \in Timer,
           NEW id \in {"TIMEOUT", "TRANSPORT_ERR", "RETRANSMIT"},
           x = "timeout" => id # "RETRANSMIT"
    PROVE  LET u == tsx_schedule_timer(t, x, id)
           IN  /\ Core(u, n) /\ SameButTimers(t, u)
               /\ \A y \in Timer \ {x} : u.running[y] = t.running[y]
<1> DEFINE u == tsx_schedule_timer(t, x, id)
<1> USE DEF Core
<1>1. CASE t.running[x]
  BY <1>1 DEF tsx_schedule_timer, SameButTimers
<1>2. CASE ~ t.running[x]
  <2> DEFINE r == [t.running EXCEPT ![x] = TRUE]
             i == IF x = "timeout" THEN id ELSE t.id
  <2>1. r \in [Timer -> BOOLEAN] /\ i \in Id /\ t.refs + 1 \in Int
    BY Fields DEF Id
  <2>2. u = [t EXCEPT !.running = r, !.refs = t.refs + 1, !.id = i]
    BY <1>2 DEF tsx_schedule_timer, Tsx
  <2>3. u \in Tsx
    <3> HIDE DEF r, i, u
    <3> QED BY <2>1, <2>2, Updates
  <2>4. /\ SameButTimers(t, u) /\ u.running = r /\ u.refs = t.refs + 1
        /\ \A y \in Timer \ {x} : u.running[y] = t.running[y]
    BY <1>2 DEF tsx_schedule_timer, Tsx, SameButTimers
  <2>5. Counted(u, n)
    BY <1>2, <2>4, Fields DEF Counted, Held, Bit, Timer, SameButTimers
  <2>6. OneSend(u)
    BY <2>4 DEF OneSend, SameButTimers
  <2> QED BY <2>3, <2>4, <2>5, <2>6
<1> QED BY <1>1, <1>2

LEMMA CancelCore ==
    ASSUME NEW t, NEW n \in Nat, Core(t, n), NEW x \in Timer
    PROVE  LET u == tsx_cancel_timer(t, x)
           IN  /\ Core(u, n) /\ SameButTimers(t, u) /\ ~ u.running[x]
               /\ \A y \in Timer \ {x} : u.running[y] = t.running[y]
<1> DEFINE u == tsx_cancel_timer(t, x)
<1> USE DEF Core
<1>1. CASE ~ t.running[x]
  BY <1>1 DEF tsx_cancel_timer, SameButTimers
<1>2. CASE t.running[x]
  <2> DEFINE r == [t.running EXCEPT ![x] = FALSE]
             i == IF x = "timeout" THEN "INACTIVE" ELSE t.id
  <2>1. r \in [Timer -> BOOLEAN] /\ i \in Id /\ t.refs - 1 \in Int
    BY Fields DEF Id
  <2>2. u = [t EXCEPT !.running = r, !.refs = t.refs - 1, !.id = i]
    BY <1>2 DEF tsx_cancel_timer, Tsx
  <2>3. u \in Tsx
    <3> HIDE DEF r, i, u
    <3> QED BY <2>1, <2>2, Updates
  <2>4. /\ SameButTimers(t, u) /\ u.running = r /\ u.refs = t.refs - 1
        /\ ~ u.running[x]
        /\ \A y \in Timer \ {x} : u.running[y] = t.running[y]
    BY <1>2, Fields DEF tsx_cancel_timer, Tsx, SameButTimers
  <2>5. Counted(u, n)
    BY <1>2, <2>4, Fields DEF Counted, Held, Bit, Timer, SameButTimers
  <2>6. OneSend(u)
    BY <2>4 DEF OneSend, SameButTimers
  <2> QED BY <2>3, <2>4, <2>5, <2>6
<1> QED BY <1>1, <1>2

(* The timers matter to Going only after the ACK.                           *)
LEMMA TimersGoing ==
    ASSUME NEW t, NEW u, Going(t), SameButTimers(t, u),
           t.state = Confirmed => u.running["retransmit"] = t.running["retransmit"]
    PROVE  Going(u)
BY DEF Going, SameButTimers

LEMMA TimersKept ==
    ASSUME NEW t, NEW u, SameButTimers(t, u)
    PROVE  Kept(t, u)
BY DEF Kept, SameButTimers

LEMMA StartTimeoutCore ==
    ASSUME NEW t, NEW n \in Nat, Core(t, n)
    PROVE  LET u == StartTimeout(t)
           IN  /\ Core(u, n) /\ SameButTimers(t, u)
               /\ u.running["retransmit"] = t.running["retransmit"]
<1> DEFINE u == tsx_cancel_timer(t, "timeout")
           v == tsx_schedule_timer(u, "timeout", "TIMEOUT")
<1>1. /\ Core(u, n) /\ SameButTimers(t, u)
      /\ u.running["retransmit"] = t.running["retransmit"]
  BY CancelCore DEF Timer
<1>2. /\ Core(v, n) /\ SameButTimers(u, v)
      /\ v.running["retransmit"] = u.running["retransmit"]
  <2> HIDE DEF u
  <2> QED BY <1>1, ScheduleCore DEF Timer
<1>3. SameButTimers(t, v)
  <2> HIDE DEF u, v
  <2> QED BY <1>1, <1>2 DEF SameButTimers
<1> QED BY <1>1, <1>2, <1>3 DEF StartTimeout

LEMMA StartRetransmitSound ==
    ASSUME NEW t, NEW n \in Nat, Sound(t, n), t.state < Confirmed
    PROVE  LET u == StartRetransmit(t)
           IN  Sound(u, n) /\ Kept(t, u)
<1> DEFINE u == StartRetransmit(t)
<1> USE DEF Sound
<1>1. CASE t.pending
  <2>1. u = [t EXCEPT !.pending_resched = TRUE]
    BY <1>1 DEF StartRetransmit
  <2>2. u \in Tsx
    BY <2>1, Updates DEF Core
  <2>3. /\ Counted(u, n) /\ OneSend(u) /\ Kept(t, u)
    BY <2>1 DEF Core, Tsx, Counted, Held, OneSend, Kept
  <2>4. Going(u)
    BY <2>1, Fields DEF Core, Tsx, Going, Confirmed, Null, Destroyed
  <2> QED BY <2>2, <2>3, <2>4 DEF Core
<1>2. CASE ~ t.pending
  <2>1. Core(u, n) /\ SameButTimers(t, u)
    BY <1>2, ScheduleCore DEF StartRetransmit, Timer
  <2>2. Going(u)
    BY <2>1, TimersGoing, Fields DEF Confirmed, Core, Null, Destroyed
  <2> QED BY <2>1, <2>2, TimersKept
<1> QED BY <1>1, <1>2

-----------------------------------------------------------------------------
(* The end of a transaction: whatever was wrong with its transport or its   *)
(* message does not matter any more.                                        *)

LEMMA EndedGood ==
    ASSUME NEW t, NEW n, Core(t, n), t.state >= Terminated
    PROVE  Good(t, n)
BY Fields DEF Core, Good, Sound, Going, HasMessage, Null, Terminated, Destroyed

LEMMA ShutdownCore ==
    ASSUME NEW t, NEW n \in Nat, Core(t, n), ~ t.registered
    PROVE  LET u == tsx_shutdown(t) IN Core(u, n) /\ u.state = t.state /\ u.kind = t.kind
<1> DEFINE a == tsx_cancel_timer(t, "timeout")
           b == tsx_cancel_timer(a, "retransmit")
           k == IF t.terminating THEN b.refs ELSE b.refs - 1
           d == b.pending_destroy \/ t.pending
           u == tsx_shutdown(t)
<1>1. Core(a, n) /\ SameButTimers(t, a)
  BY CancelCore DEF Timer
<1>2. Core(b, n) /\ SameButTimers(a, b)
  <2> HIDE DEF a
  <2> QED BY <1>1, CancelCore DEF Timer
<1>3. SameButTimers(t, b)
  <2> HIDE DEF a, b
  <2> QED BY <1>1, <1>2 DEF SameButTimers
<1>4. u = [b EXCEPT !.transport = FALSE, !.last_tx = FALSE,
                    !.pending_send = FALSE, !.pending_resched = FALSE,
                    !.pending_destroy = d, !.terminating = TRUE, !.refs = k]
  <2> SUFFICES tsx_shutdown(t) =
                 [b EXCEPT !.transport = FALSE, !.last_tx = FALSE,
                    !.pending_send = FALSE, !.pending_resched = FALSE,
                    !.pending_destroy = d, !.terminating = TRUE, !.refs = k]
    OBVIOUS
  <2> QED BY DEF tsx_shutdown
<1> HIDE DEF a, b, u
<1>5. d \in BOOLEAN /\ k \in Int
  BY <1>2, Fields DEF Core
<1>6. u \in Tsx
  <2> HIDE DEF k, d
  <2> QED BY <1>2, <1>4, <1>5, Updates DEF Core
<1>7. /\ u.state = t.state /\ u.kind = t.kind /\ u.registered = t.registered
      /\ u.sends = b.sends /\ u.running = b.running /\ u.terminating
      /\ u.refs = k /\ u.pending = b.pending /\ u.pending_tx = b.pending_tx
  BY <1>2, <1>3, <1>4 DEF Core, Tsx, SameButTimers
<1>8. Counted(u, n)
  BY <1>2, <1>3, <1>7, Fields DEF Core, Counted, Held, Bit, SameButTimers
<1>9. OneSend(u)
  BY <1>2, <1>7 DEF Core, OneSend
<1> QED BY <1>6, <1>7, <1>8, <1>9 DEF Core, u

LEMMA DisassociatedCore ==
    ASSUME NEW t, NEW n, Core(t, n)
    PROVE  LET u == Disassociated(t) IN Core(u, n) /\ u.state = t.state /\ u.kind = t.kind
<1> DEFINE u == Disassociated(t)
           x == IF t.pending THEN FALSE ELSE t.pending_tx
<1>1. u = [t EXCEPT !.pending = FALSE, !.pending_tx = x]
  BY DEF Disassociated
<1>2. x \in BOOLEAN
  BY Fields DEF Core
<1>3. u \in Tsx
  <2> HIDE DEF x, u
  <2> QED BY <1>1, <1>2, Updates DEF Core
<1>4. /\ u.state = t.state /\ u.kind = t.kind /\ u.registered = t.registered
      /\ u.sends = t.sends /\ u.running = t.running /\ u.terminating = t.terminating
      /\ u.refs = t.refs /\ u.pending = FALSE /\ u.pending_tx = x
  BY <1>1 DEF Core, Tsx
<1>5. Counted(u, n)
  BY <1>4 DEF Core, Counted, Held
<1>6. OneSend(u)
  BY <1>4 DEF Core, OneSend
<1> QED BY <1>3, <1>4, <1>5, <1>6 DEF Core

LEMMA AfterTerminatedGood ==
    ASSUME NEW t, NEW n \in Nat, Core(t, n), t.state >= Terminated
    PROVE  LET u == AfterTerminated(t)
           IN  Good(u, n) /\ u.state = t.state /\ u.kind = t.kind
<1> DEFINE a == Disassociated(t)
           u == StartTimeout(a)
<1>1. Core(a, n) /\ a.state = t.state /\ a.kind = t.kind
  BY DisassociatedCore
<1>2. Core(u, n) /\ u.state = t.state /\ u.kind = t.kind
  <2> HIDE DEF a
  <2> QED BY <1>1, StartTimeoutCore DEF SameButTimers
<1> QED BY <1>2, EndedGood DEF AfterTerminated

LEMMA AfterDestroyedGood ==
    ASSUME NEW t, NEW n \in Nat, Core(t, n), t.state >= Terminated
    PROVE  LET u == AfterDestroyed(t)
           IN  Good(u, n) /\ u.state = t.state /\ u.kind = t.kind
<1> DEFINE a == [t EXCEPT !.registered = FALSE]
           u == tsx_shutdown(a)
<1>1. Core(a, n) /\ a.state = t.state /\ a.kind = t.kind /\ ~ a.registered
  <2>1. a \in Tsx
    BY Updates DEF Core
  <2>2. t \in Tsx
    BY DEF Core
  <2>3. /\ a.state = t.state /\ a.kind = t.kind /\ ~ a.registered
        /\ a.sends = t.sends /\ a.running = t.running /\ a.refs = t.refs
        /\ a.terminating = t.terminating /\ a.pending = t.pending
        /\ a.pending_tx = t.pending_tx
    BY <2>2 DEF Tsx
  <2> HIDE DEF a
  <2>4. Counted(a, n)
    BY <2>3 DEF Core, Counted, Held
  <2>5. OneSend(a)
    BY <2>3 DEF Core, OneSend
  <2> QED BY <2>1, <2>3, <2>4, <2>5 DEF Core
<1>2. Core(u, n) /\ u.state = t.state /\ u.kind = t.kind
  <2> HIDE DEF a
  <2> QED BY <1>1, ShutdownCore
<1> QED BY <1>2, EndedGood DEF AfterDestroyed

LEMMA SetDestroyedGood ==
    ASSUME NEW t, NEW n \in Nat, Core(t, n)
    PROVE  LET u == SetDestroyed(t)
           IN  Good(u, n) /\ u.state = Destroyed /\ u.kind = t.kind
<1> DEFINE a == [t EXCEPT !.state = Destroyed]
           u == AfterDestroyed(a)
<1>1. Core(a, n) /\ a.state = Destroyed /\ a.kind = t.kind
  <2>1. a \in Tsx
    BY Updates, States DEF Core
  <2> QED BY <2>1 DEF Core, Tsx, Counted, Held, OneSend
<1>2. Good(u, n) /\ u.state = Destroyed /\ u.kind = t.kind
  <2> HIDE DEF a
  <2> QED BY <1>1, AfterDestroyedGood DEF Terminated, Destroyed
<1> QED BY <1>2 DEF SetDestroyed

LEMMA SetTerminatedGood ==
    ASSUME NEW t, NEW n \in Nat, Core(t, n), NEW code \in Status
    PROVE  LET u == SetTerminated(t, code)
           IN  Good(u, n) /\ u.state = Terminated /\ u.kind = t.kind
<1> DEFINE a == [t EXCEPT !.state = Terminated, !.status = code, !.told = TRUE]
           u == AfterTerminated(a)
<1>1. Core(a, n) /\ a.state = Terminated /\ a.kind = t.kind
  <2>1. a \in Tsx
    BY Updates, States DEF Core
  <2> QED BY <2>1 DEF Core, Tsx, Counted, Held, OneSend
<1>2. Good(u, n) /\ u.state = Terminated /\ u.kind = t.kind
  <2> HIDE DEF a
  <2> QED BY <1>1, AfterTerminatedGood DEF Terminated
<1> QED BY <1>2 DEF SetTerminated

-----------------------------------------------------------------------------
(* Sending.  A message is only sent while the transaction goes on, or by    *)
(* the callback of an earlier send.                                         *)

(* No send is on its way.                                                   *)
Clear(t) ==
    /\ ~ t.pending /\ ~ t.pending_tx
    /\ "resolve" \notin t.sends /\ "transport" \notin t.sends

(* A step that leaves the state and the message.                            *)
Same(t, u) ==
    /\ u.kind = t.kind /\ u.state = t.state /\ u.last_tx = t.last_tx
    /\ u.pending_send = t.pending_send

(* The result of a send: a request whose route names no destination is not  *)
(* sent and does not end the transaction.                                   *)
SentOr(t, r, n) ==
    /\ Sound(r.t, n) /\ r.t.kind = t.kind
    /\ r.ok => r.t.state = t.state /\ r.t.last_tx = t.last_tx
    /\ ~ r.ok => r.t.state = Terminated \/ (UAC(t) /\ Same(t, r.t))

LEMMA RefusedGood ==
    ASSUME NEW t, NEW n \in Nat, Core(t, n), NEW r \in Refused(t)
    PROVE  /\ Good(r.t, n) /\ r.t.kind = t.kind
           /\ r.t.state = Terminated /\ r.ok = FALSE
<1> DEFINE a == [t EXCEPT !.transport = FALSE, !.res_transport = FALSE]
           u == SetTerminated(a, 503)
<1>1. Core(a, n) /\ a.kind = t.kind
  <2>1. a \in Tsx
    BY Updates DEF Core
  <2> QED BY <2>1 DEF Core, Tsx, Counted, Held, OneSend
<1>2. Good(u, n) /\ u.state = Terminated /\ u.kind = t.kind
  <2> HIDE DEF a
  <2> QED BY <1>1, SetTerminatedGood DEF Status
<1>3. r.t = u /\ r.ok = FALSE
  <2> HIDE DEF u
  <2> SUFFICES ASSUME r \in {Result(u, FALSE)} PROVE r.t = u /\ r.ok = FALSE
    BY DEF Refused, u
  <2> QED BY DEF Result
<1> HIDE DEF u
<1> QED BY <1>2, <1>3

LEMMA SendByTransportSound ==
    ASSUME NEW t, NEW n \in Nat, Sound(t, n), Clear(t), t.transport,
           NEW r \in SendByTransport(t)
    PROVE  Sound(r.t, n) /\ r.ok = TRUE /\ Same(t, r.t)
<1> DEFINE u == [t EXCEPT !.pending = TRUE, !.sends = t.sends \cup {"transport"},
                           !.refs = t.refs + 1]
<1>1. \/ r = Result(t, TRUE)
      \/ r = Result(u, TRUE)
  BY DEF SendByTransport
<1>2. CASE r = Result(t, TRUE)
  BY <1>2 DEF Result, Same
<1>3. CASE r = Result(u, TRUE)
  <2>1. r.t = u /\ r.ok = TRUE
    <3> HIDE DEF u
    <3> QED BY <1>3 DEF Result
  <2>2. u \in Tsx
    <3>1. t.sends \cup {"transport"} \in SUBSET Pieces /\ t.refs + 1 \in Int
      BY Fields DEF Sound, Core, Pieces
    <3> QED BY <3>1, Updates DEF Sound, Core
  <2>3. /\ u.state = t.state /\ u.kind = t.kind /\ u.registered = t.registered
        /\ u.sends = t.sends \cup {"transport"} /\ u.running = t.running
        /\ u.terminating = t.terminating /\ u.refs = t.refs + 1
        /\ u.pending = TRUE /\ u.pending_tx = t.pending_tx /\ u.last_tx = t.last_tx
        /\ u.pending_destroy = t.pending_destroy
        /\ u.pending_resched = t.pending_resched /\ u.transport = t.transport
        /\ u.pending_send = t.pending_send
    <3>1. t \in Tsx
      BY DEF Sound, Core
    <3> QED BY <3>1, ZenonT(40) DEF Tsx
  <2>4. Counted(u, n)
    BY <2>3, Fields DEF Sound, Core, Counted, Held, Bit, Clear
  <2>5. OneSend(u)
    BY <2>3 DEF Sound, Core, OneSend, Clear
  <2>6. Going(u)
    BY <2>3 DEF Sound, Going, Clear
  <2> HIDE DEF u
  <2> QED BY <2>1, <2>2, <2>3, <2>4, <2>5, <2>6 DEF Sound, Core, Same
<1> QED BY <1>1, <1>2, <1>3

(* u differs from t at most in the state, or has ended.                     *)
Goes(t, u) ==
    /\ u.kind = t.kind
    /\ \/ u.state = Terminated
       \/ /\ u.state = t.state /\ u.last_tx = t.last_tx
          /\ u.pending_send => t.pending_send

LEMMA DeferredSound ==
    ASSUME NEW t, NEW n \in Nat, Sound(t, n), Clear(t), t.transport,
           NEW d \in Deferred(t)
    PROVE  Sound(d, n) /\ Goes(t, d)
<1> DEFINE u == [t EXCEPT !.pending_send = FALSE]
           w == [u EXCEPT !.null_tx = TRUE]
<1>1. /\ Sound(u, n) /\ Clear(u) /\ u.transport /\ u.pending_send = FALSE
      /\ u.kind = t.kind /\ u.state = t.state /\ u.last_tx = t.last_tx
  <2>1. u \in Tsx
    BY Updates DEF Sound, Core
  <2> QED BY <2>1 DEF Sound, Core, Tsx, Counted, Held, OneSend, Going, Clear
<1>2. \/ d = u \/ d = w
      \/ \E r \in SendByTransport(u) : d = r.t
      \/ \E r \in Refused(u) : d = r.t
  <2> SUFFICES ASSUME d \in IF ~ t.pending_send THEN {u}
                            ELSE IF ~ t.last_tx THEN {w}
                            ELSE {r.t : r \in SendByTransport(u) \cup
                                   (IF "error" \in Outcome THEN Refused(u) ELSE {})}
               PROVE  \/ d = u \/ d = w
                      \/ \E r \in SendByTransport(u) : d = r.t
                      \/ \E r \in Refused(u) : d = r.t
    BY DEF Deferred
  <2> HIDE DEF u, w
  <2> QED OBVIOUS
<1> HIDE DEF u
<1>3. CASE d = u
  BY <1>1, <1>3 DEF Goes
<1>6. CASE d = w
  <2>1. w \in Tsx
    BY <1>1, Updates DEF Sound, Core
  <2>2. Sound(w, n) /\ w.kind = u.kind /\ w.state = u.state /\ w.last_tx = u.last_tx
    BY <1>1, <2>1 DEF Sound, Core, Tsx, Counted, Held, OneSend, Going
  <2>3. w.pending_send = u.pending_send
    BY <1>1 DEF Sound, Core, Tsx
  <2> QED BY <1>1, <1>6, <2>2, <2>3 DEF Goes
<1>4. CASE \E r \in SendByTransport(u) : d = r.t
  <2>1. PICK r \in SendByTransport(u) : d = r.t
    BY <1>4
  <2>2. Sound(d, n) /\ Same(u, d)
    BY <1>1, <2>1, SendByTransportSound
  <2> QED BY <1>1, <2>2 DEF Goes, Same
<1>5. CASE \E r \in Refused(u) : d = r.t
  <2>1. Core(u, n)
    BY <1>1 DEF Sound
  <2>2. PICK r \in Refused(u) : d = r.t
    BY <1>5
  <2>3. Good(d, n) /\ d.kind = u.kind /\ d.state = Terminated
    BY <2>1, <2>2, RefusedGood
  <2> QED BY <1>1, <2>3 DEF Goes, Good
<1> QED BY <1>2, <1>3, <1>4, <1>5, <1>6

LEMMA RescheduledSound ==
    ASSUME NEW t, NEW n \in Nat, Sound(t, n)
    PROVE  LET u == Rescheduled(t)
           IN  Sound(u, n) /\ Same(t, u)
<1> DEFINE w == Rescheduled(t)
<1>1. CASE ~ (t.pending_resched /\ ~ t.pending)
  BY <1>1 DEF Rescheduled, Same
<1>2. CASE t.pending_resched /\ ~ t.pending
  <2> DEFINE u == [t EXCEPT !.pending_resched = FALSE]
             v == tsx_schedule_timer(u, "retransmit", "RETRANSMIT")
  <2>1. t.state # Confirmed
    BY <1>2 DEF Sound, Going, Confirmed, Terminated
  <2>2. Sound(u, n) /\ Same(t, u)
    <3>1. u \in Tsx
      BY Updates DEF Sound, Core
    <3> QED BY <2>1, <3>1 DEF Sound, Core, Tsx, Counted, Held, OneSend, Going, Same
  <2>3. w = IF Reliable(t) THEN u ELSE v
    BY <1>2 DEF Rescheduled, tsx_resched_retransmission
  <2> HIDE DEF u
  <2>4. Core(v, n) /\ SameButTimers(u, v)
    BY <2>2, ScheduleCore DEF Sound, Timer
  <2>5. Going(v)
    BY <2>1, <2>2, <2>4, TimersGoing DEF Sound, Same
  <2> HIDE DEF v
  <2> QED BY <2>2, <2>3, <2>4, <2>5 DEF Sound, Same, SameButTimers
<1> QED BY <1>1, <1>2

(* The transaction of send_msg_callback() that the message went out for.    *)
LEMMA FoundSound ==
    ASSUME NEW t, NEW n \in Nat, Sound(t, n), t.pending_tx, NEW b \in BOOLEAN
    PROVE  LET u == Found(t, b)
           IN  Sound(u, n) /\ Clear(u) /\ u.transport /\ Same(t, u)
<1> DEFINE u == Found(t, b)
           m == t.sends \ {"resolve"}
           a == [t EXCEPT !.refs = t.refs - 1, !.sends = m, !.pending_tx = FALSE,
                          !.pending = FALSE, !.resolved = TRUE]
<1>0. t \in Tsx /\ m \in SUBSET Pieces /\ t.refs - 1 \in Int
  BY Fields DEF Sound, Core
<1>1. u \in Tsx
  <2>1. u = [a EXCEPT !.transport = TRUE, !.reliable = b]
    BY DEF Found
  <2> HIDE DEF m
  <2>2. a \in Tsx
    BY <1>0, Updates
  <2> HIDE DEF a, u
  <2> QED BY <2>1, <2>2, Updates
<1>2. /\ u.state = t.state /\ u.kind = t.kind /\ u.registered = t.registered
      /\ u.sends = m /\ u.running = t.running
      /\ u.terminating = t.terminating /\ u.refs = t.refs - 1
      /\ u.pending = FALSE /\ u.pending_tx = FALSE /\ u.last_tx = t.last_tx
      /\ u.pending_destroy = t.pending_destroy /\ u.transport = TRUE
      /\ u.pending_resched = t.pending_resched /\ u.pending_send = t.pending_send
  <2>1. u = [t EXCEPT !.refs = t.refs - 1, !.sends = m,
                      !.pending_tx = FALSE, !.pending = FALSE,
                      !.resolved = TRUE, !.transport = TRUE, !.reliable = b]
    BY DEF Found
  <2> HIDE DEF m, u
  <2> QED BY <1>0, <2>1 DEF Tsx
<1> HIDE DEF u
<1>3. Counted(u, n)
  BY <1>0, <1>2, Fields DEF Sound, Core, Counted, Held, Bit, OneSend
<1>4. OneSend(u) /\ Clear(u)
  BY <1>2 DEF Sound, Core, OneSend, Clear
<1>5. Going(u)
  BY <1>2, <1>4 DEF Sound, Going, Clear
<1> QED BY <1>1, <1>2, <1>3, <1>4, <1>5 DEF Sound, Core, Same, u

LEMMA SentSound ==
    ASSUME NEW t, NEW n \in Nat, Sound(t, n), t.pending_tx,
           NEW v \in send_msg_callback_sent(t)
    PROVE  /\ Sound(v, n) /\ Kept(t, v)
           /\ t.state < Terminated => Goes(t, v)
<1>8. CASE t.pending_destroy
  <2>1. PICK b \in BOOLEAN : v = SetDestroyed(Found(t, b))
    BY <1>8 DEF send_msg_callback_sent
  <2> DEFINE u == Found(t, b)
  <2>2. ~ (t.state < Terminated)
    BY <1>8 DEF Sound, Going
  <2>3. Sound(u, n) /\ Same(t, u)
    BY FoundSound
  <2> HIDE DEF u
  <2>4. Good(v, n) /\ v.state = Destroyed /\ v.kind = t.kind
    BY <2>1, <2>3, SetDestroyedGood DEF Sound, Same, u
  <2> QED BY <2>2, <2>4 DEF Good, Kept, Destroyed, Terminated
<1>9. CASE ~ t.pending_destroy
  <2>1. PICK b \in BOOLEAN : \E d \in Deferred(Found(t, b)) : v = Rescheduled(d)
    BY <1>9 DEF send_msg_callback_sent
  <2> DEFINE u == Found(t, b)
  <2>2. PICK d \in Deferred(u) : v = Rescheduled(d)
    BY <2>1
  <2>3. Sound(u, n) /\ Clear(u) /\ u.transport /\ Same(t, u)
    BY FoundSound
  <2> HIDE DEF u
  <2>4. Sound(d, n) /\ Goes(u, d)
    BY <2>3, DeferredSound
  <2>5. Sound(v, n) /\ Same(d, v)
    BY <2>2, <2>4, RescheduledSound
  <2> QED BY <2>3, <2>4, <2>5 DEF Goes, Kept, Same, Terminated
<1> QED BY <1>8, <1>9

LEMMA FailedGood ==
    ASSUME NEW t, NEW n \in Nat, Sound(t, n), t.pending_tx
    PROVE  LET v == send_msg_callback_failed(t)
           IN  /\ Good(v, n) /\ v.kind = t.kind /\ v.state >= Terminated
               /\ t.state < Terminated => v.state = Terminated
<1> DEFINE u == [t EXCEPT !.refs = t.refs - 1, !.sends = t.sends \ {"resolve"},
                       !.pending_tx = FALSE, !.pending = FALSE,
                       !.transport = FALSE, !.resolved = TRUE, !.status = 503]
           v == send_msg_callback_failed(t)
<1>1. u \in Tsx
  <2>1. t.sends \ {"resolve"} \in SUBSET Pieces /\ t.refs - 1 \in Int /\ 503 \in Status
    BY Fields DEF Sound, Core, Status
  <2> DEFINE a == [t EXCEPT !.refs = t.refs - 1, !.sends = t.sends \ {"resolve"},
                            !.pending_tx = FALSE, !.pending = FALSE]
  <2>2. a \in Tsx
    BY <2>1, Updates DEF Sound, Core
  <2> DEFINE b == [a EXCEPT !.transport = FALSE, !.resolved = TRUE]
  <2>3. u = [b EXCEPT !.status = 503]
    OBVIOUS
  <2> HIDE DEF a, u
  <2>4. b \in Tsx
    BY <2>2, Updates
  <2> HIDE DEF b
  <2>5. 503 \in Status
    BY DEF Status
  <2> QED BY <2>3, <2>4, <2>5, Updates
<1>2. /\ u.state = t.state /\ u.kind = t.kind /\ u.registered = t.registered
      /\ u.sends = t.sends \ {"resolve"} /\ u.running = t.running
      /\ u.terminating = t.terminating /\ u.refs = t.refs - 1
      /\ u.pending_tx = FALSE
  BY DEF Sound, Core, Tsx
<1>3. Counted(u, n)
  BY <1>2, Fields DEF Sound, Core, Counted, Held, Bit, OneSend
<1>4. OneSend(u)
  BY <1>2 DEF Sound, Core, OneSend
<1>5. v = IF t.state < Terminated THEN SetTerminated(u, 503)
          ELSE IF t.pending_destroy THEN SetDestroyed(u) ELSE u
  BY DEF send_msg_callback_failed
<1> HIDE DEF u
<1>6. Core(u, n)
  BY <1>1, <1>3, <1>4 DEF Core
<1>7. CASE t.state < Terminated
  BY <1>2, <1>5, <1>6, <1>7, SetTerminatedGood DEF Status, Terminated
<1>8. CASE ~ (t.state < Terminated) /\ t.pending_destroy
  BY <1>2, <1>5, <1>6, <1>8, SetDestroyedGood DEF Destroyed, Terminated
<1>9. CASE ~ (t.state < Terminated) /\ ~ t.pending_destroy
  <2>1. v = u /\ u.state >= Terminated
    BY <1>1, <1>2, <1>5, <1>9, Fields DEF Null, Destroyed, Terminated
  <2> QED BY <1>2, <1>6, <1>9, <2>1, EndedGood
<1> QED BY <1>7, <1>8, <1>9

LEMMA SendByResolverSound ==
    ASSUME NEW t, NEW n \in Nat, Sound(t, n), Clear(t), t.state < Terminated,
           ~ t.transport, ~ t.res_transport,
           NEW r \in SendByResolver(t)
    PROVE  SentOr(t, r, n)
<1> DEFINE u == [t EXCEPT !.pending_tx = TRUE, !.pending = TRUE,
                          !.sends = t.sends \cup {"resolve"}, !.refs = t.refs + 1]
<1>1. u \in Tsx
  <2>1. t.sends \cup {"resolve"} \in SUBSET Pieces /\ t.refs + 1 \in Int
    BY Fields DEF Sound, Core, Pieces
  <2> QED BY <2>1, Updates DEF Sound, Core
<1>2. /\ u.state = t.state /\ u.kind = t.kind /\ u.registered = t.registered
      /\ u.sends = t.sends \cup {"resolve"} /\ u.running = t.running
      /\ u.terminating = t.terminating /\ u.refs = t.refs + 1
      /\ u.pending = TRUE /\ u.pending_tx = TRUE /\ u.last_tx = t.last_tx
      /\ u.pending_destroy = t.pending_destroy
      /\ u.pending_resched = t.pending_resched /\ u.transport = t.transport
      /\ u.res_transport = t.res_transport /\ u.pending_send = t.pending_send
  BY DEF Sound, Core, Tsx
<1>3. Counted(u, n)
  BY <1>2, Fields DEF Sound, Core, Counted, Held, Bit, Clear
<1>4. OneSend(u)
  BY <1>2 DEF OneSend, Clear
<1>5. Going(u)
  BY <1>2 DEF Sound, Going
<1>6. \/ \E v \in send_msg_callback_sent(u) : r = Result(v, v.state # Terminated)
      \/ r = Result(u, TRUE)
      \/ r = Result(send_msg_callback_failed(u), FALSE)
      \/ UAC(t) /\ r = Result(NotStarted(t), FALSE)
  <2> SUFFICES ASSUME NEW direct, ~ direct,
                      r \in {Result(v, v.state # Terminated) :
            v \in UNION {send_msg_callback_sent(u) : o \in Outcome \cap {"sent"}}} \cup
        {Result(u, TRUE) : o \in Outcome \cap {"pending"}} \cup
        {Result(send_msg_callback_failed(u), FALSE) :
            o \in {x \in Outcome \cap {"error"} : ~ direct}} \cup
        {Result(NotStarted(t), FALSE) :
            o \in {x \in Outcome \cap {"error"} : direct \/ UAC(t)}}
      PROVE \/ \E v \in send_msg_callback_sent(u) : r = Result(v, v.state # Terminated)
            \/ r = Result(u, TRUE)
            \/ r = Result(send_msg_callback_failed(u), FALSE)
            \/ UAC(t) /\ r = Result(NotStarted(t), FALSE)
    BY DEF SendByResolver
  <2> HIDE DEF u
  <2> QED BY Zenon
<1> HIDE DEF u
<1>7. Sound(u, n)
  BY <1>1, <1>3, <1>4, <1>5 DEF Sound, Core
<1>8. CASE \E v \in send_msg_callback_sent(u) : r = Result(v, v.state # Terminated)
  <2>1. PICK v \in send_msg_callback_sent(u) : r = Result(v, v.state # Terminated)
    BY <1>8
  <2>2. r.t = v /\ r.ok = (v.state # Terminated)
    BY <2>1 DEF Result
  <2>3. Sound(v, n) /\ Goes(u, v)
    BY <1>2, <1>7, SentSound
  <2> QED BY <1>2, <2>2, <2>3 DEF SentOr, Goes, Same
<1>9. CASE r = Result(u, TRUE)
  BY <1>2, <1>7, <1>9 DEF SentOr, Result
<1>10. CASE r = Result(send_msg_callback_failed(u), FALSE)
  <2> DEFINE v == send_msg_callback_failed(u)
  <2>1. Good(v, n) /\ v.kind = t.kind /\ v.state = Terminated
    BY <1>2, <1>7, FailedGood
  <2>2. r.t = v /\ r.ok = FALSE
    BY <1>10 DEF Result
  <2> HIDE DEF v
  <2> QED BY <2>1, <2>2 DEF SentOr, Good
<1>11. CASE UAC(t) /\ r = Result(NotStarted(t), FALSE)
  <2> DEFINE v == [t EXCEPT !.pending = TRUE]
  <2>1. t \in Tsx
    BY DEF Sound, Core
  <2>2. NotStarted(t) = v
    <3>1. NotStarted(t) = [t EXCEPT !.pending = TRUE, !.refs = t.refs]
      BY <1>11 DEF NotStarted
    <3> QED BY <2>1, <3>1, ZenonT(40) DEF Tsx
  <2>3. r.t = v /\ r.ok = FALSE
    BY <1>11, <2>2 DEF Result
  <2>4. v \in Tsx
    BY <2>1, Updates
  <2>5. Counted(v, n) /\ OneSend(v) /\ Same(t, v)
    BY <2>1 DEF Sound, Core, Tsx, Counted, Held, OneSend, Clear, Same
  <2>6. Going(v)
    BY <2>1 DEF Sound, Tsx, Going, Clear
  <2> HIDE DEF v
  <2> QED BY <1>11, <2>3, <2>4, <2>5, <2>6 DEF SentOr, Sound, Core, Same
<1> QED BY <1>6, <1>8, <1>9, <1>10, <1>11

LEMMA SendMsgSound ==
    ASSUME NEW t, NEW n \in Nat, Sound(t, n), t.state < Terminated,
           NEW r \in tsx_send_msg(t)
    PROVE  SentOr(t, r, n)
<1> DEFINE f == IF t.transport THEN FALSE ELSE t.res_transport
           u == [t EXCEPT !.transport = FALSE, !.res_transport = f]
           w == [t EXCEPT !.pending_send = TRUE]
<1>1. CASE t.pending
  <2>1. r = Result(w, TRUE)
    BY <1>1 DEF tsx_send_msg
  <2>2. Sound(w, n) /\ w.kind = t.kind /\ w.state = t.state /\ w.last_tx = t.last_tx
    <3>1. w \in Tsx
      BY Updates DEF Sound, Core
    <3> QED BY <3>1 DEF Sound, Core, Tsx, Counted, Held, OneSend, Going
  <2> HIDE DEF w
  <2> QED BY <2>1, <2>2 DEF SentOr, Result
<1>2. CASE ~ t.pending
  <2>1. Clear(t)
    BY <1>2 DEF Sound, Core, OneSend, Going, Clear
  <2>2. \/ t.transport /\ r \in SendByTransport(t)
        \/ r \in Refused(u)
        \/ ~ t.resolved /\ r \in SendByResolver(u)
    BY <1>2 DEF tsx_send_msg
  <2>3. CASE t.transport /\ r \in SendByTransport(t)
    BY <2>1, <2>3, SendByTransportSound DEF SentOr, Same
  <2>6. f = FALSE
    BY Fields DEF Sound, Core, Going
  <2>7. u = [t EXCEPT !.transport = FALSE, !.res_transport = FALSE]
    BY <2>6
  <2> HIDE DEF u, f
  <2>8. t \in Tsx /\ u \in Tsx
    BY <2>7, Updates DEF Sound, Core
  <2>9. /\ Core(u, n) /\ Clear(u) /\ Same(t, u)
        /\ ~ u.transport /\ ~ u.res_transport
    BY <2>1, <2>7, <2>8 DEF Sound, Core, Tsx, Counted, Held, OneSend, Clear, Same
  <2>4. CASE r \in Refused(u)
    BY <2>4, <2>9, RefusedGood DEF SentOr, Sound, Good, Same
  <2>5. CASE ~ t.resolved /\ r \in SendByResolver(u)
    <3>1. Going(u)
      BY <2>1, <2>5, <2>7, <2>8 DEF Sound, Tsx, Going, Clear
    <3>3. Sound(u, n)
      BY <2>9, <3>1 DEF Sound
    <3>2. SentOr(u, r, n)
      BY <2>5, <2>9, <3>3, SendByResolverSound DEF Same
    <3> QED BY <2>9, <3>2 DEF SentOr, Same, UAC
  <2> QED BY <2>2, <2>3, <2>4, <2>5
<1> QED BY <1>1, <1>2

(* A transaction that sends again goes on as before, or has ended.          *)
LEMMA SendMsgKept ==
    ASSUME NEW t, NEW n \in Nat, Sound(t, n), t.state < Terminated, t.last_tx,
           NEW r \in tsx_send_msg(t)
    PROVE  Sound(r.t, n) /\ Kept(t, r.t)
<1>1. SentOr(t, r, n)
  BY SendMsgSound
<1>2. CASE r.ok
  BY <1>1, <1>2 DEF SentOr, Kept
<1>3. CASE ~ r.ok
  <2>1. CASE r.t.state = Terminated
    BY <1>1, <2>1 DEF SentOr, Kept, Terminated
  <2>2. CASE Same(t, r.t)
    BY <1>1, <2>2 DEF SentOr, Kept, Same
  <2> QED BY <1>1, <1>3, <2>1, <2>2, Zenon DEF SentOr
<1> QED BY <1>2, <1>3

LEMMA RetransmitSound ==
    ASSUME NEW t, NEW n \in Nat, Sound(t, n), t.state < Terminated, t.last_tx,
           NEW resched \in BOOLEAN, resched => t.state # Confirmed,
           NEW v \in tsx_retransmit(t, resched)
    PROVE  Sound(v, n) /\ Kept(t, v)
<1> DEFINE w == IF ~ resched THEN t
                ELSE IF t.pending THEN [t EXCEPT !.pending_resched = TRUE]
                ELSE tsx_schedule_timer(t, "retransmit", "RETRANSMIT")
<1>1. v = t \/ \E r \in tsx_send_msg(w) : v = r.t
  <2> SUFFICES ASSUME v \in IF resched /\ t.running["retransmit"] THEN {t}
                            ELSE {r.t : r \in tsx_send_msg(w)}
               PROVE  v = t \/ \E r \in tsx_send_msg(w) : v = r.t
    BY DEF tsx_retransmit, tsx_resched_retransmission
  <2> HIDE DEF w
  <2> QED OBVIOUS
<1>2. Sound(w, n) /\ w.kind = t.kind /\ w.state = t.state /\ w.last_tx = t.last_tx
  <2>1. CASE ~ resched
    BY <2>1
  <2>2. CASE resched /\ t.pending
    <3> DEFINE a == [t EXCEPT !.pending_resched = TRUE]
    <3>1. w = a
      BY <2>2
    <3>2. a \in Tsx
      BY Updates DEF Sound, Core
    <3>5. t \in Tsx /\ Counted(t, n) /\ OneSend(t)
      BY DEF Sound, Core
    <3>6. /\ a.kind = t.kind /\ a.state = t.state /\ a.last_tx = t.last_tx
          /\ a.refs = t.refs /\ a.running = t.running /\ a.sends = t.sends
          /\ a.terminating = t.terminating /\ a.registered = t.registered
          /\ a.pending = t.pending /\ a.pending_tx = t.pending_tx
      BY <3>5, ZenonT(40) DEF Tsx
    <3>7. Counted(a, n) /\ OneSend(a)
      BY <3>5, <3>6 DEF Counted, Held, OneSend
    <3>3. Core(a, n) /\ a.kind = t.kind /\ a.state = t.state /\ a.last_tx = t.last_tx
      BY <3>2, <3>6, <3>7 DEF Core
    <3>4. Going(a)
      BY <2>2 DEF Sound, Core, Tsx, Going
    <3> QED BY <3>1, <3>3, <3>4 DEF Sound
  <2>3. CASE resched /\ ~ t.pending
    <3> DEFINE a == tsx_schedule_timer(t, "retransmit", "RETRANSMIT")
    <3>1. w = a
      BY <2>3
    <3>2. Core(a, n) /\ SameButTimers(t, a)
      BY ScheduleCore DEF Sound, Timer
    <3>3. Going(a)
      BY <2>3, <3>2, TimersGoing DEF Sound
    <3> QED BY <3>1, <3>2, <3>3 DEF Sound, SameButTimers
  <2> QED BY <2>1, <2>2, <2>3
<1> HIDE DEF w
<1>3. CASE v = t
  BY <1>3 DEF Kept
<1>4. CASE \E r \in tsx_send_msg(w) : v = r.t
  <2>1. PICK r \in tsx_send_msg(w) : v = r.t
    BY <1>4
  <2>2. Sound(r.t, n) /\ Kept(w, r.t)
    BY <1>2, SendMsgKept
  <2> QED BY <1>2, <2>1, <2>2 DEF Kept
<1> QED BY <1>1, <1>3, <1>4

LEMMA KeptGood ==
    ASSUME NEW t, NEW u, NEW n, Good(t, n), Sound(u, n), Kept(t, u)
    PROVE  Good(u, n)
BY KeptHasMessage DEF Good, Sound, Core

-----------------------------------------------------------------------------
(* Steps that leave the state and the message.                              *)

LEMMA SameGood ==
    ASSUME NEW t, NEW u, NEW n, Good(t, n), Sound(u, n), Same(t, u)
    PROVE  Good(u, n)
BY KeptGood DEF Same, Kept

LEMMA StartTimeoutSound ==
    ASSUME NEW t, NEW n \in Nat, Sound(t, n)
    PROVE  Sound(StartTimeout(t), n) /\ Same(t, StartTimeout(t))
<1> DEFINE u == StartTimeout(t)
<1>1. /\ Core(u, n) /\ SameButTimers(t, u)
      /\ u.running["retransmit"] = t.running["retransmit"]
  BY StartTimeoutCore DEF Sound
<1> HIDE DEF u
<1>2. Going(u)
  BY <1>1, TimersGoing DEF Sound
<1> QED BY <1>1, <1>2 DEF Sound, Same, SameButTimers, u

LEMMA CancelSound ==
    ASSUME NEW t, NEW n \in Nat, Sound(t, n), NEW x \in Timer
    PROVE  LET u == tsx_cancel_timer(t, x)
           IN  Sound(u, n) /\ Same(t, u) /\ ~ u.running[x]
<1> DEFINE u == tsx_cancel_timer(t, x)
<1>1. /\ Core(u, n) /\ SameButTimers(t, u) /\ ~ u.running[x]
      /\ \A y \in Timer \ {x} : u.running[y] = t.running[y]
  BY CancelCore DEF Sound
<1> HIDE DEF u
<1>2. Going(u)
  <2>1. CASE x = "retransmit"
    BY <1>1, <2>1 DEF Sound, Going, SameButTimers
  <2>2. CASE x = "timeout"
    BY <1>1, <2>2, TimersGoing DEF Sound, Timer
  <2> QED BY <2>1, <2>2 DEF Timer
<1> QED BY <1>1, <1>2 DEF Sound, Same, SameButTimers, u

LEMMA ScheduleSound ==
    ASSUME NEW t, NEW n \in Nat, Sound(t, n), NEW x \in Timer,
           NEW id \in {"TIMEOUT", "TRANSPORT_ERR", "RETRANSMIT"},
           x = "timeout" => id # "RETRANSMIT",
           x = "retransmit" => t.state # Confirmed
    PROVE  LET u == tsx_schedule_timer(t, x, id)
           IN  Sound(u, n) /\ Same(t, u)
<1> DEFINE u == tsx_schedule_timer(t, x, id)
<1>1. /\ Core(u, n) /\ SameButTimers(t, u)
      /\ \A y \in Timer \ {x} : u.running[y] = t.running[y]
  BY ScheduleCore DEF Sound
<1> HIDE DEF u
<1>2. Going(u)
  BY <1>1, TimersGoing DEF Sound, Timer
<1> QED BY <1>1, <1>2 DEF Sound, Same, SameButTimers, u

LEMMA StartRetransmitSame ==
    ASSUME NEW t, NEW n \in Nat, Sound(t, n), t.state < Confirmed
    PROVE  LET u == StartRetransmit(t) IN Sound(u, n) /\ Same(t, u)
<1> DEFINE u == StartRetransmit(t)
<1>1. Sound(u, n)
  BY StartRetransmitSound
<1>2. CASE t.pending
  <2>1. u = [t EXCEPT !.pending_resched = TRUE]
    BY <1>2 DEF StartRetransmit
  <2>2. Same(t, u)
    BY <2>1 DEF Same, Sound, Core, Tsx
  <2> QED BY <1>1, <2>2
<1>3. CASE ~ t.pending
  <2>1. SameButTimers(t, u)
    BY <1>3, ScheduleCore DEF StartRetransmit, Timer, Sound
  <2> QED BY <1>1, <2>1 DEF Same, SameButTimers
<1> QED BY <1>2, <1>3

(* The state moves on, before the ACK.                                      *)
LEMMA WorkingGood ==
    ASSUME NEW t, NEW n, Sound(t, n), t.state < Terminated,
           NEW s \in {Calling, Trying, Proceeding, Completed},
           UAC(t) \/ s = Calling \/ s >= Proceeding \/ t.pending_send => t.last_tx
    PROVE  Good([t EXCEPT !.state = s], n)
<1> DEFINE u == [t EXCEPT !.state = s]
<1>1. u \in Tsx
  BY Updates, States DEF Sound, Core
<1>2. /\ u.state = s /\ u.kind = t.kind /\ u.last_tx = t.last_tx
      /\ u.pending_send = t.pending_send
  BY DEF Sound, Core, Tsx
<1>3. Core(u, n)
  BY <1>1 DEF Sound, Core, Tsx, Counted, Held, OneSend
<1>4. Going(u)
  BY <1>2 DEF Sound, Core, Tsx, Going, Calling, Trying, Proceeding, Completed, Confirmed
<1> HIDE DEF u
<1>5. HasMessage(u)
  BY <1>2 DEF HasMessage, UAC
<1> QED BY <1>3, <1>4, <1>5 DEF Good, Sound, u

-----------------------------------------------------------------------------
(* Calls of the user.                                                       *)

LEMMA CalledGood ==
    ASSUME NEW t, NEW n \in Nat, Good(t, n), UAC(t), t.state = Null,
           NEW r \in tsx_send_msg(t)
    PROVE  Good(Called(r), n)
<1> DEFINE u == StartTimeout(r.t)
           v == IF Reliable(u) THEN u ELSE StartRetransmit(u)
           w == [v EXCEPT !.state = Calling]
<1>1. Sound(t, n) /\ t.state < Terminated /\ t.last_tx
  BY DEF Good, HasMessage, Null, Terminated
<1>2. SentOr(t, r, n)
  BY <1>1, SendMsgSound
<1>3. Called(r) = IF ~ r.ok THEN r.t ELSE w
  BY DEF Called
<1>4. CASE ~ r.ok
  <2>1. Sound(r.t, n) /\ Kept(t, r.t)
    BY <1>1, SendMsgKept
  <2>2. Good(r.t, n)
    BY <2>1, KeptGood
  <2> QED BY <1>3, <1>4, <2>2
<1>5. CASE r.ok
  <2>1. Sound(r.t, n) /\ r.t.state = Null /\ r.t.last_tx
    BY <1>1, <1>2, <1>5 DEF SentOr
  <2>2. Sound(u, n) /\ Same(r.t, u)
    BY <2>1, StartTimeoutSound
  <2> HIDE DEF u
  <2>3. u.state < Confirmed
    BY <2>1, <2>2 DEF Same, Null, Confirmed
  <2>4. Sound(v, n) /\ Same(u, v)
    <3>1. CASE Reliable(u)
      BY <2>2, <3>1 DEF Same
    <3>2. CASE ~ Reliable(u)
      BY <2>2, <2>3, <3>2, StartRetransmitSame
    <3> QED BY <3>1, <3>2
  <2> HIDE DEF v
  <2>5. v.state < Terminated /\ v.last_tx
    BY <1>1, <2>1, <2>2, <2>4 DEF Same
  <2>6. Good(w, n)
    BY <2>4, <2>5, WorkingGood
  <2> QED BY <1>3, <1>5, <2>6
<1> QED BY <1>4, <1>5

LEMMA AnsweredGood ==
    ASSUME NEW t, NEW n \in Nat, Good(t, n), UAS(t),
           t.state \in {Trying, Proceeding},
           NEW code \in Response,
           NEW r \in tsx_send_msg([t EXCEPT !.status = code, !.last_tx = FALSE])
    PROVE  Good(Answered(r, code), n)
<1> DEFINE a == [t EXCEPT !.status = code, !.last_tx = FALSE]
           u == IF code = 100 \/ (code < 200 /\ ~ Invite(r.t)) THEN r.t
                ELSE tsx_cancel_timer(r.t, "retransmit")
           v == [u EXCEPT !.last_tx = TRUE]
           repeats == Invite(v) /\ (code \in {180, 200} \/ ~ Reliable(v)) /\ code > 100
           w == IF repeats THEN StartRetransmit(v) ELSE v
           x == StartTimeout(w)
<1>1. t.state < Confirmed /\ t.state < Terminated
  BY DEF Trying, Proceeding, Confirmed, Terminated
<1>2. Sound(a, n) /\ a.state = t.state /\ UAS(a)
  <2>1. code \in Status
    BY DEF Status
  <2>2. a \in Tsx
    BY <2>1, Updates DEF Good, Sound, Core
  <2>3. a.state = t.state /\ UAS(a)
    BY DEF Good, Sound, Core, Tsx, UAS
  <2> QED BY <2>2, <2>3 DEF Good, Sound, Core, Tsx, Counted, Held, OneSend, Going
<1>3. r \in tsx_send_msg(a)
  OBVIOUS
<1> HIDE DEF a
<1>4. SentOr(a, r, n)
  BY <1>1, <1>2, <1>3, SendMsgSound
<1>5. Answered(r, code) =
        IF ~ r.ok THEN r.t
        ELSE IF code < 200 THEN [w EXCEPT !.state = Proceeding]
        ELSE [x EXCEPT !.state = Completed]
  BY DEF Answered
<1>6. CASE ~ r.ok
  <2>1. Sound(r.t, n) /\ r.t.state >= Terminated
    BY <1>2, <1>4, <1>6 DEF SentOr, Terminated, UAC, UAS
  <2> QED BY <1>5, <1>6, <2>1, EndedGood DEF Sound
<1>7. CASE r.ok
  <2>1. Sound(r.t, n) /\ r.t.state = t.state
    BY <1>2, <1>4, <1>7 DEF SentOr
  <2>2. Sound(u, n) /\ u.state = t.state
    <3>1. CASE code = 100 \/ (code < 200 /\ ~ Invite(r.t))
      BY <2>1, <3>1
    <3>2. CASE ~ (code = 100 \/ (code < 200 /\ ~ Invite(r.t)))
      BY <2>1, <3>2, CancelSound DEF Same, Timer
    <3> QED BY <3>1, <3>2
  <2> HIDE DEF u
  <2>3. Sound(v, n) /\ v.state = t.state /\ v.last_tx
    <3>1. v \in Tsx
      BY <2>2, Updates DEF Sound, Core
    <3>2. v.state = t.state /\ v.last_tx
      BY <2>2 DEF Sound, Core, Tsx
    <3>3. Counted(v, n) /\ OneSend(v)
      BY <2>2 DEF Sound, Core, Tsx, Counted, Held, OneSend
    <3>4. Going(v)
      BY <2>2 DEF Sound, Core, Tsx, Going
    <3> QED BY <3>1, <3>2, <3>3, <3>4 DEF Sound, Core
  <2> HIDE DEF v
  <2>4. Sound(w, n) /\ w.state = t.state /\ w.last_tx
    <3>1. CASE repeats
      BY <1>1, <2>3, <3>1, StartRetransmitSame DEF Same
    <3>2. CASE ~ repeats
      BY <2>3, <3>2
    <3> QED BY <3>1, <3>2
  <2> HIDE DEF w
  <2>5. Sound(x, n) /\ x.state = t.state /\ x.last_tx
    BY <2>4, StartTimeoutSound DEF Same
  <2> HIDE DEF x
  <2>6. Good([w EXCEPT !.state = Proceeding], n)
    BY <1>1, <2>4, WorkingGood
  <2>7. Good([x EXCEPT !.state = Completed], n)
    BY <1>1, <2>5, WorkingGood
  <2> QED BY <1>5, <1>7, <2>6, <2>7
<1> QED BY <1>6, <1>7

-----------------------------------------------------------------------------
(* Messages from the network.                                               *)

LEMMA StatusGood ==
    ASSUME NEW t, NEW n, Good(t, n), NEW code \in Status
    PROVE  LET u == [t EXCEPT !.status = code] IN Good(u, n) /\ Same(t, u)
<1> DEFINE u == [t EXCEPT !.status = code]
<1>1. u \in Tsx
  BY Updates DEF Good, Sound, Core
<1>2. Same(t, u)
  BY DEF Good, Sound, Core, Tsx, Same
<1>3. Counted(u, n) /\ OneSend(u)
  BY DEF Good, Sound, Core, Tsx, Counted, Held, OneSend
<1>4. Going(u)
  BY DEF Good, Sound, Core, Tsx, Going
<1> HIDE DEF u
<1>5. Sound(u, n)
  BY <1>1, <1>3, <1>4 DEF Sound, Core
<1> QED BY <1>2, <1>5, SameGood DEF u

LEMMA AcceptedGood ==
    ASSUME NEW t, NEW n \in Nat, Good(t, n), t.last_tx, t.state < Confirmed
    PROVE  Good(Accepted(t), n)
<1> DEFINE u == tsx_cancel_timer(t, "timeout")
           v == tsx_schedule_timer(u, "timeout", "TIMEOUT")
           w == tsx_cancel_timer(v, "retransmit")
<1>1. Accepted(t) = IF Invite(t) THEN SetTerminated(u, 200)
                    ELSE [w EXCEPT !.state = Completed]
  BY DEF Accepted
<1>2. Sound(u, n) /\ Same(t, u)
  BY CancelSound DEF Good, Timer
<1> HIDE DEF u
<1>3. Sound(v, n) /\ Same(u, v)
  BY <1>2, ScheduleSound DEF Timer
<1> HIDE DEF v
<1>4. Sound(w, n) /\ Same(v, w)
  BY <1>3, CancelSound DEF Timer
<1> HIDE DEF w
<1>5. w.state < Terminated /\ w.last_tx
  <2>1. t.state \in Int
    BY Fields DEF Good, Sound, Core, Null, Destroyed
  <2> QED BY <1>2, <1>3, <1>4, <2>1 DEF Same, Confirmed, Terminated
<1>6. Good([w EXCEPT !.state = Completed], n)
  BY <1>4, <1>5, WorkingGood
<1>7. Good(SetTerminated(u, 200), n)
  <2>1. 200 \in Status
    BY DEF Status, Response
  <2> QED BY <1>2, <2>1, SetTerminatedGood DEF Sound
<1> QED BY <1>1, <1>6, <1>7

(* The end of tsx_on_state_proceeding_uac() for a failure.                  *)
LEMMA CompletedGood ==
    ASSUME NEW t, NEW n \in Nat, Sound(t, n), t.state < Terminated, t.last_tx
    PROVE  Good(StartTimeout([t EXCEPT !.state = Completed]), n)
<1> DEFINE u == [t EXCEPT !.state = Completed]
<1>1. Good(u, n)
  BY WorkingGood
<1> HIDE DEF u
<1>2. Sound(StartTimeout(u), n) /\ Same(u, StartTimeout(u))
  BY <1>1, StartTimeoutSound DEF Good
<1>3. Good(StartTimeout(u), n)
  BY <1>1, <1>2, SameGood
<1> QED BY <1>3 DEF u

LEMMA RejectedGood ==
    ASSUME NEW t, NEW n \in Nat, Good(t, n), t.last_tx, t.state < Terminated,
           NEW x \in Rejected(t)
    PROVE  Good(x, n)
<1> DEFINE a == tsx_cancel_timer(t, "retransmit")
           u == tsx_cancel_timer(a, "timeout")
           done(v) == StartTimeout([v EXCEPT !.state = Completed])
<1>1. \/ \E r \in tsx_send_msg(u) : x = IF r.ok THEN done(r.t) ELSE r.t
      \/ x = done(u)
  <2> HIDE DEF a
  <2> SUFFICES ASSUME x \in IF Invite(u)
                            THEN {IF r.ok THEN done(r.t) ELSE r.t : r \in tsx_send_msg(u)}
                            ELSE {done(u)}
               PROVE  \/ \E r \in tsx_send_msg(u) : x = IF r.ok THEN done(r.t) ELSE r.t
                      \/ x = done(u)
    BY DEF Rejected, a
  <2> HIDE DEF u, done
  <2> QED OBVIOUS
<1>2. Sound(a, n) /\ Same(t, a)
  BY CancelSound DEF Good, Timer
<1> HIDE DEF a
<1>3. Sound(u, n) /\ Same(a, u)
  BY <1>2, CancelSound DEF Timer
<1> HIDE DEF u
<1>4. u.state < Terminated /\ u.last_tx
  BY <1>2, <1>3 DEF Same
<1>5. CASE \E r \in tsx_send_msg(u) : x = IF r.ok THEN done(r.t) ELSE r.t
  <2>1. PICK r \in tsx_send_msg(u) : x = IF r.ok THEN done(r.t) ELSE r.t
    BY <1>5
  <2>2. SentOr(u, r, n)
    BY <1>3, <1>4, SendMsgSound
  <2>3. CASE r.ok
    <3>1. Sound(r.t, n) /\ r.t.state < Terminated /\ r.t.last_tx
      BY <1>4, <2>2, <2>3 DEF SentOr
    <3>2. Good(done(r.t), n)
      BY <3>1, CompletedGood
    <3> HIDE DEF done
    <3> QED BY <2>1, <2>3, <3>2
  <2>4. CASE ~ r.ok
    <3>1. Good(u, n)
      <4>1. Same(t, u)
        BY <1>2, <1>3 DEF Same
      <4> QED BY <1>3, <4>1, SameGood
    <3>2. Sound(r.t, n) /\ Kept(u, r.t)
      BY <1>3, <1>4, SendMsgKept
    <3>3. Good(r.t, n)
      BY <3>1, <3>2, KeptGood
    <3> HIDE DEF done
    <3> QED BY <2>1, <2>4, <3>3
  <2> QED BY <2>3, <2>4
<1>6. CASE x = done(u)
  BY <1>3, <1>4, <1>6, CompletedGood
<1> QED BY <1>1, <1>5, <1>6

LEMMA ProceedingUacGood ==
    ASSUME NEW t, NEW n \in Nat, Good(t, n), UAC(t),
           t.state \in {Calling, Proceeding},
           NEW code \in Response, NEW x \in ProceedingUac(t, code)
    PROVE  Good(x, n)
<1> DEFINE u == [t EXCEPT !.status = code]
<1>1. t.state < Confirmed /\ t.state < Terminated /\ t.last_tx
  BY DEF Good, HasMessage, Calling, Proceeding, Confirmed, Terminated
<1>2. Good(u, n) /\ Same(t, u)
  BY StatusGood DEF Status
<1>3. \/ x = [u EXCEPT !.state = Proceeding]
      \/ x = Accepted(u)
      \/ x \in Rejected(u)
  BY DEF ProceedingUac
<1> HIDE DEF u
<1>4. u.state < Confirmed /\ u.state < Terminated /\ u.last_tx
  BY <1>1, <1>2 DEF Same
<1>5. Good([u EXCEPT !.state = Proceeding], n)
  BY <1>2, <1>4, WorkingGood DEF Good
<1>6. Good(Accepted(u), n)
  BY <1>2, <1>4, AcceptedGood
<1>7. CASE x \in Rejected(u)
  BY <1>2, <1>4, <1>7, RejectedGood
<1> QED BY <1>3, <1>5, <1>6, <1>7

LEMMA NotDeferredSound ==
    ASSUME NEW t, NEW n, Sound(t, n)
    PROVE  LET u == [t EXCEPT !.pending_resched = FALSE] IN Sound(u, n) /\ Same(t, u)
<1> DEFINE u == [t EXCEPT !.pending_resched = FALSE]
<1>1. u \in Tsx
  BY Updates DEF Sound, Core
<1>2. Same(t, u)
  BY DEF Sound, Core, Tsx, Same
<1>3. Counted(u, n) /\ OneSend(u)
  BY DEF Sound, Core, Tsx, Counted, Held, OneSend
<1>4. Going(u)
  BY DEF Sound, Core, Tsx, Going
<1> QED BY <1>1, <1>2, <1>3, <1>4 DEF Sound, Core

LEMMA FirstResponseGood ==
    ASSUME NEW t, NEW n \in Nat, Good(t, n), t.state = Calling, NEW code
    PROVE  Good(FirstResponse(t, code), n) /\ Same(t, FirstResponse(t, code))
<1> DEFINE u == tsx_cancel_timer(t, "retransmit")
           c == tsx_cancel_timer(u, "timeout")
           s == tsx_schedule_timer(u, "retransmit", "RETRANSMIT")
           v == IF code >= 200
                THEN IF t.id # "INACTIVE" THEN c ELSE u
                ELSE IF Invite(t) THEN c
                ELSE IF Reliable(t) THEN u ELSE s
           w == [v EXCEPT !.pending_resched = FALSE]
<1>1. FirstResponse(t, code) = w
  BY DEF FirstResponse
<1>2. Sound(u, n) /\ Same(t, u)
  BY CancelSound DEF Good, Timer
<1> HIDE DEF u
<1>3. Sound(c, n) /\ Same(u, c)
  BY <1>2, CancelSound DEF Timer
<1>4. Sound(s, n) /\ Same(u, s)
  <2>1. u.state # Confirmed
    BY <1>2 DEF Same, Calling, Confirmed
  <2> QED BY <1>2, <2>1, ScheduleSound DEF Timer
<1> HIDE DEF c, s
<1>5. Sound(v, n) /\ Same(t, v)
  <2>1. v = c \/ v = u \/ v = s
    OBVIOUS
  <2> HIDE DEF v
  <2> QED BY <1>2, <1>3, <1>4, <2>1 DEF Same
<1> HIDE DEF v
<1>6. Sound(w, n) /\ Same(t, w)
  <2>1. Sound(w, n) /\ Same(v, w)
    BY <1>5, NotDeferredSound
  <2> QED BY <1>5, <2>1 DEF Same
<1> QED BY <1>1, <1>6, SameGood

LEMMA OnResponseGood ==
    ASSUME NEW t, NEW n \in Nat, Good(t, n), UAC(t), t.state # Null,
           NEW code \in Response, NEW x \in OnResponse(t, code)
    PROVE  Good(x, n)
<1>1. CASE t.state = Calling
  <2> DEFINE u == FirstResponse(t, code)
  <2>1. x \in ProceedingUac(u, code)
    <3>1. ~ (t.state = Proceeding) /\ ~ (t.state = Completed)
      BY <1>1 DEF Calling, Proceeding, Completed
    <3> QED BY <1>1, <3>1, Zenon DEF OnResponse
  <2>2. Good(u, n) /\ Same(t, u)
    BY <1>1, FirstResponseGood
  <2> HIDE DEF u
  <2>3. UAC(u) /\ u.state \in {Calling, Proceeding}
    BY <1>1, <2>2 DEF Same, UAC
  <2> QED BY <2>1, <2>2, <2>3, ProceedingUacGood
<1>2. CASE t.state = Proceeding
  <2>1. x \in ProceedingUac(t, code)
    <3>1. ~ (t.state = Calling) /\ ~ (t.state = Completed)
      BY <1>2 DEF Calling, Proceeding, Completed
    <3> QED BY <1>2, <3>1, Zenon DEF OnResponse
  <2> QED BY <1>2, <2>1, ProceedingUacGood
<1>3. CASE t.state = Completed /\ Invite(t) /\ code >= 200
  <2>1. x \in tsx_retransmit(t, FALSE)
    <3>1. ~ (t.state = Calling) /\ ~ (t.state = Proceeding)
      BY <1>3 DEF Calling, Proceeding, Completed
    <3> QED BY <1>3, <3>1, Zenon DEF OnResponse
  <2>2. t.state < Terminated /\ t.last_tx
    BY <1>3 DEF Completed, Proceeding, Terminated, Good, HasMessage
  <2>3. Sound(x, n) /\ Kept(t, x)
    BY <2>1, <2>2, RetransmitSound DEF Good
  <2> QED BY <2>3, KeptGood
<1>4. CASE ~ (t.state = Calling \/ t.state = Proceeding
             \/ (t.state = Completed /\ Invite(t) /\ code >= 200))
  <2>1. x = t
    BY <1>4, Zenon DEF OnResponse
  <2> QED BY <2>1
<1> QED BY <1>1, <1>2, <1>3, <1>4

LEMMA OnRequestGood ==
    ASSUME NEW t, NEW n \in Nat, Good(t, n), UAS(t), NEW x \in OnRequest(t)
    PROVE  Good(x, n)
<1>1. CASE t.state = Null
  <2>1. x = [t EXCEPT !.state = Trying]
    <3>1. ~ (t.state = Proceeding) /\ ~ (t.state = Completed)
      BY <1>1 DEF Null, Proceeding, Completed
    <3> QED BY <1>1, <3>1, Zenon DEF OnRequest
  <2>2. /\ t.state < Terminated
        /\ UAC(t) \/ Trying = Calling \/ Trying >= Proceeding \/ t.pending_send
              => t.last_tx
    BY <1>1 DEF Calling, Null, Terminated, UAC, UAS, Trying, Proceeding, Good, HasMessage
  <2> QED BY <2>1, <2>2, WorkingGood DEF Good
<1>2. CASE t.state = Proceeding
  <2>1. \E r \in tsx_send_msg(t) : x = r.t
    <3>1. ~ (t.state = Null) /\ ~ (t.state = Completed)
      BY <1>2 DEF Null, Proceeding, Completed
    <3> QED BY <1>2, <3>1, Zenon DEF OnRequest
  <2>2. t.state < Terminated /\ t.last_tx
    BY <1>2 DEF Proceeding, Terminated, Good, HasMessage
  <2>3. Sound(x, n) /\ Kept(t, x)
    <3>1. PICK r \in tsx_send_msg(t) : x = r.t
      BY <2>1
    <3> QED BY <2>2, <3>1, SendMsgKept DEF Good
  <2> QED BY <2>3, KeptGood
<1>3. CASE t.state = Completed
  <2>1. x \in tsx_retransmit(t, FALSE)
    <3>1. ~ (t.state = Null) /\ ~ (t.state = Proceeding)
      BY <1>3 DEF Null, Proceeding, Completed
    <3> QED BY <1>3, <3>1, Zenon DEF OnRequest
  <2>2. t.state < Terminated /\ t.last_tx
    BY <1>3 DEF Completed, Proceeding, Terminated, Good, HasMessage
  <2>3. Sound(x, n) /\ Kept(t, x)
    BY <2>1, <2>2, RetransmitSound DEF Good
  <2> QED BY <2>3, KeptGood
<1>4. CASE t.state \notin {Null, Proceeding, Completed}
  <2>1. x = t
    BY <1>4, Zenon DEF OnRequest
  <2> QED BY <2>1
<1> QED BY <1>1, <1>2, <1>3, <1>4

LEMMA AckGood ==
    ASSUME NEW t, NEW n \in Nat, Good(t, n), t.state = Completed
    PROVE  LET u == [tsx_cancel_timer(t, "retransmit") EXCEPT !.pending_resched = FALSE]
           IN  Good([StartTimeout(u) EXCEPT !.state = Confirmed], n)
<1> DEFINE a == tsx_cancel_timer(t, "retransmit")
           u == [a EXCEPT !.pending_resched = FALSE]
           v == StartTimeout(u)
           w == [v EXCEPT !.state = Confirmed]
<1>1. Sound(a, n) /\ Same(t, a) /\ ~ a.running["retransmit"]
  BY CancelSound DEF Good, Timer
<1> HIDE DEF a
<1>2. Sound(u, n) /\ Same(a, u)
  BY <1>1, NotDeferredSound
<1>3. ~ u.running["retransmit"] /\ ~ u.pending_resched
  BY <1>1 DEF Sound, Core, Tsx
<1> HIDE DEF u
<1>4. /\ Core(v, n) /\ SameButTimers(u, v) /\ Sound(v, n)
      /\ v.running["retransmit"] = u.running["retransmit"]
  BY <1>2, StartTimeoutCore, StartTimeoutSound DEF Sound
<1> HIDE DEF v
<1>5. t.last_tx
  BY DEF Good, HasMessage, Completed, Proceeding, Terminated
<1>6. /\ ~ v.running["retransmit"] /\ ~ v.pending_resched
      /\ v.last_tx /\ v.state < Terminated
  BY <1>1, <1>2, <1>3, <1>4, <1>5 DEF SameButTimers, Same, Completed, Terminated
<1>7. w \in Tsx
  BY <1>4, Updates, States DEF Core
<1>8. Counted(w, n) /\ OneSend(w)
  BY <1>4 DEF Core, Tsx, Counted, Held, OneSend
<1>9. Going(w)
  BY <1>4, <1>6 DEF Sound, Core, Tsx, Going
<1>10. HasMessage(w)
  BY <1>4, <1>6 DEF Core, Tsx, HasMessage
<1> QED BY <1>7, <1>8, <1>9, <1>10 DEF Good, Sound, Core, v, u, a

LEMMA OnResponseForward ==
    ASSUME NEW t, NEW code, t.state >= Terminated, NEW x \in OnResponse(t, code)
    PROVE  x = t
<1>1. ~ (t.state = Calling) /\ ~ (t.state = Proceeding) /\ ~ (t.state = Completed)
  BY DEF Calling, Proceeding, Completed, Terminated
<1> QED BY <1>1, Zenon DEF OnResponse

LEMMA OnRequestForward ==
    ASSUME NEW t, t.state >= Terminated, NEW x \in OnRequest(t)
    PROVE  x = t
<1>1. ~ (t.state = Null) /\ ~ (t.state = Proceeding) /\ ~ (t.state = Completed)
  BY DEF Null, Proceeding, Completed, Terminated
<1> QED BY <1>1, Zenon DEF OnRequest

-----------------------------------------------------------------------------
(* Transports.                                                              *)

(* The callback of a send that the transaction does not wait for.           *)
LEMMA LateSendGood ==
    ASSUME NEW t, NEW n \in Nat, Good(t, n), "resolve" \in t.sends, ~ t.pending_tx
    PROVE  LET u == [t EXCEPT !.sends = t.sends \ {"resolve"}, !.refs = t.refs - 1]
           IN  Good(u, n) /\ u.state = t.state
<1> DEFINE u == [t EXCEPT !.sends = t.sends \ {"resolve"}, !.refs = t.refs - 1]
<1>1. t.sends \ {"resolve"} \in SUBSET Pieces /\ t.refs - 1 \in Int
  BY Fields DEF Good, Sound, Core
<1>2. u \in Tsx
  BY <1>1, Updates DEF Good, Sound, Core
<1>3. /\ u.state = t.state /\ u.registered = t.registered
      /\ u.sends = t.sends \ {"resolve"} /\ u.running = t.running
      /\ u.terminating = t.terminating /\ u.refs = t.refs - 1
      /\ u.pending_tx = t.pending_tx
  BY DEF Good, Sound, Core, Tsx
<1>4. Counted(u, n)
  BY <1>3, Fields DEF Good, Sound, Core, Counted, Held, Bit
<1>5. OneSend(u)
  BY <1>3 DEF Good, Sound, Core, OneSend
<1> HIDE DEF u
<1>6. u.state >= Terminated
  <2>1. ~ (t.state < Terminated)
    BY DEF Good, Sound, Going
  <2> QED BY <1>2, <1>3, <2>1, Fields DEF Null, Destroyed, Terminated
<1> QED BY <1>2, <1>3, <1>4, <1>5, <1>6, EndedGood DEF Core, u

LEMMA TransportDoneGood ==
    ASSUME NEW t, NEW n \in Nat, Good(t, n), "transport" \in t.sends
    PROVE  LET u == [t EXCEPT !.pending = FALSE, !.sends = t.sends \ {"transport"},
                              !.refs = t.refs - 1]
           IN  Good(u, n) /\ u.state = t.state
<1> DEFINE u == [t EXCEPT !.pending = FALSE, !.sends = t.sends \ {"transport"},
                          !.refs = t.refs - 1]
<1>1. t.sends \ {"transport"} \in SUBSET Pieces /\ t.refs - 1 \in Int
  BY Fields DEF Good, Sound, Core
<1>2. u \in Tsx
  BY <1>1, Updates DEF Good, Sound, Core
<1>3. /\ u.state = t.state /\ u.registered = t.registered
      /\ u.sends = t.sends \ {"transport"} /\ u.running = t.running
      /\ u.terminating = t.terminating /\ u.refs = t.refs - 1
      /\ u.pending = FALSE /\ u.pending_tx = t.pending_tx /\ u.last_tx = t.last_tx
      /\ u.pending_destroy = t.pending_destroy /\ u.transport = t.transport
      /\ u.resolved = t.resolved /\ u.kind = t.kind
      /\ u.pending_resched = t.pending_resched
      /\ u.res_transport = t.res_transport /\ u.pending_send = t.pending_send
  BY DEF Good, Sound, Core, Tsx
<1>4. Counted(u, n)
  BY <1>3, Fields DEF Good, Sound, Core, Counted, Held, Bit
<1>5. OneSend(u)
  BY <1>3 DEF Good, Sound, Core, OneSend
<1>6. Going(u)
  BY <1>3 DEF Good, Sound, Core, OneSend, Going
<1> HIDE DEF u
<1>7. Sound(u, n) /\ Same(t, u)
  BY <1>2, <1>3, <1>4, <1>5, <1>6 DEF Sound, Core, Same
<1> QED BY <1>3, <1>7, SameGood DEF u

LEMMA TransportFailedGood ==
    ASSUME NEW t, NEW n \in Nat, Good(t, n),
           "transport" \in t.sends, "failed" \notin t.sends
    PROVE  LET u == [t EXCEPT !.pending = FALSE,
                              !.sends = (t.sends \ {"transport"}) \cup {"failed"}]
           IN  Good(u, n) /\ u.state = t.state
<1> DEFINE u == [t EXCEPT !.pending = FALSE,
                          !.sends = (t.sends \ {"transport"}) \cup {"failed"}]
<1>1. (t.sends \ {"transport"}) \cup {"failed"} \in SUBSET Pieces
  BY Fields DEF Good, Sound, Core, Pieces
<1>2. u \in Tsx
  BY <1>1, Updates DEF Good, Sound, Core
<1>3. /\ u.state = t.state /\ u.registered = t.registered
      /\ u.sends = (t.sends \ {"transport"}) \cup {"failed"}
      /\ u.running = t.running
      /\ u.terminating = t.terminating /\ u.refs = t.refs
      /\ u.pending = FALSE /\ u.pending_tx = t.pending_tx /\ u.last_tx = t.last_tx
      /\ u.pending_destroy = t.pending_destroy /\ u.transport = t.transport
      /\ u.resolved = t.resolved /\ u.kind = t.kind
      /\ u.pending_resched = t.pending_resched
      /\ u.res_transport = t.res_transport /\ u.pending_send = t.pending_send
  BY DEF Good, Sound, Core, Tsx
<1>4. Counted(u, n)
  BY <1>3, Fields DEF Good, Sound, Core, Counted, Held, Bit
<1>5. OneSend(u)
  BY <1>3 DEF Good, Sound, Core, OneSend
<1>6. Going(u)
  BY <1>3 DEF Good, Sound, Core, OneSend, Going
<1> HIDE DEF u
<1>7. Sound(u, n) /\ Same(t, u)
  BY <1>2, <1>3, <1>4, <1>5, <1>6 DEF Sound, Core, Same
<1> QED BY <1>3, <1>7, SameGood DEF u

LEMMA PostErrorGood ==
    ASSUME NEW t, NEW n \in Nat, Good(t, n)
    PROVE  LET u == PostError(t)
           IN  Good(u, n) /\ u.state = t.state /\ u.sends = t.sends
<1> DEFINE a == tsx_cancel_timer(t, "timeout")
           b == tsx_schedule_timer(a, "timeout", "TRANSPORT_ERR")
<1>1. Sound(a, n) /\ Same(t, a) /\ SameButTimers(t, a)
  BY CancelSound, CancelCore DEF Good, Sound, Timer
<1> HIDE DEF a
<1>2. Sound(b, n) /\ Same(a, b) /\ SameButTimers(a, b)
  BY <1>1, ScheduleSound, ScheduleCore DEF Timer, Sound
<1>3. PostError(t) = b \/ PostError(t) = t
  BY DEF PostError, a
<1> HIDE DEF b
<1>4. Good(b, n) /\ b.state = t.state /\ b.sends = t.sends
  BY <1>1, <1>2, SameGood DEF Same, SameButTimers
<1> QED BY <1>3, <1>4

LEMMA PostedGood ==
    ASSUME NEW t, NEW n \in Nat, Good(t, n), "failed" \in t.sends
    PROVE  LET u == [t EXCEPT !.sends = t.sends \ {"failed"}, !.refs = t.refs - 1]
           IN  Good(u, n) /\ u.state = t.state
<1> DEFINE u == [t EXCEPT !.sends = t.sends \ {"failed"}, !.refs = t.refs - 1]
<1>1. t.sends \ {"failed"} \in SUBSET Pieces /\ t.refs - 1 \in Int
  BY Fields DEF Good, Sound, Core
<1>2. u \in Tsx
  BY <1>1, Updates DEF Good, Sound, Core
<1>3. /\ u.state = t.state /\ u.registered = t.registered
      /\ u.sends = t.sends \ {"failed"} /\ u.running = t.running
      /\ u.terminating = t.terminating /\ u.refs = t.refs - 1
      /\ u.pending = t.pending /\ u.pending_tx = t.pending_tx
      /\ u.pending_destroy = t.pending_destroy /\ u.transport = t.transport
      /\ u.resolved = t.resolved /\ u.kind = t.kind /\ u.last_tx = t.last_tx
      /\ u.pending_resched = t.pending_resched
      /\ u.res_transport = t.res_transport /\ u.pending_send = t.pending_send
  BY DEF Good, Sound, Core, Tsx
<1>4. Counted(u, n)
  BY <1>3, Fields DEF Good, Sound, Core, Counted, Held, Bit
<1>5. OneSend(u)
  BY <1>3 DEF Good, Sound, Core, OneSend
<1>6. Going(u)
  BY <1>3 DEF Good, Sound, Going
<1> HIDE DEF u
<1>7. Sound(u, n) /\ Same(t, u)
  BY <1>2, <1>3, <1>4, <1>5, <1>6 DEF Sound, Core, Same
<1> QED BY <1>3, <1>7, SameGood DEF u

-----------------------------------------------------------------------------
(* Timer callbacks.                                                         *)

LEMMA ExpireGood ==
    ASSUME NEW t, NEW n \in Nat, Good(t, n), NEW x \in Timer, t.running[x]
    PROVE  LET u == [t EXCEPT !.running[x] = FALSE]
           IN  Good(u, n + 1) /\ u.state = t.state
<1> DEFINE r == [t.running EXCEPT ![x] = FALSE]
           u == [t EXCEPT !.running = r]
<1>0. [t EXCEPT !.running[x] = FALSE] = u
  OBVIOUS
<1>1. r \in [Timer -> BOOLEAN]
  BY Fields DEF Good, Sound, Core
<1>2. u \in Tsx
  <2> HIDE DEF r
  <2> QED BY <1>1, Updates DEF Good, Sound, Core
<1>3. /\ u.state = t.state /\ u.registered = t.registered
      /\ u.sends = t.sends /\ u.running = r
      /\ u.terminating = t.terminating /\ u.refs = t.refs
      /\ u.pending = t.pending /\ u.pending_tx = t.pending_tx
      /\ u.pending_destroy = t.pending_destroy /\ u.transport = t.transport
      /\ u.resolved = t.resolved /\ u.kind = t.kind /\ u.last_tx = t.last_tx
      /\ u.pending_resched = t.pending_resched
      /\ u.res_transport = t.res_transport /\ u.pending_send = t.pending_send
  BY DEF Good, Sound, Core, Tsx
<1> HIDE DEF u
<1>4. Counted(u, n + 1)
  BY <1>3, Fields DEF Good, Sound, Core, Counted, Held, Bit, Timer
<1>5. OneSend(u)
  BY <1>3 DEF Good, Sound, Core, OneSend
<1>6. ~ t.running["retransmit"] => ~ u.running["retransmit"]
  BY <1>3, Fields DEF Good, Sound, Core, Timer
<1>7. Going(u)
  BY <1>3, <1>6 DEF Good, Sound, Going
<1>8. Sound(u, n + 1)
  BY <1>2, <1>4, <1>5, <1>7 DEF Sound, Core
<1>9. HasMessage(u)
  BY <1>3 DEF Good, HasMessage, UAC
<1> QED BY <1>0, <1>3, <1>8, <1>9 DEF Good

(* The poller drops the reference of the timer.                             *)
LEMMA DropGood ==
    ASSUME NEW t, NEW n \in Nat, Good(t, n + 1)
    PROVE  LET u == [t EXCEPT !.refs = t.refs - 1]
           IN  Good(u, n) /\ u.state = t.state
<1> DEFINE u == [t EXCEPT !.refs = t.refs - 1]
<1>1. t.refs - 1 \in Int
  BY Fields DEF Good, Sound, Core
<1>2. u \in Tsx
  BY <1>1, Updates DEF Good, Sound, Core
<1>3. /\ u.state = t.state /\ u.registered = t.registered
      /\ u.sends = t.sends /\ u.running = t.running
      /\ u.terminating = t.terminating /\ u.refs = t.refs - 1
      /\ u.pending = t.pending /\ u.pending_tx = t.pending_tx
      /\ u.pending_destroy = t.pending_destroy /\ u.transport = t.transport
      /\ u.resolved = t.resolved /\ u.kind = t.kind /\ u.last_tx = t.last_tx
      /\ u.pending_resched = t.pending_resched
      /\ u.res_transport = t.res_transport /\ u.pending_send = t.pending_send
  BY DEF Good, Sound, Core, Tsx
<1> HIDE DEF u
<1>4. Counted(u, n)
  <2>1. Held(u) = Held(t)
    BY <1>3 DEF Held
  <2>2. Held(t) \in Int
    BY DEF Held, Bit
  <2> QED BY <1>3, <2>1, <2>2 DEF Good, Sound, Core, Counted
<1>5. OneSend(u)
  BY <1>3 DEF Good, Sound, Core, OneSend
<1>6. Going(u)
  BY <1>3 DEF Good, Sound, Going
<1>7. HasMessage(u)
  BY <1>3 DEF Good, HasMessage, UAC
<1>8. Sound(u, n)
  BY <1>2, <1>4, <1>5, <1>6 DEF Sound, Core
<1> QED BY <1>3, <1>7, <1>8 DEF Good, u

LEMMA IdGood ==
    ASSUME NEW t, NEW n, Good(t, n), NEW id \in Id
    PROVE  LET u == [t EXCEPT !.id = id] IN Good(u, n) /\ u.state = t.state
<1> DEFINE u == [t EXCEPT !.id = id]
<1>1. u \in Tsx
  BY Updates DEF Good, Sound, Core
<1>2. Same(t, u)
  BY DEF Good, Sound, Core, Tsx, Same
<1>3. Counted(u, n) /\ OneSend(u)
  BY DEF Good, Sound, Core, Tsx, Counted, Held, OneSend
<1>4. Going(u)
  BY DEF Good, Sound, Core, Tsx, Going
<1> HIDE DEF u
<1>5. Sound(u, n)
  BY <1>1, <1>3, <1>4 DEF Sound, Core
<1> QED BY <1>2, <1>5, SameGood DEF u, Same

LEMMA ToldGood ==
    ASSUME NEW t, NEW n, Good(t, n), NEW b \in BOOLEAN
    PROVE  LET u == [t EXCEPT !.told = b] IN Good(u, n) /\ u.state = t.state
<1> DEFINE u == [t EXCEPT !.told = b]
<1>1. u \in Tsx
  BY Updates DEF Good, Sound, Core
<1>2. Same(t, u)
  BY DEF Good, Sound, Core, Tsx, Same
<1>3. Counted(u, n) /\ OneSend(u)
  BY DEF Good, Sound, Core, Tsx, Counted, Held, OneSend
<1>4. Going(u)
  BY DEF Good, Sound, Core, Tsx, Going
<1> HIDE DEF u
<1>5. Sound(u, n)
  BY <1>1, <1>3, <1>4 DEF Sound, Core
<1> QED BY <1>2, <1>5, SameGood DEF u, Same

LEMMA TransportErrorGood ==
    ASSUME NEW t, NEW n \in Nat, Good(t, n)
    PROVE  LET u == [t EXCEPT !.transport = FALSE, !.state = Terminated,
                              !.status = IF t.status < 200 THEN 503 ELSE t.status]
               v == tsx_cancel_timer(Disassociated(u), "timeout")
           IN  Good(v, n) /\ v.state = Terminated
<1> DEFINE s == IF t.status < 200 THEN 503 ELSE t.status
           u == [t EXCEPT !.transport = FALSE, !.state = Terminated, !.status = s]
           d == Disassociated(u)
           v == tsx_cancel_timer(d, "timeout")
<1>1. s \in Status
  BY Fields DEF Good, Sound, Core, Status
<1>2. Core(u, n) /\ u.state = Terminated
  <2>1. u \in Tsx
    <3> HIDE DEF s
    <3> QED BY <1>1, Updates, States DEF Good, Sound, Core
  <2>2. Counted(u, n) /\ OneSend(u) /\ u.state = Terminated
    <3> HIDE DEF s
    <3> QED BY DEF Good, Sound, Core, Tsx, Counted, Held, OneSend
  <2> QED BY <2>1, <2>2 DEF Core
<1> HIDE DEF u
<1>3. Core(d, n) /\ d.state = Terminated
  BY <1>2, DisassociatedCore
<1> HIDE DEF d
<1>4. Core(v, n) /\ v.state = Terminated
  BY <1>3, CancelCore DEF Timer, SameButTimers
<1> HIDE DEF v
<1>5. Good(v, n)
  BY <1>4, EndedGood DEF Terminated
<1> QED BY <1>4, <1>5 DEF v, d, u

LEMMA TimedOutGood ==
    ASSUME NEW t, NEW n \in Nat, Good(t, n)
    PROVE  LET v == TimedOut(t) IN Good(v, n) /\ v.state = Terminated
<1> DEFINE c == tsx_cancel_timer(t, "retransmit")
           a == [c EXCEPT !.pending_resched = FALSE]
           u == IF t.state # Calling THEN t ELSE a
           silent == t.state = Confirmed \/ (t.state = Completed /\ ~ (UAS(t) /\ Invite(t)))
           s == IF silent THEN u.status ELSE 408
           v == [u EXCEPT !.state = Terminated, !.status = s]
<1>1. TimedOut(t) = v
  BY DEF TimedOut
<1>2. Sound(c, n)
  BY CancelSound DEF Good, Timer
<1> HIDE DEF c
<1>3. Sound(a, n)
  BY <1>2, NotDeferredSound
<1> HIDE DEF a
<1>4. Core(u, n)
  BY <1>3 DEF Good, Sound
<1> HIDE DEF u, silent
<1>5. s \in Status
  BY <1>4, Fields DEF Core, Status
<1> HIDE DEF s
<1>6. v \in Tsx
  BY <1>4, <1>5, Updates, States DEF Core
<1>7. Counted(v, n) /\ OneSend(v) /\ v.state = Terminated
  BY <1>4 DEF Core, Tsx, Counted, Held, OneSend
<1> HIDE DEF v
<1>8. Good(v, n)
  BY <1>6, <1>7, EndedGood DEF Core, Terminated
<1> QED BY <1>1, <1>7, <1>8

LEMMA DestroyedStateGood ==
    ASSUME NEW t, NEW n \in Nat, Good(t, n)
    PROVE  LET u == [t EXCEPT !.state = Destroyed] IN Good(u, n) /\ u.state = Destroyed
<1> DEFINE u == [t EXCEPT !.state = Destroyed]
<1>1. u \in Tsx
  BY Updates, States DEF Good, Sound, Core
<1>2. Counted(u, n) /\ OneSend(u) /\ u.state = Destroyed
  BY DEF Good, Sound, Core, Tsx, Counted, Held, OneSend
<1> HIDE DEF u
<1>3. Good(u, n)
  BY <1>1, <1>2, EndedGood DEF Core, Terminated, Destroyed
<1> QED BY <1>2, <1>3 DEF u

-----------------------------------------------------------------------------
(* The pollers that are in a callback.                                      *)

LEMMA Counts == IsFiniteSet(InCallback) /\ Cardinality(InCallback) \in Nat
<1>1. InCallback \in SUBSET Poller
  BY DEF InCallback
<1> QED BY <1>1, TransactionAssumption, FS_Subset, FS_CardinalityType

LEMMA Entered ==
    ASSUME NEW p \in Poller, thread[p].pc = "poll", InCallback' = InCallback \cup {p}
    PROVE  Cardinality(InCallback') = Cardinality(InCallback) + 1
<1>1. p \notin InCallback
  BY DEF InCallback
<1> QED BY <1>1, Counts, FS_AddElement

LEMMA Left ==
    ASSUME NEW p \in Poller, thread[p].pc # "poll", InCallback' = InCallback \ {p}
    PROVE  /\ Cardinality(InCallback) = Cardinality(InCallback') + 1
           /\ Cardinality(InCallback') \in Nat
<1>1. p \in InCallback
  BY DEF InCallback
<1>2. IsFiniteSet(InCallback') /\ p \notin InCallback'
  BY Counts, FS_RemoveElement
<1>3. InCallback = InCallback' \cup {p}
  BY <1>1
<1> QED BY <1>2, <1>3, FS_AddElement, FS_CardinalityType

-----------------------------------------------------------------------------
(* From a transaction to the system.                                        *)

LEMMA Quiet ==
    ASSUME IndInv, UNCHANGED thread,
           Good(tsx', Cardinality(InCallback)), Forward(tsx, tsx')
    PROVE  IndInv'
<1>1. InCallback' = InCallback
  BY DEF InCallback
<1>2. Cardinality(InCallback)' = Cardinality(InCallback)
  BY <1>1
<1>3. Good(tsx, Cardinality(InCallback))'
  BY <1>2
<1>4. (\A p \in Poller : thread[p].pc \in Over => tsx.state >= Terminated)'
  BY DEF IndInv, Forward
<1> QED BY <1>3, <1>4 DEF IndInv

LEMMA Gone ==
    ASSUME IndInv, NEW p \in Poller, thread[p].pc # "poll",
           NEW q \in Place \ {"poll"}, Goto(p, q),
           Good(tsx', Cardinality(InCallback)), Forward(tsx, tsx'),
           q \in Over => tsx'.state >= Terminated
    PROVE  IndInv'
<1>1. /\ thread' \in [Poller -> [pc : Place, timer : Timer]]
      /\ thread'[p].pc = q /\ \A o \in Poller \ {p} : thread'[o] = thread[o]
  BY DEF IndInv, Goto
<1>2. InCallback' = InCallback
  BY <1>1 DEF InCallback
<1>3. Good(tsx, Cardinality(InCallback))'
  BY <1>2
<1>4. (\A o \in Poller : thread[o].pc \in Over => tsx.state >= Terminated)'
  BY <1>1 DEF IndInv, Forward
<1> QED BY <1>1, <1>3, <1>4 DEF IndInv

LEMMA Returned ==
    ASSUME IndInv, NEW p \in Poller, thread[p].pc # "poll",
           NEW t, Good(t, Cardinality(InCallback)), Forward(tsx, t), Return(p, t)
    PROVE  IndInv'
<1>1. /\ thread' \in [Poller -> [pc : Place, timer : Timer]]
      /\ thread'[p].pc = "poll" /\ \A o \in Poller \ {p} : thread'[o] = thread[o]
  BY DEF IndInv, Return, Polling, Place, Timer
<1>2. InCallback' = InCallback \ {p}
  BY <1>1 DEF InCallback
<1> DEFINE m == Cardinality(InCallback')
           u == [t EXCEPT !.refs = t.refs - 1]
<1>3. Cardinality(InCallback) = m + 1 /\ m \in Nat
  BY <1>2, Left
<1>4. tsx' = u
  BY DEF Return
<1> HIDE DEF m
<1>5. Good(u, m) /\ u.state = t.state
  BY <1>3, DropGood
<1> HIDE DEF u
<1>6. Good(tsx, Cardinality(InCallback))'
  BY <1>4, <1>5 DEF m
<1>7. (\A o \in Poller : thread[o].pc \in Over => tsx.state >= Terminated)'
  BY <1>1, <1>4, <1>5 DEF IndInv, Forward, Over
<1> QED BY <1>1, <1>6, <1>7 DEF IndInv

LEMMA ExpireStep ==
    ASSUME IndInv, NEW p \in Poller, NEW x \in Timer, Expire(p, x)
    PROVE  IndInv'
<1>1. /\ thread' \in [Poller -> [pc : Place, timer : Timer]]
      /\ thread'[p].pc = "expired" /\ \A o \in Poller \ {p} : thread'[o] = thread[o]
  BY DEF IndInv, Expire, Place
<1>2. InCallback' = InCallback \cup {p}
  BY <1>1 DEF InCallback
<1> DEFINE n == Cardinality(InCallback)
           u == [tsx EXCEPT !.running[x] = FALSE]
<1>3. Cardinality(InCallback') = n + 1 /\ n \in Nat
  BY <1>2, Entered, Counts DEF Expire
<1> HIDE DEF n
<1>4. Good(u, n + 1) /\ u.state = tsx.state
  BY <1>3, ExpireGood DEF IndInv, Expire, n
<1>5. tsx' = u
  BY DEF Expire
<1> HIDE DEF u
<1>6. Good(tsx, Cardinality(InCallback))'
  BY <1>3, <1>4, <1>5
<1>7. (\A o \in Poller : thread[o].pc \in Over => tsx.state >= Terminated)'
  BY <1>1, <1>4, <1>5 DEF IndInv, Over
<1> QED BY <1>1, <1>6, <1>7 DEF IndInv

LEMMA InitGood == Init => IndInv
<1> SUFFICES ASSUME Init PROVE IndInv
  OBVIOUS
<1>1. thread \in [Poller -> [pc : Place, timer : Timer]] /\ InCallback = {}
  BY DEF Init, Polling, Place, Timer, InCallback
<1>2. Cardinality(InCallback) = 0
  BY <1>1, FS_EmptySet
<1>3. PICK k \in Kind, rel \in BOOLEAN, tp \in BOOLEAN :
          tsx = [kind |-> k, state |-> Null, status |-> 0,
                 reliable |-> rel, transport |-> tp, res_transport |-> tp,
                 resolved |-> FALSE, pending |-> FALSE, pending_send |-> FALSE,
                 pending_resched |-> FALSE, pending_destroy |-> FALSE,
                 pending_tx |-> FALSE, sends |-> {},
                 last_tx |-> k.role = "UAC", null_tx |-> FALSE,
                 running |-> [x \in Timer |-> FALSE],
                 id |-> "INACTIVE", registered |-> TRUE, terminating |-> FALSE,
                 told |-> FALSE, refs |-> 1]
  BY ZenonT(40) DEF Init
<1>4. tsx \in Tsx
  BY <1>3, States DEF Tsx
<1>5. Counted(tsx, 0) /\ OneSend(tsx)
  BY <1>3 DEF Counted, Held, Bit, OneSend, Timer
<1>6. Going(tsx)
  BY <1>3 DEF Going, Null, Confirmed
<1>7. HasMessage(tsx)
  <2>1. tsx.kind = k /\ tsx.state = Null /\ tsx.pending_send = FALSE
    BY <1>3
  <2>2. ASSUME k.role = "UAC" PROVE tsx.last_tx
    BY <1>3, <2>2
  <2>3. ~ (tsx.state >= Proceeding) /\ ~ (tsx.state = Calling)
    BY <2>1 DEF Null, Calling, Proceeding
  <2> QED BY <2>1, <2>2, <2>3 DEF HasMessage, UAC
<1>8. Good(tsx, Cardinality(InCallback))
  BY <1>2, <1>4, <1>5, <1>6, <1>7 DEF Good, Sound, Core
<1>9. \A p \in Poller : thread[p].pc \notin Over
  BY DEF Init, Polling, Over
<1> QED BY <1>1, <1>8, <1>9 DEF IndInv

-----------------------------------------------------------------------------
(* One lemma per group of actions.                                          *)

LEMMA UserStep ==
    ASSUME IndInv,
           \/ SendRequest \/ pjsip_tsx_terminate \/ pjsip_tsx_stop_retransmit
           \/ pjsip_tsx_set_timeout \/ pjsip_tsx_retransmit_no_state \/ LayerStops
           \/ \E code \in Response : SendResponse(code)
    PROVE  IndInv'
<1> DEFINE n == Cardinality(InCallback)
<1>0. Good(tsx, n) /\ n \in Nat /\ Sound(tsx, n) /\ Core(tsx, n) /\ tsx.state \in Int
  <2>1. Good(tsx, n) /\ n \in Nat
    BY Counts DEF IndInv
  <2> QED BY <2>1, Fields DEF Good, Sound, Core, Null, Destroyed
<1> HIDE DEF n
<1>q. ASSUME Good(tsx', n), Forward(tsx, tsx'), UNCHANGED thread PROVE IndInv'
  BY <1>q, Quiet DEF n
<1>e. 503 \in Status
  BY DEF Status
<1>1. CASE SendRequest
  <2>1. PICK r \in tsx_send_msg(tsx) : tsx' = Called(r)
    BY <1>1 DEF SendRequest
  <2>2. Good(tsx', n)
    BY <1>0, <1>1, <2>1, CalledGood DEF SendRequest
  <2>3. Forward(tsx, tsx')
    BY <1>1 DEF SendRequest, Forward, Null, Terminated
  <2> QED BY <1>1, <1>q, <2>2, <2>3 DEF SendRequest
<1>2. CASE pjsip_tsx_terminate
  <2>1. Good(tsx', n) /\ tsx'.state = Terminated
    BY <1>0, <1>2, <1>e, SetTerminatedGood DEF pjsip_tsx_terminate
  <2> QED BY <1>2, <1>q, <2>1 DEF pjsip_tsx_terminate, Forward, Terminated
<1>3. CASE pjsip_tsx_stop_retransmit
  <2>1. Sound(tsx', n) /\ Same(tsx, tsx')
    BY <1>0, <1>3, CancelSound DEF pjsip_tsx_stop_retransmit, Timer
  <2>2. Good(tsx', n)
    BY <1>0, <2>1, SameGood
  <2> QED BY <1>3, <1>q, <2>1, <2>2 DEF pjsip_tsx_stop_retransmit, Forward, Same
<1>4. CASE pjsip_tsx_set_timeout
  <2>1. Sound(tsx', n) /\ Same(tsx, tsx')
    BY <1>0, <1>4, StartTimeoutSound DEF pjsip_tsx_set_timeout
  <2>2. Good(tsx', n)
    BY <1>0, <2>1, SameGood
  <2> QED BY <1>4, <1>q, <2>1, <2>2 DEF pjsip_tsx_set_timeout, Forward, Same
<1>5. CASE pjsip_tsx_retransmit_no_state
  <2>1. PICK r \in tsx_send_msg(tsx) : tsx' = r.t
    BY <1>5 DEF pjsip_tsx_retransmit_no_state
  <2>2. tsx.state < Terminated /\ tsx.last_tx
    BY <1>5 DEF pjsip_tsx_retransmit_no_state, Calling, Confirmed, Terminated
  <2>3. Sound(tsx', n) /\ Kept(tsx, tsx')
    BY <1>0, <2>1, <2>2, SendMsgKept
  <2>4. Good(tsx', n)
    BY <1>0, <2>3, KeptGood
  <2> QED BY <1>0, <1>5, <1>q, <2>2, <2>4
          DEF pjsip_tsx_retransmit_no_state, Forward, Terminated
<1>6. CASE LayerStops
  <2> DEFINE u == IF tsx.state < Terminated THEN SetTerminated(tsx, 503) ELSE tsx
  <2>1. Core(u, n) /\ u.state >= Terminated
    <3>1. CASE tsx.state < Terminated
      <4> DEFINE v == SetTerminated(tsx, 503)
      <4>1. Good(v, n) /\ v.state = Terminated
        BY <1>0, <1>e, SetTerminatedGood
      <4>2. u = v
        BY <3>1
      <4> HIDE DEF u, v
      <4> QED BY <4>1, <4>2 DEF Good, Sound, Terminated
    <3>2. CASE ~ (tsx.state < Terminated)
      BY <1>0, <3>2 DEF Terminated
    <3> QED BY <3>1, <3>2
  <2>2. tsx' = AfterDestroyed(u)
    BY <1>6 DEF LayerStops
  <2> HIDE DEF u
  <2>3. Good(tsx', n) /\ tsx'.state = u.state
    BY <1>0, <2>1, <2>2, AfterDestroyedGood
  <2> QED BY <1>6, <1>q, <2>1, <2>3 DEF LayerStops, Forward
<1>7. CASE \E code \in Response : SendResponse(code)
  <2>1. PICK code \in Response : SendResponse(code)
    BY <1>7
  <2>2. PICK r \in tsx_send_msg([tsx EXCEPT !.status = code, !.last_tx = FALSE]) :
            tsx' = Answered(r, code)
    BY <2>1 DEF SendResponse
  <2>3. Good(tsx', n)
    BY <1>0, <2>1, <2>2, AnsweredGood DEF SendResponse
  <2>4. Forward(tsx, tsx')
    <3>1. tsx.state \in {Trying, Proceeding}
      BY <2>1 DEF SendResponse
    <3> QED BY <3>1 DEF Forward, Trying, Proceeding, Terminated
  <2> QED BY <1>q, <2>1, <2>3, <2>4 DEF SendResponse
<1> QED BY <1>1, <1>2, <1>3, <1>4, <1>5, <1>6, <1>7

LEMMA NetworkStep ==
    ASSUME IndInv,
           \/ \E code \in Response : RecvResponse(code)
           \/ RecvRequest \/ RecvAck
    PROVE  IndInv'
<1> DEFINE n == Cardinality(InCallback)
<1>0. Good(tsx, n) /\ n \in Nat
  BY Counts DEF IndInv
<1> HIDE DEF n
<1>q. ASSUME Good(tsx', n), Forward(tsx, tsx'), UNCHANGED thread PROVE IndInv'
  BY <1>q, Quiet DEF n
<1>1. CASE \E code \in Response : RecvResponse(code)
  <2>1. PICK code \in Response : RecvResponse(code)
    BY <1>1
  <2>2. tsx' \in OnResponse(tsx, code) /\ UAC(tsx) /\ tsx.state # Null
    BY <2>1 DEF RecvResponse
  <2>3. Good(tsx', n)
    BY <1>0, <2>2, OnResponseGood
  <2>4. Forward(tsx, tsx')
    BY <2>2, OnResponseForward DEF Forward
  <2> QED BY <1>q, <2>1, <2>3, <2>4 DEF RecvResponse
<1>2. CASE RecvRequest
  <2>1. tsx' \in OnRequest(tsx) /\ UAS(tsx)
    BY <1>2 DEF RecvRequest
  <2>2. Good(tsx', n)
    BY <1>0, <2>1, OnRequestGood
  <2>3. Forward(tsx, tsx')
    BY <2>1, OnRequestForward DEF Forward
  <2> QED BY <1>2, <1>q, <2>2, <2>3 DEF RecvRequest
<1>3. CASE RecvAck
  <2>1. Good(tsx', n)
    BY <1>0, <1>3, AckGood DEF RecvAck
  <2>2. Forward(tsx, tsx')
    BY <1>3 DEF RecvAck, Forward, Completed, Terminated
  <2> QED BY <1>3, <1>q, <2>1, <2>2 DEF RecvAck
<1> QED BY <1>1, <1>2, <1>3

LEMMA TransportStep ==
    ASSUME IndInv, SendCallback \/ SendRetry \/ TransportLost
    PROVE  IndInv'
<1> DEFINE n == Cardinality(InCallback)
<1>0. Good(tsx, n) /\ n \in Nat /\ Sound(tsx, n)
  BY Counts DEF IndInv, Good
<1> HIDE DEF n
<1>q. ASSUME Good(tsx', n), Forward(tsx, tsx'), UNCHANGED thread PROVE IndInv'
  BY <1>q, Quiet DEF n
<1>1. CASE SendDone
  <2>1. CASE ~ tsx.pending_tx
    <3>1. Good(tsx', n) /\ tsx'.state = tsx.state
      <4> DEFINE u == [tsx EXCEPT !.sends = tsx.sends \ {"resolve"}, !.refs = tsx.refs - 1]
      <4>1. "resolve" \in tsx.sends
        BY <1>1 DEF SendDone
      <4>2. tsx' = u
        BY <1>1, <2>1 DEF SendDone
      <4>3. Good(u, n) /\ u.state = tsx.state
        BY <1>0, <2>1, <4>1, LateSendGood
      <4> HIDE DEF u
      <4> QED BY <4>2, <4>3
    <3> QED BY <1>1, <1>q, <3>1 DEF SendDone, Forward
  <2>2. CASE tsx.pending_tx
    <3>1. tsx' \in send_msg_callback_sent(tsx)
      BY <1>1, <2>2 DEF SendDone
    <3>2. Sound(tsx', n) /\ Kept(tsx, tsx')
      BY <1>0, <2>2, <3>1, SentSound
    <3>3. Good(tsx', n)
      BY <1>0, <3>2, KeptGood
    <3> QED BY <1>1, <1>q, <3>2, <3>3 DEF SendDone, Forward, Kept
  <2> QED BY <2>1, <2>2
<1>2. CASE SendFailed
  <2>1. Good(tsx', n) /\ tsx'.state >= Terminated
    BY <1>0, <1>2, FailedGood DEF SendFailed
  <2> QED BY <1>2, <1>q, <2>1 DEF SendFailed, Forward
<1>3. CASE TransportDone
  <2>1. Good(tsx', n) /\ tsx'.state = tsx.state
    BY <1>0, <1>3, TransportDoneGood DEF TransportDone
  <2> QED BY <1>3, <1>q, <2>1 DEF TransportDone, Forward
<1>4. CASE TransportFailed
  <2>1. Good(tsx', n) /\ tsx'.state = tsx.state
    BY <1>0, <1>4, TransportFailedGood DEF TransportFailed
  <2> QED BY <1>4, <1>q, <2>1 DEF TransportFailed, Forward
<1>5. CASE TransportFailurePosted
  <2> DEFINE u == PostError(tsx)
             v == [u EXCEPT !.sends = u.sends \ {"failed"}, !.refs = u.refs - 1]
  <2>1. Good(u, n) /\ u.state = tsx.state /\ u.sends = tsx.sends
    BY <1>0, PostErrorGood
  <2>2. tsx' = v /\ "failed" \in tsx.sends
    BY <1>5 DEF TransportFailurePosted
  <2> HIDE DEF u
  <2>3. Good(v, n) /\ v.state = u.state
    BY <1>0, <2>1, <2>2, PostedGood
  <2> HIDE DEF v
  <2> QED BY <1>5, <1>q, <2>1, <2>2, <2>3 DEF TransportFailurePosted, Forward
<1>6. CASE SendRetry
  <2>1. Sound(tsx', n) /\ Same(tsx, tsx')
    BY <1>0, <1>6, StartTimeoutSound DEF SendRetry
  <2>2. Good(tsx', n)
    BY <1>0, <2>1, SameGood
  <2> QED BY <1>6, <1>q, <2>1, <2>2 DEF SendRetry, Forward, Same
<1>7. CASE TransportLost
  <2>1. Good(tsx', n) /\ tsx'.state = tsx.state
    BY <1>0, <1>7, PostErrorGood DEF TransportLost
  <2> QED BY <1>7, <1>q, <2>1 DEF TransportLost, Forward
<1> QED BY <1>1, <1>2, <1>3, <1>4, <1>5, <1>6, <1>7 DEF SendCallback

LEMMA CallbackStep ==
    ASSUME IndInv, NEW p \in Poller, Callback(p)
    PROVE  IndInv'
<1> DEFINE n == Cardinality(InCallback)
<1>0. Good(tsx, n) /\ n \in Nat /\ Sound(tsx, n) /\ Core(tsx, n) /\ tsx.state \in Int
  <2>1. Good(tsx, n) /\ n \in Nat
    BY Counts DEF IndInv
  <2> QED BY <2>1, Fields DEF Good, Sound, Core, Null, Destroyed
<1> HIDE DEF n
<1>g. ASSUME thread[p].pc # "poll", NEW q \in Place \ {"poll"}, Goto(p, q),
             Good(tsx', n), Forward(tsx, tsx'), q \in Over => tsx'.state >= Terminated
      PROVE  IndInv'
  BY <1>g, Gone DEF n
<1>r. ASSUME thread[p].pc # "poll", NEW t, Good(t, n), Forward(tsx, t), Return(p, t)
      PROVE  IndInv'
  BY <1>r, Returned DEF n
<1>s. Forward(tsx, tsx)
  BY DEF Forward
<1>o. thread[p].pc \in Over => tsx.state >= Terminated
  BY DEF IndInv
<1>1. CASE CallbackBegin(p)
  <2> DEFINE isTimeout == thread[p].timer = "timeout"
             i == IF isTimeout THEN "INACTIVE" ELSE tsx.id
             u == [tsx EXCEPT !.id = i]
  <2>1. i \in Id
    BY <1>0, Fields DEF Core, Id
  <2>2. /\ thread[p].pc = "expired"
        /\ \/ Return(p, tsx) \/ Return(p, u)
           \/ tsx' = u /\ Goto(p, "dispatch")
           \/ tsx' = u /\ Goto(p, "transport_error")
    BY <1>1 DEF CallbackBegin
  <2> HIDE DEF i
  <2>3. Good(u, n) /\ u.state = tsx.state
    BY <1>0, <2>1, IdGood
  <2> HIDE DEF u
  <2>4. Forward(tsx, u)
    BY <2>3 DEF Forward
  <2>5. CASE Return(p, tsx)
    BY <1>0, <1>r, <1>s, <2>2, <2>5
  <2>6. CASE Return(p, u)
    BY <1>r, <2>2, <2>3, <2>4, <2>6
  <2>7. CASE tsx' = u /\ Goto(p, "dispatch")
    BY <1>g, <2>2, <2>3, <2>4, <2>7 DEF Over, Place
  <2>8. CASE tsx' = u /\ Goto(p, "transport_error")
    BY <1>g, <2>2, <2>3, <2>4, <2>8 DEF Over, Place
  <2> QED BY <2>2, <2>5, <2>6, <2>7, <2>8
<1>2. CASE TransportError(p)
  <2>1. Good(tsx', n) /\ tsx'.state = Terminated
    BY <1>0, <1>2, TransportErrorGood DEF TransportError
  <2>2. Forward(tsx, tsx') /\ tsx'.state >= Terminated
    BY <2>1 DEF Forward, Terminated
  <2> QED BY <1>2, <1>g, <2>1, <2>2 DEF TransportError, Place
<1>3. CASE DispatchTimeout(p)
  <2>1. /\ thread[p].pc # "poll"
        /\ \/ tsx' = TimedOut(tsx) /\ Goto(p, "tell_timeout")
           \/ tsx' = [tsx EXCEPT !.state = Destroyed] /\ Goto(p, "destroyed")
           \/ Return(p, tsx)
    BY <1>3 DEF DispatchTimeout
  <2>2. CASE tsx' = TimedOut(tsx) /\ Goto(p, "tell_timeout")
    <3>1. Good(tsx', n) /\ tsx'.state = Terminated
      BY <1>0, <2>2, TimedOutGood
    <3>2. Forward(tsx, tsx') /\ tsx'.state >= Terminated
      BY <3>1 DEF Forward, Terminated
    <3> QED BY <1>g, <2>1, <2>2, <3>1, <3>2 DEF Place
  <2>3. CASE tsx' = [tsx EXCEPT !.state = Destroyed] /\ Goto(p, "destroyed")
    <3>1. Good(tsx', n) /\ tsx'.state = Destroyed
      BY <1>0, <2>3, DestroyedStateGood
    <3>2. Forward(tsx, tsx') /\ tsx'.state >= Terminated
      BY <3>1 DEF Forward, Terminated, Destroyed
    <3> QED BY <1>g, <2>1, <2>3, <3>1, <3>2 DEF Place
  <2>4. CASE Return(p, tsx)
    BY <1>0, <1>r, <1>s, <2>1, <2>4
  <2> QED BY <2>1, <2>2, <2>3, <2>4
<1>4. CASE DispatchRetransmit(p)
  <2>1. /\ thread[p].pc # "poll"
        /\ \/ /\ tsx.state \in {Calling, Proceeding, Completed}
              /\ \E t \in tsx_retransmit(tsx, TRUE) : Return(p, t)
           \/ Return(p, SetDestroyed(tsx))
           \/ Return(p, tsx)
    <3>1. thread[p].pc # "poll"
      BY <1>4 DEF DispatchRetransmit
    <3>2. CASE tsx.state \in {Calling, Proceeding} \/ (tsx.state = Completed /\ UAS(tsx))
      <4>1. tsx.state \in {Calling, Proceeding, Completed}
        BY <3>2
      <4> QED BY <1>4, <3>1, <3>2, <4>1, Zenon DEF DispatchRetransmit
    <3>3. CASE ~ (tsx.state \in {Calling, Proceeding}
                  \/ (tsx.state = Completed /\ UAS(tsx)))
      BY <1>4, <3>1, <3>3, Zenon DEF DispatchRetransmit
    <3> QED BY <3>2, <3>3
  <2>2. CASE /\ tsx.state \in {Calling, Proceeding, Completed}
             /\ \E t \in tsx_retransmit(tsx, TRUE) : Return(p, t)
    <3>1. PICK t \in tsx_retransmit(tsx, TRUE) : Return(p, t)
      BY <2>2
    <3>2. tsx.state < Terminated /\ tsx.state # Confirmed /\ ~ (tsx.state >= Terminated)
      BY <2>2 DEF Calling, Proceeding, Completed, Confirmed, Terminated
    <3>5. tsx.last_tx
      <4>1. tsx.state = Calling \/ tsx.state >= Proceeding
        BY <2>2 DEF Calling, Proceeding, Completed
      <4> QED BY <1>0, <3>2, <4>1 DEF Good, HasMessage
    <3>3. Sound(t, n) /\ Kept(tsx, t)
      BY <1>0, <3>2, <3>5, RetransmitSound
    <3>4. Good(t, n) /\ Forward(tsx, t)
      BY <1>0, <3>2, <3>3, KeptGood DEF Forward
    <3> QED BY <1>r, <2>1, <3>1, <3>4
  <2>3. CASE Return(p, SetDestroyed(tsx))
    <3> DEFINE u == SetDestroyed(tsx)
    <3>1. Good(u, n) /\ u.state = Destroyed
      BY <1>0, SetDestroyedGood
    <3>2. Forward(tsx, u)
      BY <3>1 DEF Forward, Terminated, Destroyed
    <3> HIDE DEF u
    <3> QED BY <1>r, <2>1, <2>3, <3>1, <3>2 DEF u
  <2>4. CASE Return(p, tsx)
    BY <1>0, <1>r, <1>s, <2>1, <2>4
  <2> QED BY <2>1, <2>2, <2>3, <2>4
<1>5. CASE TellUser(p)
  <2> DEFINE b == \/ tsx.told \/ ~ tsx.pending_destroy
                  \/ thread[p].pc = "tell_timeout"
  <2>0. b \in BOOLEAN /\ tsx' = [tsx EXCEPT !.told = b]
    BY <1>5 DEF TellUser
  <2> HIDE DEF b
  <2>1. Good(tsx', n) /\ tsx'.state = tsx.state
    BY <1>0, <2>0, ToldGood
  <2>2. /\ thread[p].pc # "poll" /\ tsx.state >= Terminated
        /\ Goto(p, "terminated") \/ Goto(p, "error_told")
    BY <1>5, <1>o DEF TellUser, Over
  <2>3. Forward(tsx, tsx') /\ tsx'.state >= Terminated
    BY <2>1, <2>2 DEF Forward
  <2> QED BY <1>g, <2>1, <2>2, <2>3 DEF Place
<1>6. CASE FinishTerminated(p)
  <2> DEFINE u == AfterTerminated(tsx)
  <2>1. thread[p].pc = "terminated" /\ Return(p, u) /\ tsx.state >= Terminated
    BY <1>6, <1>o DEF FinishTerminated, Over
  <2>2. Good(u, n) /\ u.state = tsx.state
    BY <1>0, <2>1, AfterTerminatedGood
  <2> HIDE DEF u
  <2> QED BY <1>r, <2>1, <2>2 DEF Forward
<1>7. CASE FinishDestroyed(p)
  <2> DEFINE u == AfterDestroyed(tsx)
  <2>1. thread[p].pc = "destroyed" /\ Return(p, u) /\ tsx.state >= Terminated
    BY <1>7, <1>o DEF FinishDestroyed, Over
  <2>2. Good(u, n) /\ u.state = tsx.state
    BY <1>0, <2>1, AfterDestroyedGood
  <2> HIDE DEF u
  <2> QED BY <1>r, <2>1, <2>2 DEF Forward
<1>8. CASE FinishError(p)
  <2> DEFINE u == tsx_schedule_timer(tsx, "timeout", "TIMEOUT")
  <2>1. thread[p].pc = "error_told" /\ Return(p, u)
    BY <1>8 DEF FinishError
  <2>2. Sound(u, n) /\ Same(tsx, u)
    BY <1>0, ScheduleSound DEF Timer
  <2> HIDE DEF u
  <2>3. Good(u, n) /\ Forward(tsx, u)
    BY <1>0, <2>2, SameGood DEF Forward, Same
  <2> QED BY <1>r, <2>1, <2>3
<1> QED BY <1>1, <1>2, <1>3, <1>4, <1>5, <1>6, <1>7, <1>8 DEF Callback

(* The invariant is inductive.                                              *)
LEMMA Inductive == IndInv /\ [Next]_vars => IndInv'
<1> SUFFICES ASSUME IndInv, [Next]_vars PROVE IndInv'
  OBVIOUS
<1>1. CASE UNCHANGED vars
  <2>1. Good(tsx', Cardinality(InCallback)) /\ Forward(tsx, tsx') /\ UNCHANGED thread
    BY <1>1 DEF vars, IndInv, Forward
  <2> QED BY <2>1, Quiet
<1>2. CASE Next
  BY <1>2, UserStep, NetworkStep, TransportStep, CallbackStep, ExpireStep DEF Next
<1> QED BY <1>1, <1>2

-----------------------------------------------------------------------------
(* The properties.                                                          *)

LEMMA Invariance == Spec => []IndInv
BY InitGood, Inductive, PTL DEF Spec

LEMMA TakeOne ==
    ASSUME NEW S, IsFiniteSet(S), NEW a
    PROVE  /\ IsFiniteSet(S \ {a})
           /\ Cardinality(S) = Cardinality(S \ {a}) + Bit(a \in S)
<1>1. IsFiniteSet(S \ {a}) /\ Cardinality(S \ {a}) \in Nat /\ Cardinality(S) \in Nat
  BY FS_RemoveElement, FS_CardinalityType
<1>2. CASE a \in S
  BY <1>1, <1>2, FS_RemoveElement DEF Bit
<1>3. CASE a \notin S
  <2>1. S \ {a} = S
    BY <1>3
  <2> QED BY <1>1, <1>3, <2>1 DEF Bit
<1> QED BY <1>2, <1>3

LEMMA TimersCount ==
    ASSUME NEW r \in [Timer -> BOOLEAN]
    PROVE  Cardinality({x \in Timer : r[x]}) = Bit(r["retransmit"]) + Bit(r["timeout"])
<1> DEFINE S == {x \in Timer : r[x]}
           T == S \ {"retransmit"}
<1>1. /\ "retransmit" \in S <=> r["retransmit"]
      /\ "timeout" \in T <=> r["timeout"]
      /\ T \ {"timeout"} = {} /\ S \subseteq {"retransmit", "timeout"}
  BY DEF Timer
<1> HIDE DEF S
<1>2. IsFiniteSet({"retransmit", "timeout"}) /\ IsFiniteSet(S)
  <2>1. IsFiniteSet({"timeout"})
    BY FS_Singleton
  <2>2. IsFiniteSet({"timeout"} \cup {"retransmit"})
    BY <2>1, FS_AddElement
  <2>3. {"timeout"} \cup {"retransmit"} = {"retransmit", "timeout"}
    OBVIOUS
  <2> QED BY <1>1, <2>2, <2>3, FS_Subset
<1>3. IsFiniteSet(T) /\ Cardinality(S) = Cardinality(T) + Bit("retransmit" \in S)
  BY <1>2, TakeOne
<1> HIDE DEF T
<1>4. Cardinality(T) = Cardinality(T \ {"timeout"}) + Bit("timeout" \in T)
  BY <1>3, TakeOne
<1>5. Cardinality(T \ {"timeout"}) = 0
  BY <1>1, FS_EmptySet
<1>6. Cardinality(S) = Bit(r["retransmit"]) + Bit(r["timeout"])
  BY <1>1, <1>3, <1>4, <1>5 DEF Bit
<1> QED BY <1>6 DEF S

LEMMA SendsCount ==
    ASSUME NEW S \in SUBSET Pieces
    PROVE  Cardinality(S) = Bit("resolve" \in S) + Bit("transport" \in S)
                            + Bit("failed" \in S)
<1> DEFINE T == S \ {"resolve"}
           U == T \ {"transport"}
<1>1. /\ "transport" \in T <=> "transport" \in S
      /\ "failed" \in U <=> "failed" \in S
      /\ U \ {"failed"} = {}
  BY DEF Pieces
<1>2. IsFiniteSet(S)
  <2>1. IsFiniteSet({"resolve"})
    BY FS_Singleton
  <2>2. IsFiniteSet({"resolve"} \cup {"transport"})
    BY <2>1, FS_AddElement
  <2>3. IsFiniteSet(({"resolve"} \cup {"transport"}) \cup {"failed"})
    BY <2>2, FS_AddElement
  <2>4. S \subseteq ({"resolve"} \cup {"transport"}) \cup {"failed"}
    BY DEF Pieces
  <2> QED BY <2>3, <2>4, FS_Subset
<1>3. IsFiniteSet(T) /\ Cardinality(S) = Cardinality(T) + Bit("resolve" \in S)
  BY <1>2, TakeOne
<1> HIDE DEF T
<1>4. IsFiniteSet(U) /\ Cardinality(T) = Cardinality(U) + Bit("transport" \in T)
  BY <1>3, TakeOne
<1> HIDE DEF U
<1>5. Cardinality(U) = Cardinality(U \ {"failed"}) + Bit("failed" \in U)
  BY <1>4, TakeOne
<1>6. Cardinality(U \ {"failed"}) = 0
  BY <1>1, FS_EmptySet
<1> QED BY <1>1, <1>3, <1>4, <1>5, <1>6 DEF Bit

LEMMA IndTypeOK == IndInv => TypeOK
<1> SUFFICES ASSUME IndInv PROVE TypeOK
  OBVIOUS
<1> DEFINE n == Cardinality(InCallback)
<1>1. tsx \in Tsx /\ tsx.refs = n + Held(tsx)
  BY DEF IndInv, Good, Sound, Core, Counted
<1>2. n \in Nat
  BY Counts
<1>3. Held(tsx) \in Nat
  BY DEF Held, Bit
<1>4. tsx.refs \in Nat
  BY <1>1, <1>2, <1>3
<1> QED BY <1>1, <1>4 DEF IndInv, TypeOK, Tsx

LEMMA IndRefsExact == IndInv => RefsExact
<1> SUFFICES ASSUME IndInv PROVE RefsExact
  OBVIOUS
<1> DEFINE n == Cardinality({p \in Poller : thread[p].pc # "poll"})
           a == Cardinality({x \in Timer : tsx.running[x]})
           b == Cardinality(tsx.sends)
<1>1. /\ tsx \in Tsx /\ tsx.refs = n + Held(tsx)
      /\ tsx.registered => ~ tsx.terminating
  BY DEF IndInv, Good, Sound, Core, Counted, InCallback
<1>2. n \in Nat
  BY Counts DEF InCallback
<1>3. a = Bit(tsx.running["retransmit"]) + Bit(tsx.running["timeout"])
  BY <1>1, Fields, TimersCount
<1>4. b = Bit("resolve" \in tsx.sends) + Bit("transport" \in tsx.sends)
          + Bit("failed" \in tsx.sends)
  BY <1>1, Fields, SendsCount
<1>5. tsx.terminating \in BOOLEAN
  BY <1>1, Fields
<1> HIDE DEF n, a, b
<1>6. tsx.refs = (IF tsx.terminating THEN 0 ELSE 1) + a + n + b
  BY <1>1, <1>2, <1>3, <1>4, <1>5 DEF Held, Bit
<1> QED BY <1>1, <1>6 DEF RefsExact, n, a, b

LEMMA IndCanSendAgain == IndInv => CanSendAgain
<1> SUFFICES ASSUME IndInv PROVE CanSendAgain
  OBVIOUS
<1>1. /\ tsx \in Tsx /\ OneSend(tsx) /\ Going(tsx) /\ HasMessage(tsx)
  BY DEF IndInv, Good, Sound, Core
<1>2. ASSUME tsx.state \in Proceeding..Confirmed PROVE tsx.last_tx
  BY <1>1, <1>2 DEF HasMessage, Proceeding, Confirmed, Terminated
<1>4. ASSUME tsx.pending_send, tsx.state < Terminated PROVE tsx.last_tx
  BY <1>1, <1>4 DEF HasMessage
<1>3. ASSUME tsx.state \in Calling..Confirmed, tsx.resolved, ~ tsx.pending
      PROVE  tsx.transport
  <2>1. tsx.state < Terminated
    BY <1>3 DEF Calling, Confirmed, Terminated
  <2> QED BY <1>1, <1>3, <2>1 DEF Going, OneSend
<1> QED BY <1>2, <1>3, <1>4 DEF CanSendAgain

LEMMA IndStopsRetransmitting == IndInv => StopsRetransmitting
BY DEF IndInv, Good, Sound, Going, StopsRetransmitting, Confirmed, Terminated

(* The fields of a transaction have their types, and its reference count    *)
(* never falls below zero: no callback, send or timer drops a reference     *)
(* that nobody held.                                                        *)
THEOREM TypeInvariance == Spec => []TypeOK
BY Invariance, IndTypeOK, PTL

(* With any number of threads that poll, the group lock of a transaction    *)
(* counts exactly those who may still touch it, and the table only holds    *)
(* transactions that were not shut down (tsx_shutdown(), the pj_grp_lock_   *)
(* add_ref() and dec_ref() of timers, send_msg_callback() and               *)
(* transport_callback()).                                                   *)
THEOREM ReferencesExact == Spec => []RefsExact
BY Invariance, IndRefsExact, PTL

(* Whatever the transports do, a transaction at rest has the message that   *)
(* tsx_retransmit() asserts and that a deferred send needs, and a transport *)
(* or a way to find one.  (Within pjsip_tsx_send_msg() of a response it has *)
(* no message for a while; see AnAssertionHolds.)                           *)
THEOREM MessageAndTransport == Spec => []CanSendAgain
BY Invariance, IndCanSendAgain, PTL

(* After the ACK (tsx_on_state_completed_uas()) the response is never       *)
(* retransmitted again, neither by a timer nor by a deferred one.           *)
THEOREM AckIsFinal == Spec => []StopsRetransmitting
BY Invariance, IndStopsRetransmitting, PTL
=============================================================================
