--------------------------- MODULE SipTransaction ---------------------------
(***************************************************************************)
(* One SIP transaction of PJSIP (pjsip/src/pjsip/sip_transaction.c), of    *)
(* either role, with its two timers, its transport and its reference       *)
(* count.                                                                  *)
(*                                                                         *)
(* Everything a thread does while it holds the group lock of the           *)
(* transaction is one step; the operators below that take a transaction    *)
(* `t` and return transactions are the functions called in such a step.    *)
(* What is done without the group lock is a step of its own: the begin of  *)
(* a timer callback, notifications of a timeout, the posting of transport  *)
(* errors and pjsip_tsx_set_timeout().                                     *)
(*                                                                         *)
(* The network may lose, repeat, delay and reorder messages: any message a *)
(* peer can send may arrive at any time, any number of times.  A timer may *)
(* expire at any time after it was scheduled.                              *)
(***************************************************************************)
EXTENDS Integers, FiniteSets

CONSTANTS
    Poller,     \* threads that poll the timer heap
    Kind,       \* the transactions looked at: role and method
    Outcome,    \* what sending can lead to: subset of {"sent", "pending", "error"}
    Disconnects \* whether a transport can be lost

ASSUME TransactionAssumption ==
    /\ IsFiniteSet(Poller)
    /\ Kind \subseteq [role : {"UAC", "UAS"}, invite : BOOLEAN]
    /\ Outcome \subseteq {"sent", "pending", "error"}
    /\ Disconnects \in BOOLEAN

VARIABLES
    tsx,        \* the transaction
    thread      \* thread[p]: the timer callback that poller p is in

vars == <<tsx, thread>>

(* pjsip_tsx_state_e, in the order the states are compared in.              *)
Null == 0
Calling == 1
Trying == 2
Proceeding == 3
Completed == 4
Confirmed == 5
Terminated == 6
Destroyed == 7

Timer == {"retransmit", "timeout"}

(* Statuses: 408 is PJSIP_SC_TSX_TIMEOUT, 503 PJSIP_SC_TSX_TRANSPORT_ERROR. *)
Response == {100, 180, 200, 300}

(* Where a poller is in a timer callback.                                   *)
Place == {"poll", "expired", "dispatch", "transport_error", "tell_timeout",
          "tell_error", "terminated", "destroyed", "error_told"}

Polling == [pc |-> "poll", timer |-> "timeout"]

(* tsx_create(), pjsip_tsx_create_uac2() and pjsip_tsx_create_uas2().  A    *)
(* UAS transaction answers over the transport that brought the request,     *)
(* unless that is unreliable and the request names another address.         *)
Init ==
    /\ \E k \in Kind, rel, tp \in BOOLEAN :
          /\ tp => k.role = "UAS"
          /\ k.role = "UAS" /\ rel => tp
          /\ tsx =
                [kind |-> k, state |-> Null, status |-> 0,
                 reliable |-> rel,           \* is_reliable
                 transport |-> tp,           \* transport # NULL
                 res_transport |-> tp,       \* res_addr.transport # NULL
                 resolved |-> FALSE,         \* TSX_HAS_RESOLVED_SERVER
                 pending |-> FALSE,          \* TSX_HAS_PENDING_TRANSPORT
                 pending_send |-> FALSE,     \* TSX_HAS_PENDING_SEND
                 pending_resched |-> FALSE,  \* TSX_HAS_PENDING_RESCHED
                 pending_destroy |-> FALSE,  \* TSX_HAS_PENDING_DESTROY
                 pending_tx |-> FALSE,       \* pending_tx # NULL
                 sends |-> {},               \* sends that will call back
                 last_tx |-> k.role = "UAC", \* last_tx # NULL
                 null_tx |-> FALSE,          \* tsx_send_msg() was called with NULL
                 running |-> [x \in Timer |-> FALSE],
                 id |-> "INACTIVE",          \* timeout_timer.id
                 registered |-> TRUE, terminating |-> FALSE,
                 told |-> FALSE,             \* the TU was told of the end
                 refs |-> 1]
    /\ thread = [p \in Poller |-> Polling]

UAC(t) == t.kind.role = "UAC"
UAS(t) == t.kind.role = "UAS"
Invite(t) == t.kind.invite
Reliable(t) == t.reliable

-----------------------------------------------------------------------------
(* Timers: the heap holds a reference for a scheduled timer, and a timer    *)
(* that is running is not scheduled again.                                  *)

tsx_schedule_timer(t, timer, id) ==
    IF t.running[timer] THEN t
    ELSE [t EXCEPT !.running[timer] = TRUE, !.refs = @ + 1,
                   !.id = IF timer = "timeout" THEN id ELSE @]

tsx_cancel_timer(t, timer) ==
    IF t.running[timer]
    THEN [t EXCEPT !.running[timer] = FALSE, !.refs = @ - 1,
                   !.id = IF timer = "timeout" THEN "INACTIVE" ELSE @]
    ELSE t

StartTimeout(t) ==
    tsx_schedule_timer(tsx_cancel_timer(t, "timeout"), "timeout", "TIMEOUT")

StartRetransmit(t) ==
    IF t.pending THEN [t EXCEPT !.pending_resched = TRUE]
    ELSE tsx_schedule_timer(t, "retransmit", "RETRANSMIT")

-----------------------------------------------------------------------------
(* tsx_set_state(), with the parts that follow the notification of the TU   *)
(* as operators of their own.                                               *)

tsx_shutdown(t) ==
    LET u == tsx_cancel_timer(tsx_cancel_timer(t, "timeout"), "retransmit")
    IN  [u EXCEPT !.transport = FALSE, !.last_tx = FALSE,
                  !.pending_send = FALSE, !.pending_resched = FALSE,
                  !.pending_destroy = @ \/ t.pending, !.terminating = TRUE,
                  !.refs = IF t.terminating THEN @ ELSE @ - 1]

Disassociated(t) == [t EXCEPT !.pending = FALSE,
                              !.pending_tx = IF t.pending THEN FALSE ELSE @]

\* Mutant: no timer ends a terminated transaction.
AfterTerminated_NoTimer(t) == tsx_cancel_timer(Disassociated(t), "timeout")

AfterTerminated(t) == StartTimeout(Disassociated(t))

AfterDestroyed(t) == tsx_shutdown([t EXCEPT !.registered = FALSE])

SetDestroyed(t) == AfterDestroyed([t EXCEPT !.state = Destroyed])

SetTerminated(t, code) ==
    AfterTerminated([t EXCEPT !.state = Terminated, !.status = code, !.told = TRUE])

-----------------------------------------------------------------------------
(* Sending.  The operators return the set of possible results, a result is  *)
(* a transaction and whether PJ_SUCCESS is returned.                        *)

Result(t, ok) == [t |-> t, ok |-> ok]

(* A transport accepts the message, or keeps it and calls back, or refuses  *)
(* it; a refusal after the server was resolved is final.                    *)
Refused(t) ==
    {Result(SetTerminated([t EXCEPT !.transport = FALSE, !.res_transport = FALSE],
                          503), FALSE)}

SendByTransport(t) ==
    {Result(t, TRUE) : o \in Outcome \cap {"sent"}} \cup
    {Result([t EXCEPT !.pending = TRUE, !.sends = @ \cup {"transport"},
                      !.refs = @ + 1], TRUE) : o \in Outcome \cap {"pending"}}

tsx_resched_retransmission(t) ==
    tsx_schedule_timer(t, "retransmit", "RETRANSMIT")

(* send_msg_callback() with sent > 0: a deferred message is sent now, over  *)
(* the transport just found, and deferred retransmission is started.  When  *)
(* there is no message the assertion of tsx_send_msg() fails.               *)
Deferred(t) ==
    LET u == [t EXCEPT !.pending_send = FALSE]
    IN  IF ~ t.pending_send THEN {u}
        ELSE IF ~ t.last_tx THEN {[u EXCEPT !.null_tx = TRUE]}
        ELSE {r.t : r \in SendByTransport(u) \cup
                          (IF "error" \in Outcome THEN Refused(u) ELSE {})}

Rescheduled(t) ==
    IF t.pending_resched /\ ~ t.pending
    THEN LET u == [t EXCEPT !.pending_resched = FALSE]
         IN  IF Reliable(t) THEN u ELSE tsx_resched_retransmission(u)
    ELSE t

\* Mutant: the transport of the send is not remembered.
Found_KeepsTransport(t, reliable) ==
    [t EXCEPT !.refs = @ - 1, !.sends = @ \ {"resolve"}, !.pending_tx = FALSE,
              !.pending = FALSE, !.resolved = TRUE]

(* The message went out over a transport that the transaction now uses.     *)
Found(t, reliable) ==
    [t EXCEPT !.refs = @ - 1, !.sends = @ \ {"resolve"}, !.pending_tx = FALSE,
              !.pending = FALSE, !.resolved = TRUE,
              !.transport = TRUE, !.reliable = reliable]

send_msg_callback_sent(t) ==
    IF t.pending_destroy THEN {SetDestroyed(Found(t, b)) : b \in BOOLEAN}
    ELSE UNION {{Rescheduled(d) : d \in Deferred(Found(t, b))} : b \in BOOLEAN}

(* send_msg_callback() with sent < 0 and no other server to try.            *)
send_msg_callback_failed(t) ==
    LET u == [t EXCEPT !.refs = @ - 1, !.sends = @ \ {"resolve"},
                       !.pending_tx = FALSE, !.pending = FALSE,
                       !.transport = FALSE, !.resolved = TRUE, !.status = 503]
    IN  IF t.state < Terminated THEN SetTerminated(u, 503)
        ELSE IF t.pending_destroy THEN SetDestroyed(u) ELSE u

(* The send functions refuse at once, without a callback, a request whose   *)
(* route names no destination and a response that res_addr.transport does   *)
(* not take; of these only the former drops the reference again.            *)
NotStarted(t) == [t EXCEPT !.pending = TRUE, !.refs = IF UAC(t) THEN @ ELSE @ + 1]

(* The destination is resolved first; the result may be known at once.      *)
SendByResolver(t) ==
    LET u == [t EXCEPT !.pending_tx = TRUE, !.pending = TRUE,
                       !.sends = @ \cup {"resolve"}, !.refs = @ + 1]
        direct == UAS(t) /\ t.res_transport
    IN  {Result(v, v.state # Terminated) :
            v \in UNION {send_msg_callback_sent(u) : o \in Outcome \cap {"sent"}}} \cup
        {Result(u, TRUE) : o \in Outcome \cap {"pending"}} \cup
        {Result(send_msg_callback_failed(u), FALSE) :
            o \in {x \in Outcome \cap {"error"} : ~ direct}} \cup
        {Result(NotStarted(t), FALSE) :
            o \in {x \in Outcome \cap {"error"} : direct \/ UAC(t)}}

tsx_send_msg(t) ==
    LET u == [t EXCEPT !.transport = FALSE,
                       !.res_transport = IF t.transport THEN FALSE ELSE @]
        rest == IF t.resolved THEN Refused(u) ELSE SendByResolver(u)
    IN  IF t.pending THEN {Result([t EXCEPT !.pending_send = TRUE], TRUE)}
        ELSE IF t.transport
        THEN SendByTransport(t) \cup (IF "error" \in Outcome THEN rest ELSE {})
        ELSE rest

tsx_retransmit(t, resched) ==
    IF resched /\ t.running["retransmit"] THEN {t}
    ELSE {r.t : r \in tsx_send_msg(
            IF ~ resched THEN t
            ELSE IF t.pending THEN [t EXCEPT !.pending_resched = TRUE]
            ELSE tsx_resched_retransmission(t))}

-----------------------------------------------------------------------------
(* Calls of the transaction user (TU).                                      *)

Alive == tsx.refs > 0

(* pjsip_tsx_send_msg() in state Null: tsx_on_state_null() of a UAC.        *)
Called(r) ==
    IF ~ r.ok THEN r.t
    ELSE LET u == StartTimeout(r.t)
             v == IF Reliable(u) THEN u ELSE StartRetransmit(u)
         IN  [v EXCEPT !.state = Calling]

SendRequest ==
    /\ Alive /\ UAC(tsx) /\ tsx.state = Null
    /\ tsx' \in {Called(r) : r \in tsx_send_msg(tsx)}
    /\ UNCHANGED thread

(* pjsip_tsx_send_msg() of a UAS: tsx_on_state_trying() and                 *)
(* tsx_on_state_proceeding_uas().  A provisional response above 100 to an   *)
(* INVITE is repeated until the next one, and a final one until the ACK.    *)
Answered(r, code) ==
    LET u == IF code = 100 \/ (code < 200 /\ ~ Invite(r.t)) THEN r.t
             ELSE tsx_cancel_timer(r.t, "retransmit")
        v == [u EXCEPT !.last_tx = TRUE]
        repeats == Invite(v) /\ (code \in {180, 200} \/ ~ Reliable(v)) /\ code > 100
        w == IF repeats THEN StartRetransmit(v) ELSE v
    IN  IF ~ r.ok THEN r.t
        ELSE IF code < 200 THEN [w EXCEPT !.state = Proceeding]
        ELSE [StartTimeout(w) EXCEPT !.state = Completed]

SendResponse(code) ==
    /\ Alive /\ UAS(tsx) /\ tsx.state \in {Trying, Proceeding}
    /\ LET u == [tsx EXCEPT !.status = code, !.last_tx = FALSE]
       IN  tsx' \in {Answered(r, code) : r \in tsx_send_msg(u)}
    /\ UNCHANGED thread

pjsip_tsx_terminate ==
    /\ Alive /\ tsx.state < Terminated
    /\ tsx' = SetTerminated(tsx, 503)
    /\ UNCHANGED thread

pjsip_tsx_stop_retransmit ==
    /\ Alive /\ UAC(tsx) /\ Invite(tsx) /\ tsx.state < Terminated
    /\ tsx' = tsx_cancel_timer(tsx, "retransmit")
    /\ UNCHANGED thread

(* Only mutex_b is held here, so that this interleaves with a callback that *)
(* has not yet acquired the group lock.                                     *)
pjsip_tsx_set_timeout ==
    /\ Alive /\ UAC(tsx) /\ Invite(tsx) /\ tsx.state \in Calling..Terminated
    /\ ~ (tsx.status >= 200 /\ tsx.id # "INACTIVE")
    /\ tsx' = StartTimeout(tsx)
    /\ UNCHANGED thread

pjsip_tsx_retransmit_no_state ==
    /\ Alive /\ tsx.last_tx /\ tsx.state \in Calling..Confirmed
    /\ tsx' \in {r.t : r \in tsx_send_msg(tsx)}
    /\ UNCHANGED thread

(* mod_tsx_layer_stop(), when the endpoint is destroyed, which is after the *)
(* threads that poll it have ended.                                         *)
LayerStops ==
    /\ tsx.registered /\ \A p \in Poller : thread[p].pc = "poll"
    /\ LET u == IF tsx.state < Terminated THEN SetTerminated(tsx, 503) ELSE tsx
       IN  tsx' = AfterDestroyed(u)
    /\ UNCHANGED thread

-----------------------------------------------------------------------------
(* Messages from the network.  mod_tsx_layer_on_rx_response() and           *)
(* _on_rx_request() find a transaction in the table only.                   *)

(* tsx_on_state_proceeding_uac().  The ACK to a failure is sent before the  *)
(* state changes, and nothing changes if it cannot be sent.                 *)
Rejected(t) ==
    LET u == tsx_cancel_timer(tsx_cancel_timer(t, "retransmit"), "timeout")
        done(v) == StartTimeout([v EXCEPT !.state = Completed])
    IN  IF Invite(u)
        THEN {IF r.ok THEN done(r.t) ELSE r.t : r \in tsx_send_msg(u)}
        ELSE {done(u)}

Accepted(t) ==
    LET u == tsx_cancel_timer(t, "timeout")
        v == tsx_schedule_timer(u, "timeout", "TIMEOUT")
    IN  IF Invite(t) THEN SetTerminated(u, 200)
        ELSE [tsx_cancel_timer(v, "retransmit") EXCEPT !.state = Completed]

ProceedingUac(t, code) ==
    LET u == [t EXCEPT !.status = code]
    IN  IF code < 200 THEN {[u EXCEPT !.state = Proceeding]}
        ELSE IF code < 300 THEN {Accepted(u)}
        ELSE Rejected(u)

(* tsx_on_state_calling(): the timers that the response makes superfluous.  *)
FirstResponse(t, code) ==
    LET u == tsx_cancel_timer(t, "retransmit")
        v == IF code >= 200
             THEN IF t.id # "INACTIVE" THEN tsx_cancel_timer(u, "timeout") ELSE u
             ELSE IF Invite(t) THEN tsx_cancel_timer(u, "timeout")
             ELSE IF Reliable(t) THEN u
             ELSE tsx_schedule_timer(u, "retransmit", "RETRANSMIT")
    IN  [v EXCEPT !.pending_resched = FALSE]

OnResponse(t, code) ==
    CASE t.state = Calling -> ProceedingUac(FirstResponse(t, code), code)
      [] t.state = Proceeding -> ProceedingUac(t, code)
      [] t.state = Completed /\ Invite(t) /\ code >= 200 -> tsx_retransmit(t, FALSE)
      [] OTHER -> {t}

RecvResponse(code) ==
    /\ tsx.registered /\ UAC(tsx) /\ tsx.state # Null
    /\ tsx' \in OnResponse(tsx, code)
    /\ UNCHANGED thread

(* The request that the UAS transaction was created for, and repetitions.   *)
OnRequest(t) ==
    CASE t.state = Null -> {[t EXCEPT !.state = Trying]}
      [] t.state = Proceeding -> {r.t : r \in tsx_send_msg(t)}
      [] t.state = Completed -> tsx_retransmit(t, FALSE)
      [] OTHER -> {t}

RecvRequest ==
    /\ tsx.registered /\ UAS(tsx)
    /\ tsx' \in OnRequest(tsx)
    /\ UNCHANGED thread

\* Mutant: the handler of the ACK is also that of the states that follow.
RecvAck_Repeated ==
    /\ tsx.registered /\ UAS(tsx) /\ Invite(tsx) /\ tsx.state >= Completed
    /\ LET u == [tsx_cancel_timer(tsx, "retransmit") EXCEPT !.pending_resched = FALSE]
       IN  tsx' = [StartTimeout(u) EXCEPT !.state = Confirmed]
    /\ UNCHANGED thread

\* Mutant: an ACK leaves the deferred retransmission.
RecvAck_KeepsDeferred ==
    /\ tsx.registered /\ UAS(tsx) /\ Invite(tsx) /\ tsx.state = Completed
    /\ LET u == tsx_cancel_timer(tsx, "retransmit")
       IN  tsx' = [StartTimeout(u) EXCEPT !.state = Confirmed]
    /\ UNCHANGED thread

RecvAck ==
    /\ tsx.registered /\ UAS(tsx) /\ Invite(tsx) /\ tsx.state = Completed
    /\ LET u == [tsx_cancel_timer(tsx, "retransmit") EXCEPT !.pending_resched = FALSE]
       IN  tsx' = [StartTimeout(u) EXCEPT !.state = Confirmed]
    /\ UNCHANGED thread

-----------------------------------------------------------------------------
(* Transports.                                                              *)

\* Mutant: the callback of a late send does not drop its reference.
SendDone_KeepsRef ==
    /\ "resolve" \in tsx.sends
    /\ tsx' \in IF ~ tsx.pending_tx THEN {[tsx EXCEPT !.sends = @ \ {"resolve"}]}
                ELSE send_msg_callback_sent(tsx)
    /\ UNCHANGED thread

(* The resolver or the transport calls send_msg_callback(); a transaction   *)
(* that has detached itself only drops its reference.                       *)
SendDone ==
    /\ "resolve" \in tsx.sends
    /\ tsx' \in IF ~ tsx.pending_tx
                THEN {[tsx EXCEPT !.sends = @ \ {"resolve"}, !.refs = @ - 1]}
                ELSE send_msg_callback_sent(tsx)
    /\ UNCHANGED thread

SendFailed ==
    /\ "resolve" \in tsx.sends /\ tsx.pending_tx /\ "error" \in Outcome
    /\ tsx' = send_msg_callback_failed(tsx)
    /\ UNCHANGED thread

(* A request goes on to the next server, with the timeout started again if  *)
(* there was one; nothing else changes.                                     *)
SendRetry ==
    /\ "resolve" \in tsx.sends /\ tsx.pending_tx /\ "error" \in Outcome
    /\ UAC(tsx) /\ ~ tsx.pending_destroy
    /\ tsx.id # "INACTIVE"
    /\ tsx' = StartTimeout(tsx)
    /\ UNCHANGED thread

(* transport_callback() of a message sent, or lost.  The error is posted to *)
(* the timeout timer after the group lock was released.                     *)
TransportDone ==
    /\ "transport" \in tsx.sends
    /\ tsx' = [tsx EXCEPT !.pending = FALSE, !.sends = @ \ {"transport"},
                          !.refs = @ - 1]
    /\ UNCHANGED thread

TransportFailed ==
    /\ "transport" \in tsx.sends /\ "failed" \notin tsx.sends /\ "error" \in Outcome
    /\ tsx' = [tsx EXCEPT !.pending = FALSE,
                          !.sends = (@ \ {"transport"}) \cup {"failed"}]
    /\ UNCHANGED thread

PostError(t) ==
    IF t.state < Completed
    THEN tsx_schedule_timer(tsx_cancel_timer(t, "timeout"), "timeout", "TRANSPORT_ERR")
    ELSE t

TransportFailurePosted ==
    /\ "failed" \in tsx.sends
    /\ tsx' = [PostError(tsx) EXCEPT !.sends = @ \ {"failed"}, !.refs = @ - 1]
    /\ UNCHANGED thread

(* tsx_tp_state_callback(): the transport is disconnected.                  *)
TransportLost ==
    /\ Disconnects /\ Alive /\ tsx.transport
    /\ tsx' = PostError(tsx)
    /\ UNCHANGED thread

-----------------------------------------------------------------------------
(* Timer callbacks.  The heap removes the timer, and the reference it held  *)
(* is dropped by the poller when the callback is done.                      *)

Goto(p, pc) == thread' = [thread EXCEPT ![p].pc = pc]

Return(p, t) ==
    /\ tsx' = [t EXCEPT !.refs = @ - 1]
    /\ thread' = [thread EXCEPT ![p] = Polling]

Expire(p, timer) ==
    /\ thread[p].pc = "poll"
    /\ tsx.running[timer]
    /\ tsx' = [tsx EXCEPT !.running[timer] = FALSE]
    /\ thread' = [thread EXCEPT ![p] = [pc |-> "expired", timer |-> timer]]

(* The begin of tsx_timer_callback(), without the group lock.               *)
CallbackBegin(p) ==
    LET isTimeout == thread[p].timer = "timeout"
        u == [tsx EXCEPT !.id = IF isTimeout THEN "INACTIVE" ELSE @]
    IN  /\ thread[p].pc = "expired"
        /\ IF tsx.state = Destroyed THEN Return(p, tsx)
           ELSE IF ~ (isTimeout /\ tsx.id = "TRANSPORT_ERR")
           THEN tsx' = u /\ Goto(p, "dispatch")
           ELSE IF tsx.state < Terminated
           THEN tsx' = u /\ Goto(p, "transport_error")
           ELSE Return(p, u)

\* Mutant: the user is not told of a transport error.
TransportError_Silent(p) ==
    /\ thread[p].pc = "transport_error"
    /\ LET u == [tsx EXCEPT !.transport = FALSE, !.state = Terminated,
                            !.status = IF @ < 200 THEN 503 ELSE @]
       IN  tsx' = tsx_cancel_timer(Disassociated(u), "timeout")
    /\ Goto(p, "error_told")

(* A posted transport error ends the transaction.                           *)
TransportError(p) ==
    /\ thread[p].pc = "transport_error"
    /\ LET u == [tsx EXCEPT !.transport = FALSE, !.state = Terminated,
                            !.status = IF @ < 200 THEN 503 ELSE @]
       IN  tsx' = tsx_cancel_timer(Disassociated(u), "timeout")
    /\ Goto(p, "tell_error")

(* The handlers of the timeout timer that end the transaction.  The group   *)
(* lock is released while the TU is told.                                   *)
TimedOut(t) ==
    LET u == IF t.state # Calling THEN t
             ELSE [tsx_cancel_timer(t, "retransmit") EXCEPT !.pending_resched = FALSE]
        silent == t.state = Confirmed \/ (t.state = Completed /\ ~ (UAS(t) /\ Invite(t)))
    IN  [u EXCEPT !.state = Terminated, !.status = IF silent THEN @ ELSE 408]

DispatchTimeout(p) ==
    /\ thread[p] = [pc |-> "dispatch", timer |-> "timeout"]
    /\ IF tsx.state \in {Calling, Proceeding, Completed, Confirmed}
       THEN tsx' = TimedOut(tsx) /\ Goto(p, "tell_timeout")
       ELSE IF tsx.state = Terminated
       THEN tsx' = [tsx EXCEPT !.state = Destroyed] /\ Goto(p, "destroyed")
       ELSE Return(p, tsx)

(* tsx_on_state_terminated() takes any timer for the one that destroys.     *)
DispatchRetransmit(p) ==
    /\ thread[p] = [pc |-> "dispatch", timer |-> "retransmit"]
    /\ IF tsx.state \in {Calling, Proceeding} \/ (tsx.state = Completed /\ UAS(tsx))
       THEN \E t \in tsx_retransmit(tsx, TRUE) : Return(p, t)
       ELSE IF tsx.state = Terminated THEN Return(p, SetDestroyed(tsx))
       ELSE Return(p, tsx)

(* A transaction shut down with a send on its way has no user any more:     *)
(* tsx_set_state() has looked before it released the lock, the callback of  *)
(* a transport error looks now.                                             *)
TellUser(p) ==
    /\ thread[p].pc \in {"tell_timeout", "tell_error"}
    /\ tsx' = [tsx EXCEPT !.told = \/ @ \/ ~ tsx.pending_destroy
                                  \/ thread[p].pc = "tell_timeout"]
    /\ Goto(p, IF thread[p].pc = "tell_timeout" THEN "terminated" ELSE "error_told")

FinishTerminated(p) ==
    /\ thread[p].pc = "terminated"
    /\ Return(p, AfterTerminated(tsx))

FinishDestroyed(p) ==
    /\ thread[p].pc = "destroyed"
    /\ Return(p, AfterDestroyed(tsx))

FinishError(p) ==
    /\ thread[p].pc = "error_told"
    /\ Return(p, tsx_schedule_timer(tsx, "timeout", "TIMEOUT"))

Callback(p) ==
    \/ CallbackBegin(p) \/ TransportError(p) \/ DispatchTimeout(p)
    \/ DispatchRetransmit(p) \/ TellUser(p) \/ FinishTerminated(p)
    \/ FinishDestroyed(p) \/ FinishError(p)

SendCallback ==
    \/ SendDone \/ SendFailed \/ TransportDone \/ TransportFailed
    \/ TransportFailurePosted

Next ==
    \/ SendRequest \/ pjsip_tsx_terminate \/ pjsip_tsx_stop_retransmit
    \/ pjsip_tsx_set_timeout \/ pjsip_tsx_retransmit_no_state \/ LayerStops
    \/ \E code \in Response : SendResponse(code) \/ RecvResponse(code)
    \/ RecvRequest \/ RecvAck
    \/ SendCallback \/ SendRetry \/ TransportLost
    \/ \E p \in Poller : Callback(p) \/ \E x \in Timer : Expire(p, x)

(* Callbacks end, sends are completed, and a timer that stays scheduled     *)
(* expires: the heap hands out timers in the order of their deadlines, so   *)
(* that the timeout is not overtaken for ever by the other timer.           *)
Fairness ==
    /\ \A p \in Poller : WF_vars(Callback(p))
    /\ WF_vars(SendCallback)
    /\ \A x \in Timer : SF_vars(\E p \in Poller : Expire(p, x))

Spec == Init /\ [][Next]_vars /\ Fairness

-----------------------------------------------------------------------------
(* Properties.                                                              *)

\* The fields of the transaction and the places of the callbacks; refs never
\* falls below zero.
TypeOK ==
    /\ tsx \in [kind : Kind, state : Null..Destroyed,
                status : Response \cup {0, 408, 503},
                reliable : BOOLEAN, transport : BOOLEAN, res_transport : BOOLEAN,
                resolved : BOOLEAN, pending : BOOLEAN,
                pending_send : BOOLEAN, pending_resched : BOOLEAN,
                pending_destroy : BOOLEAN, pending_tx : BOOLEAN,
                sends : SUBSET {"resolve", "transport", "failed"},
                last_tx : BOOLEAN, null_tx : BOOLEAN, running : [Timer -> BOOLEAN],
                id : {"INACTIVE", "TIMEOUT", "TRANSPORT_ERR"},
                registered : BOOLEAN, terminating : BOOLEAN, told : BOOLEAN,
                refs : Nat]
    /\ thread \in [Poller -> [pc : Place, timer : Timer]]

\* The reference count is the number of those who may still touch the
\* transaction: the transaction itself until tsx_shutdown(), its scheduled
\* timers, callbacks on their way and sends that will call back.  The table of
\* transactions holds no reference: what is in it has not been shut down.
RefsExact ==
    /\ tsx.refs = (IF tsx.terminating THEN 0 ELSE 1)
                  + Cardinality({x \in Timer : tsx.running[x]})
                  + Cardinality({p \in Poller : thread[p].pc # "poll"})
                  + Cardinality(tsx.sends)
    /\ tsx.registered => ~ tsx.terminating

\* Whatever happens to transports, a transaction in which no call is being
\* handled can send again: tsx_retransmit(), and a deferred send that a late
\* completion starts, find the last message they assert, and unless a send is
\* on its way or the server was never resolved there is a transport.
CanSendAgain ==
    /\ tsx.state \in Proceeding..Confirmed => tsx.last_tx
    /\ tsx.pending_send /\ tsx.state < Terminated => tsx.last_tx
    /\ tsx.state \in Calling..Confirmed /\ tsx.resolved /\ ~ tsx.pending
          => tsx.transport

\* The ACK ends the retransmission of the response for good: neither a timer
\* that is late nor a send that was on its way before the ACK, and starts what
\* was deferred when it completes, restarts it.
StopsRetransmitting ==
    tsx.state = Confirmed
        => ~ tsx.running["retransmit"] /\ ~ tsx.pending_resched

\* No transaction is freed without its user being told: not even when timers,
\* transport errors and the user itself terminate it at the same time.
ToldBeforeFreed == tsx.refs = 0 => tsx.told

\* A transaction never goes back to an earlier state, and one that has ended is
\* never revived: not by a response whose sending failed and ended it, nor by a
\* late timer, message or completion.  The one way back is from DESTROYED to
\* TERMINATED, and even that is destroyed again (EventuallyReleased).
EndIsFinal ==
    [][tsx'.state >= IF tsx.state = Destroyed THEN Terminated ELSE tsx.state]_vars

\* Every transaction that has its final answer, and every client transaction
\* other than INVITE, is released in the end: no lost timer keeps it for ever.
MustEnd ==
    \/ tsx.state >= Completed
    \/ UAC(tsx) /\ ~ Invite(tsx) /\ tsx.state >= Calling
EventuallyReleased == MustEnd ~> tsx.refs = 0

-----------------------------------------------------------------------------
(* What the assertions of the source say and the code does not guarantee.   *)

\* PJ_ASSERT_RETURN(tsx && tdata, PJ_EINVAL) of tsx_send_msg(): it is called
\* with a message.
SendsAMessage == ~ tsx.null_tx

\* "New state must be greater than previous state": tsx_set_state() asserts
\* that the state only moves on.
StateForward == tsx'.state >= tsx.state

\* Of these two assertions at least one holds at every step.  A behaviour that
\* violates this contradicts both of them.
AnAssertionHolds == [][SendsAMessage \/ StateForward]_vars
=============================================================================
