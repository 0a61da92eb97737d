--------------------------- MODULE InviteSession ---------------------------
(***************************************************************************)
(* Two invite sessions of pjsip-ua/sip_inv.c, the ends of one confirmed    *)
(* call, that change its media with re-INVITE and UPDATE.  Each drives an  *)
(* SdpNegotiator; a handler runs with the dialog locked and is one action. *)
(*                                                                         *)
(* Messages are delivered in any order.  The transaction layer hides loss  *)
(* and duplicates, and a request without any answer ends the call, so that *)
(* every message of a call that goes on arrives.  A 2xx stands for all of  *)
(* them, every other final response is "fail".  Provisional responses with *)
(* a description, PRACK, authentication, CANCEL and BYE are left out, and  *)
(* of the session timer all but the refresh by a re-INVITE.                *)
(*                                                                         *)
(* A request is created and sent by two calls.  Callers hold the lock when *)
(* they create one (pjsua, timer_cb), but may release it before they send  *)
(* it (timer_cb), and pjsip_inv_send_msg() releases it once more.          *)
(*                                                                         *)
(* The application waits for its own request and for the exchange to end   *)
(* before it begins another, and may try again what could not be sent.  In *)
(* the callbacks it may answer an offer with any of its descriptions,      *)
(* refuse it, or (re-INVITE) answer later; an offer in a 2xx it must       *)
(* answer.                                                                 *)
(***************************************************************************)
EXTENDS SdpNegotiator

CONSTANTS Side,      \* the two ends
          First,     \* the end that made the call
          Local,     \* Local[s]: the lists of media lines s may propose
          Capable,   \* Capable[s]: the lines s began the call with
          Ops,       \* what the applications do, of "INVITE", "offerless",
                     \* "UPDATE", "refuse", "defer", and "early": an UPDATE
                     \* between our 2xx to a re-INVITE and its ACK
          MaxCSeq    \* bound: requests of each side

ASSUME SessionAssumption ==
    /\ IsFiniteSet(Side) /\ Cardinality(Side) = 2 /\ First \in Side
    /\ \A s \in Side : Local[s] \subseteq Seq(MediaLine) /\ Capable[s] \in Local[s]
    /\ Ops \subseteq {"INVITE", "offerless", "UPDATE", "refuse", "defer", "early"}
    /\ MaxCSeq \in Nat

VARIABLES neg,          \* inv->neg
          pool_prov,    \* inv->pool_prov, pool 1 or 2; inv->pool_active is the other
          invite_tsx,   \* inv->invite_tsx: role, CSeq and, for a server, how far it is
          local_cseq,   \* dlg->local.cseq
          tdata,        \* the request s has created and not sent, or NULL
          net,          \* messages on the way
          stopped,      \* an assertion failed, which stops the program
          failed,       \* history: the last answer was not accepted by the offerer
          unsent        \* history: the ends whose offer is open but could not be sent

sending == << tdata, stopped, unsent >>
vars == << neg, pool_prov, invite_tsx, local_cseq, net, failed, sending >>

Peer(s) == CHOOSE t \in Side : t # s

Message(type, method, from, cseq, sdp) ==
    [type |-> type, method |-> method, from |-> from, cseq |-> cseq, sdp |-> sdp]

\* A description as it travels: the pool stays behind.
Body(sdp) == IF sdp = NULL THEN NULL ELSE sdp.media

Tsx(role, cseq, state) == [role |-> role, cseq |-> cseq, state |-> state]

Tdata(method, sdp, checked) == [method |-> method, sdp |-> sdp, checked |-> checked]

\* NULL is no description and no transaction.
ASSUME NullAssumption ==
    /\ NULL \notin Seq(MediaLine)
    /\ NULL \notin [media : Seq(MediaLine), pool : 0..Freed]
    /\ NULL \notin [role : {"UAC", "UAS"}, cseq : Nat,
                    state : {"calling", "trying", "accepted", "completed"}]
-----------------------------------------------------------------------------
(* The call is set up: the first offer in the INVITE, the answer in its 2xx *)

\* pjsip_inv_create_uac() and pjsip_inv_create_uas() allocate from inv->pool,
\* which lives as long as the session.  The callee gives its description when the
\* session is created (initial), or with the answer.
FirstOffer == Capable[First]
FirstAnswer == Capable[Peer(First)]
NegotiatedIn(pool, n) == negotiate(n, Outcome(n, pool))
Callee(initial) ==
    LET n == create_w_remote_offer(0, initial, FirstOffer)
    IN  NegotiatedIn(1, IF initial = NULL THEN set_local_answer(n, 1, FirstAnswer) ELSE n)
Caller(callee) ==
    NegotiatedIn(1, set_remote_answer(create_w_local_offer(0, FirstOffer), 1,
                                      Body(callee.active_local_sdp)))

\* The call was set up: the first exchange succeeded on both ends.
ASSUME ConfirmedAssumption ==
    \A initial \in {NULL, FirstAnswer} :
        /\ Callee(initial).active_local_sdp # NULL
        /\ Caller(Callee(initial)).active_local_sdp # NULL

Init ==
    /\ \E initial \in {NULL, FirstAnswer} :
          neg = [s \in Side |-> IF s = First THEN Caller(Callee(initial))
                               ELSE Callee(initial)]
    /\ pool_prov = [s \in Side |-> 2]
    /\ invite_tsx = [s \in Side |-> NULL]
    /\ local_cseq = [s \in Side |-> 0]
    /\ tdata = [s \in Side |-> NULL]
    /\ net = {}
    /\ stopped = FALSE
    /\ failed = FALSE
    /\ unsent = {}
-----------------------------------------------------------------------------
(* Steps shared by the handlers.  They describe the new negotiator of s.   *)

prov(s) == pool_prov[s]

SetNeg(s, n) == neg' = [neg EXCEPT ![s] = n]

\* Mutant: the pools are swapped after a failure, too.
inv_negotiate_sdp_AlwaysSwaps(s, n) ==
    LET outcome == Outcome(n, prov(s))
    IN  [ok |-> outcome.ok, neg |-> AfterReset(negotiate(n, outcome), 3 - prov(s)),
         pool_prov |-> 3 - prov(s)]

\* inv_negotiate_sdp() on n: whether it succeeds, the negotiator afterwards and
\* the next provisional pool.  The pools are swapped after a success, and the
\* provisional one is reset in any case.
inv_negotiate_sdp(s, n) ==
    LET outcome == Outcome(n, prov(s))
        next    == IF outcome.ok THEN 3 - prov(s) ELSE prov(s)
    IN  [ok |-> outcome.ok, neg |-> AfterReset(negotiate(n, outcome), next),
         pool_prov |-> next]

Negotiated(s, r) ==
    /\ SetNeg(s, r.neg)
    /\ pool_prov' = [pool_prov EXCEPT ![s] = r.pool_prov]

\* The description an accepted offer is answered with.
AnswerOf(r) == IF r.ok THEN Body(r.neg.active_local_sdp) ELSE NULL

\* The offerer negotiates the answer in m ...
NegotiateAnswer(s, m) ==
    \E n \in {set_remote_answer(neg[s], prov(s), m.sdp)} :
        \E r \in {inv_negotiate_sdp(s, n)} : Negotiated(s, r) /\ failed' = ~r.ok

\* ... and the answerer, with its own description l, the offer n holds.
OurAnswers(s, n) ==
    {inv_negotiate_sdp(s, a) :
        a \in {set_local_answer(n, prov(s), l) : l \in Local[s]}}

\* The negotiator of s becomes n, which did not negotiate.
Keep(s, n) == SetNeg(s, n) /\ UNCHANGED << pool_prov, failed >>

CancelLocal(n) == IF n.state = "LOCAL_OFFER" THEN cancel_offer(n) ELSE n

\* The negotiator of s with a new offer of its own: one of the application, or the
\* active description again.
LocalOffers(s) ==
    {modify_local_offer(neg[s], prov(s), l) : l \in Local[s]}
        \union {send_local_offer(neg[s], prov(s))}

\* The negotiator of s with the offer in m.
Offered(s, m) == set_remote_offer(neg[s], prov(s), m.sdp)

Send(m) == net' = net \union {m}
Reply(m, type, sdp) ==
    net' = (net \ {m}) \union {Message(type, m.method, Peer(m.from), m.cseq, sdp)}
Receive(m) == net' = net \ {m}

FinalType(ok) == IF ok THEN "ok" ELSE "fail"
ServerState(ok) == IF ok THEN "accepted" ELSE "completed"

SetTsx(s, tsx) == invite_tsx' = [invite_tsx EXCEPT ![s] = tsx]
-----------------------------------------------------------------------------
(* Requests of the application and of the session timer                    *)

\* A request of s has no final response yet.
Pending(s) ==
    \/ invite_tsx[s] # NULL /\ invite_tsx[s].role = "UAC"
    \/ \E m \in net : m.type # "ACK" /\ (m.from = s <=> m.type = "request")

\* A caller waits for the end of its own request and of the exchange.
MayCall(s) ==
    /\ local_cseq[s] < MaxCSeq /\ ~Pending(s) /\ tdata[s] = NULL
    /\ invite_tsx[s] = NULL \/ "early" \in Ops

Create(s, method, sdp) ==
    /\ tdata' = [tdata EXCEPT ![s] = Tdata(method, Body(sdp), FALSE)]
    /\ unsent' = unsent \ {s}
    /\ UNCHANGED << invite_tsx, local_cseq, net, stopped >>

\* pjsip_inv_reinvite() with a new offer, or timer_cb().  An offer that could not be
\* sent is still open: the new one is ignored and the open one attached again.
Reinvite(s) ==
    /\ "INVITE" \in Ops /\ MayCall(s) /\ invite_tsx[s] = NULL
    /\ s \in unsent \/ neg[s].state = "DONE"
    /\ \E n \in IF s \in unsent THEN {neg[s]} ELSE LocalOffers(s) :
          Keep(s, n) /\ Create(s, "INVITE", n.neg_local_sdp)

\* pjsip_inv_reinvite() without an offer.
ReinviteOfferless(s) ==
    /\ "offerless" \in Ops /\ MayCall(s) /\ invite_tsx[s] = NULL
    /\ neg[s].state = "DONE"
    /\ Keep(s, neg[s]) /\ Create(s, "INVITE", NULL)

\* pjsip_inv_update(), which does not look at the re-INVITE of the peer.
Update(s) ==
    /\ "UPDATE" \in Ops /\ MayCall(s) /\ neg[s].state = "DONE"
    /\ \E l \in Local[s] : \E n \in {modify_local_offer(neg[s], prov(s), l)} :
          Keep(s, n) /\ Create(s, "UPDATE", n.neg_local_sdp)

\* pjsip_inv_send_msg() looks again whether a re-INVITE of the peer came ...
CheckRequest(s) ==
    /\ tdata[s] # NULL /\ tdata[s].method = "INVITE" /\ ~tdata[s].checked
    /\ invite_tsx[s] = NULL
    /\ tdata' = [tdata EXCEPT ![s] = Tdata(@.method, @.sdp, TRUE)]
    /\ UNCHANGED << neg, pool_prov, invite_tsx, local_cseq, net, failed, stopped, unsent >>

\* ... and drops the request if so; its offer is not cancelled.
RefuseRequest(s) ==
    /\ tdata[s] # NULL /\ tdata[s].method = "INVITE" /\ ~tdata[s].checked
    /\ invite_tsx[s] # NULL
    /\ unsent' = IF tdata[s].sdp = NULL THEN unsent ELSE unsent \union {s}
    /\ tdata' = [tdata EXCEPT ![s] = NULL]
    /\ UNCHANGED << neg, pool_prov, invite_tsx, local_cseq, net, failed, stopped >>

\* pjsip_dlg_send_request() takes the next CSeq and starts the transaction, ...
SendRequest(s) ==
    /\ local_cseq' = [local_cseq EXCEPT ![s] = @ + 1]
    /\ Send(Message("request", tdata[s].method, s, local_cseq[s] + 1, tdata[s].sdp))
    /\ tdata' = [tdata EXCEPT ![s] = NULL]
    /\ UNCHANGED << neg, pool_prov, failed, stopped, unsent >>

SendUpdate(s) ==
    /\ tdata[s] # NULL /\ tdata[s].method = "UPDATE"
    /\ SendRequest(s)
    /\ UNCHANGED invite_tsx

\* ... which inv_on_state_confirmed() records if it is a re-INVITE, ...
SendInvite(s) ==
    /\ tdata[s] # NULL /\ tdata[s].method = "INVITE" /\ tdata[s].checked
    /\ invite_tsx[s] = NULL
    /\ SendRequest(s)
    /\ SetTsx(s, Tsx("UAC", local_cseq[s] + 1, "calling"))

\* ... where it asserts that there is no other: the end of the program.
AssertFails(s) ==
    /\ tdata[s] # NULL /\ tdata[s].method = "INVITE" /\ tdata[s].checked
    /\ invite_tsx[s] # NULL
    /\ stopped' = TRUE
    /\ UNCHANGED << neg, pool_prov, invite_tsx, local_cseq, net, failed, tdata, unsent >>
-----------------------------------------------------------------------------
(* Requests from the peer                                                  *)

Incoming(s, type, method) ==
    {m \in net : m.from = Peer(s) /\ m.type = type /\ m.method = method}

\* A re-INVITE while another one is pending (491 or 500), or while an
\* offer/answer exchange is in progress (491; the transaction is recorded).
RejectInvite(s) ==
    \E m \in Incoming(s, "request", "INVITE") :
        /\ invite_tsx[s] # NULL \/ neg[s].state # "DONE"
        /\ IF invite_tsx[s] # NULL THEN UNCHANGED invite_tsx
           ELSE SetTsx(s, Tsx("UAS", m.cseq, "completed"))
        /\ Reply(m, "fail", NULL)
        /\ UNCHANGED << neg, pool_prov, local_cseq, failed >>

RecvInvite(s, m) ==
    /\ m \in Incoming(s, "request", "INVITE")
    /\ invite_tsx[s] = NULL /\ neg[s].state = "DONE"

\* A re-INVITE with an offer that the application answers in the callback; the
\* response is 200, or 500 if the negotiation fails.
AnswerInvite(s) ==
    \E m \in net :
        /\ RecvInvite(s, m) /\ m.sdp # NULL
        /\ \E r \in OurAnswers(s, Offered(s, m)) :
              /\ Negotiated(s, r)
              /\ Reply(m, FinalType(r.ok), AnswerOf(r))
              /\ SetTsx(s, Tsx("UAS", m.cseq, ServerState(r.ok)))
        /\ UNCHANGED << local_cseq, failed >>

\* ... that it does not answer: 488, and the offer is cancelled.
RefuseInvite(s) ==
    \E m \in net :
        /\ "refuse" \in Ops
        /\ RecvInvite(s, m) /\ m.sdp # NULL
        /\ Keep(s, cancel_offer(Offered(s, m)))
        /\ Reply(m, "fail", NULL)
        /\ SetTsx(s, Tsx("UAS", m.cseq, "completed"))
        /\ UNCHANGED local_cseq

\* ... that it keeps for later (on_rx_reinvite).
DeferInvite(s) ==
    \E m \in net :
        /\ "defer" \in Ops
        /\ RecvInvite(s, m) /\ m.sdp # NULL
        /\ Keep(s, Offered(s, m))
        /\ Receive(m)
        /\ SetTsx(s, Tsx("UAS", m.cseq, "trying"))
        /\ UNCHANGED local_cseq

\* A re-INVITE without an offer: the 200 carries an offer of the application, or
\* the active description if on_create_offer() returns none.
OfferInOk(s) ==
    \E m \in net :
        /\ RecvInvite(s, m) /\ m.sdp = NULL
        /\ \E n \in LocalOffers(s) :
              Keep(s, n) /\ Reply(m, "ok", Body(n.neg_local_sdp))
        /\ SetTsx(s, Tsx("UAS", m.cseq, "accepted"))
        /\ UNCHANGED local_cseq

\* pjsip_inv_answer() of a deferred re-INVITE.  The offer is answered with 200;
\* if the negotiation fails the caller gets an error and nothing is sent.
Respond(s, ok, sdp) ==
    /\ Send(Message(FinalType(ok), "INVITE", s, invite_tsx[s].cseq, sdp))
    /\ SetTsx(s, [invite_tsx[s] EXCEPT !.state = ServerState(ok)])

Deferred(s) == invite_tsx[s] # NULL /\ invite_tsx[s].state = "trying"

AnswerLater(s) ==
    /\ Deferred(s) /\ neg[s].state = "REMOTE_OFFER"
    /\ \E r \in OurAnswers(s, neg[s]) :
        /\ Negotiated(s, r)
        /\ IF r.ok THEN Respond(s, TRUE, AnswerOf(r)) ELSE UNCHANGED << invite_tsx, net >>
    /\ UNCHANGED << local_cseq, failed, sending >>

RejectLater(s) ==
    /\ Deferred(s)
    /\ Keep(s, IF neg[s].state = "REMOTE_OFFER" THEN cancel_offer(neg[s]) ELSE neg[s])
    /\ Respond(s, FALSE, NULL)
    /\ UNCHANGED << local_cseq, sending >>

\* inv_respond_incoming_update(): 491 or 500 during another exchange ...
RejectUpdate(s) ==
    \E m \in Incoming(s, "request", "UPDATE") :
        /\ neg[s].state # "DONE"
        /\ Reply(m, "fail", NULL)
        /\ UNCHANGED << neg, pool_prov, invite_tsx, local_cseq, failed >>

\* ... otherwise 200 with the answer, or 488.
AnswerUpdate(s) ==
    \E m \in Incoming(s, "request", "UPDATE") :
        /\ neg[s].state = "DONE"
        /\ \E r \in OurAnswers(s, Offered(s, m)) :
              Negotiated(s, r) /\ Reply(m, FinalType(r.ok), AnswerOf(r))
        /\ UNCHANGED << invite_tsx, local_cseq, failed >>

RefuseUpdate(s) ==
    \E m \in Incoming(s, "request", "UPDATE") :
        /\ "refuse" \in Ops
        /\ neg[s].state = "DONE"
        /\ Keep(s, cancel_offer(Offered(s, m)))
        /\ Reply(m, "fail", NULL)
        /\ UNCHANGED << invite_tsx, local_cseq >>
-----------------------------------------------------------------------------
(* Responses and ACK                                                       *)

\* Every final response to an INVITE is acknowledged and ends its transaction.
Acknowledge(s, m, sdp) ==
    /\ SetTsx(s, NULL)
    /\ Reply(m, "ACK", sdp)
    /\ UNCHANGED local_cseq

\* 2xx with the answer to our offer.
InviteAnswered(s) ==
    \E m \in Incoming(s, "ok", "INVITE") :
        /\ m.sdp # NULL /\ neg[s].state = "LOCAL_OFFER"
        /\ NegotiateAnswer(s, m)
        /\ Acknowledge(s, m, NULL)

\* 2xx with an offer: the application answers it, and the ACK carries the result
\* if the negotiation succeeds.
AnswerInAck(s) ==
    \E m \in Incoming(s, "ok", "INVITE") :
        /\ m.sdp # NULL /\ neg[s].state = "DONE"
        /\ \E r \in OurAnswers(s, Offered(s, m)) :
              Negotiated(s, r) /\ Acknowledge(s, m, AnswerOf(r))
        /\ UNCHANGED failed

InviteFailed(s) ==
    \E m \in Incoming(s, "fail", "INVITE") :
        /\ Keep(s, CancelLocal(neg[s]))
        /\ Acknowledge(s, m, NULL)

\* inv_handle_update_response()
UpdateAnswered(s) ==
    \E m \in Incoming(s, "ok", "UPDATE") :
        /\ IF neg[s].state = "LOCAL_OFFER" THEN NegotiateAnswer(s, m)
           ELSE Keep(s, neg[s])
        /\ Receive(m)
        /\ UNCHANGED << invite_tsx, local_cseq >>

\* Mutant: the offer of a failed UPDATE is not cancelled.
UpdateFailed_KeepsOffer(s) ==
    \E m \in Incoming(s, "fail", "UPDATE") :
        /\ Keep(s, neg[s])
        /\ Receive(m)
        /\ UNCHANGED << invite_tsx, local_cseq >>

UpdateFailed(s) ==
    \E m \in Incoming(s, "fail", "UPDATE") :
        /\ Keep(s, CancelLocal(neg[s]))
        /\ Receive(m)
        /\ UNCHANGED << invite_tsx, local_cseq >>

\* The ACK of our response to a re-INVITE: it ends the transaction.  With a 2xx
\* its description is the answer to our offer; an offer without answer is
\* cancelled.  The ACK of a transaction that was not recorded is ignored.
Acked(s, m) ==
    invite_tsx[s] # NULL /\ invite_tsx[s].role = "UAS" /\ invite_tsx[s].cseq = m.cseq

RecvAck(s) ==
    \E m \in Incoming(s, "ACK", "INVITE") :
        /\ IF Acked(s, m) /\ invite_tsx[s].state = "accepted"
              /\ neg[s].state = "LOCAL_OFFER" /\ m.sdp # NULL
           THEN NegotiateAnswer(s, m)
           ELSE Keep(s, IF Acked(s, m) /\ invite_tsx[s].state = "accepted"
                        THEN CancelLocal(neg[s]) ELSE neg[s])
        /\ IF Acked(s, m) THEN SetTsx(s, NULL) ELSE UNCHANGED invite_tsx
        /\ Receive(m)
        /\ UNCHANGED local_cseq
-----------------------------------------------------------------------------
Request(s) == Reinvite(s) \/ ReinviteOfferless(s) \/ Update(s)

Dispatch(s) ==
    \/ CheckRequest(s) \/ RefuseRequest(s)
    \/ SendUpdate(s) \/ SendInvite(s) \/ AssertFails(s)

Handler(s) ==
    \/ RejectInvite(s) \/ AnswerInvite(s) \/ RefuseInvite(s)
    \/ DeferInvite(s) \/ OfferInOk(s)
    \/ RejectUpdate(s) \/ AnswerUpdate(s) \/ RefuseUpdate(s)
    \/ InviteAnswered(s) \/ AnswerInAck(s) \/ InviteFailed(s)
    \/ UpdateAnswered(s) \/ UpdateFailed(s) \/ RecvAck(s)

\* No handler touches a request that is being sent.
Handle(s) == UNCHANGED sending /\ Handler(s)

AnswerDeferred(s) == AnswerLater(s) \/ RejectLater(s)

Next ==
    /\ ~stopped
    /\ \E s \in Side : Request(s) \/ Dispatch(s) \/ Handle(s) \/ AnswerDeferred(s)

\* Every message arrives and is handled, who has created a request sends it, and an
\* application that deferred its answer gives one in the end.  Handle(s) is enabled
\* iff a message waits for s, so the first conjunct is WF_vars(~stopped /\ Handle(s)).
Waiting(s) == ~stopped /\ \E m \in net : m.from # s
Fairness ==
    \A s \in Side : /\ ([]<>~Waiting(s) \/ []<><<Handle(s)>>_vars)
                   /\ WF_vars(~stopped /\ Dispatch(s))
                   /\ WF_vars(~stopped /\ RejectLater(s))

Spec == Init /\ [][Next]_vars /\ Fairness
-----------------------------------------------------------------------------
(* Properties                                                              *)

\* The field of a negotiator that the code may still read is never in a pool that
\* was reset: the two pools of a session are swapped by a success only, so that
\* the active pair survives the exchanges that fail.
Description == {"initial_sdp", "initial_sdp_tmp", "active_local_sdp",
                "active_remote_sdp", "neg_local_sdp", "neg_remote_sdp"}
FieldsAlive ==
    \A s \in Side, f \in Description : neg[s][f] # NULL => neg[s][f].pool # Freed

Opposite(dir) ==
    CASE dir = "sendonly" -> "recvonly" [] dir = "recvonly" -> "sendonly" [] OTHER -> dir

Mirrors(a, b) ==
    /\ a.type = b.type /\ a.port = b.port
    /\ a.port => ToSet(a.fmt) = ToSet(b.fmt) /\ a.dir = Opposite(b.dir)

\* When all messages have arrived and no request is open, both ends use the same
\* media with the same codecs, and one sends what the other receives, unless the
\* offerer could not use the last answer.
Quiet == net = {} /\ \A s \in Side : neg[s].state = "DONE" /\ invite_tsx[s] = NULL
Agreement ==
    Quiet /\ ~failed =>
        \A s, t \in Side : s # t =>
            LET a == neg[s].active_local_sdp.media
                b == neg[t].active_local_sdp.media
            IN  Len(a) = Len(b) /\ \A i \in DOMAIN a : Mirrors(a[i], b[i])

\* Every exchange ends: a rejected, crossed or unanswered offer does not leave a
\* negotiator that refuses all later offers, except where pjsip_inv_send_msg() drops
\* the re-INVITE that carries the offer, until the caller tries again, and where the
\* assertion of inv_on_state_confirmed() fails.
NegotiationEnds ==
    \A s \in Side :
        neg[s].state # "DONE" ~> neg[s].state = "DONE" \/ s \in unsent \/ stopped
=============================================================================
