------------------------ MODULE InviteSession_proofs ------------------------
(***************************************************************************)
(* For any formats, any descriptions of the applications and any number of*)
(* exchanges: no description of a call outlives its pool, and at rest the *)
(* two ends use the same media.                                           *)
(***************************************************************************)
EXTENDS InviteSession, FiniteSetTheorems, SequenceTheorems, WellFoundedInduction,
        TLAPS

(* A description in one of the pools P, or none.                            *)
Sdp(x, P) == x = In(x.pool, x.media) /\ x.pool \in P
Opt(x, P) == x = NULL \/ Sdp(x, P)

IsNeg(n) ==
    n = [state |-> n.state, has_remote_answer |-> n.has_remote_answer,
         initial_sdp |-> n.initial_sdp, initial_sdp_tmp |-> n.initial_sdp_tmp,
         active_local_sdp |-> n.active_local_sdp,
         active_remote_sdp |-> n.active_remote_sdp,
         neg_local_sdp |-> n.neg_local_sdp, neg_remote_sdp |-> n.neg_remote_sdp]

(* Between two exchanges all descriptions are in the pools P.               *)
Resting(n, P) ==
    /\ IsNeg(n) /\ n.state = "DONE"
    /\ Opt(n.active_local_sdp, P) /\ Opt(n.active_remote_sdp, P)
    /\ Opt(n.initial_sdp, P) /\ n.initial_sdp_tmp = NULL
    /\ n.neg_local_sdp = NULL /\ n.neg_remote_sdp = NULL

(* During one the descriptions of the exchange are in Q, and what it        *)
(* returns to when it fails is still in P.                                  *)
Offering(n, P, Q) ==
    /\ IsNeg(n) /\ n.state = "LOCAL_OFFER"
    /\ Opt(n.active_local_sdp, P) /\ Opt(n.active_remote_sdp, P)
    /\ Opt(n.initial_sdp, Q) /\ Opt(n.initial_sdp_tmp, P)
    /\ Sdp(n.neg_local_sdp, Q) /\ n.neg_remote_sdp = NULL

Invited(n, P, Q) ==
    /\ IsNeg(n) /\ n.state = "REMOTE_OFFER"
    /\ Opt(n.active_local_sdp, P) /\ Opt(n.active_remote_sdp, P)
    /\ Opt(n.initial_sdp, P) /\ n.initial_sdp_tmp = NULL
    /\ n.neg_local_sdp = NULL /\ Sdp(n.neg_remote_sdp, Q)

Ready(n, P, Q) ==
    /\ IsNeg(n)
    /\ Opt(n.active_local_sdp, P) /\ Opt(n.active_remote_sdp, P)
    /\ Opt(n.initial_sdp, Q) /\ Opt(n.initial_sdp_tmp, P)
    /\ Sdp(n.neg_local_sdp, Q) /\ Sdp(n.neg_remote_sdp, Q)

(* p is the provisional pool.                                               *)
Tidy(n, p) ==
    \/ Resting(n, {0, 3 - p})
    \/ Offering(n, {0, 3 - p}, {p})
    \/ Invited(n, {0, 3 - p}, {p})

IndInv ==
    /\ neg \in [Side -> {neg[s] : s \in Side}]
    /\ pool_prov \in [Side -> {1, 2}]
    /\ \A s \in Side : Tidy(neg[s], pool_prov[s])

-----------------------------------------------------------------------------
(* The negotiator.                                                          *)

LEMMA InSdp ==
    ASSUME NEW p, NEW m
    PROVE  Sdp(In(p, m), {p})
BY DEF Sdp, In

LEMMA WithMedia ==
    ASSUME NEW x, NEW P, Sdp(x, P), NEW m
    PROVE  Sdp([x EXCEPT !.media = m], P)
BY DEF Sdp, In

LEMMA InAny ==
    ASSUME NEW Q, NEW p \in Q, NEW m
    PROVE  Sdp(In(p, m), Q)
BY DEF Sdp, In

LEMMA NegotiateRests ==
    ASSUME NEW n, NEW P, NEW Q, Ready(n, P, Q), NEW p \in Q
    PROVE  LET o == Outcome(n, p)
           IN  Resting(negotiate(n, o), IF o.ok THEN Q ELSE P)
<1> DEFINE o == Outcome(n, p)
<1> SUFFICES Resting(negotiate(n, o), IF o.ok THEN Q ELSE P)
  OBVIOUS
<1>1. Sdp(o.local, Q) /\ Sdp(o.remote, Q)
  <2> DEFINE theirs == process_answer(n.neg_local_sdp.media, n.neg_remote_sdp.media)
             ours == create_answer(n.neg_local_sdp.media, n.neg_remote_sdp.media)
             a == [ok |-> theirs.ok,
                   local  |-> [n.neg_local_sdp EXCEPT !.media = theirs.offer],
                   remote |-> [n.neg_remote_sdp EXCEPT !.media = theirs.answer]]
             b == [ok |-> ours.ok, local  |-> In(p, ours.media),
                   remote |-> n.neg_remote_sdp]
  <2>1. o = IF n.has_remote_answer THEN a ELSE b
    BY DEF Outcome
  <2> HIDE DEF o, theirs, ours
  <2>2. Sdp(a.local, Q) /\ Sdp(a.remote, Q)
    BY WithMedia DEF Ready
  <2>3. Sdp(b.local, Q) /\ Sdp(b.remote, Q)
    BY InAny DEF Ready
  <2> QED BY <2>1, <2>2, <2>3
<1> HIDE DEF o
<1>2. CASE o.ok
  <2>1. negotiate(n, o) = Cleared([n EXCEPT !.active_local_sdp = o.local,
                                            !.active_remote_sdp = o.remote])
    BY <1>2 DEF negotiate
  <2> DEFINE u == negotiate(n, o)
  <2>2. /\ IsNeg(u) /\ u.state = "DONE" /\ u.initial_sdp = n.initial_sdp
        /\ u.active_local_sdp = o.local /\ u.active_remote_sdp = o.remote
        /\ u.initial_sdp_tmp = NULL /\ u.neg_local_sdp = NULL
        /\ u.neg_remote_sdp = NULL
    BY <2>1 DEF Cleared, Ready, IsNeg
  <2> HIDE DEF u
  <2>3. Resting(u, Q)
    BY <1>1, <2>2 DEF Ready, Resting, Opt
  <2> QED BY <1>2, <2>3 DEF u
<1>3. CASE ~ o.ok
  <2>1. negotiate(n, o) = Cleared([n EXCEPT !.initial_sdp = n.initial_sdp_tmp])
    BY <1>3 DEF negotiate
  <2> DEFINE u == negotiate(n, o)
  <2>2. /\ IsNeg(u) /\ u.state = "DONE" /\ u.initial_sdp = n.initial_sdp_tmp
        /\ u.active_local_sdp = n.active_local_sdp
        /\ u.active_remote_sdp = n.active_remote_sdp
        /\ u.initial_sdp_tmp = NULL /\ u.neg_local_sdp = NULL
        /\ u.neg_remote_sdp = NULL
    BY <2>1 DEF Cleared, Ready, IsNeg
  <2> HIDE DEF u
  <2>3. Resting(u, P)
    BY <2>2 DEF Ready, Resting
  <2> QED BY <1>3, <2>3 DEF u
<1> QED BY <1>2, <1>3

(* Resetting a pool that nothing is in changes nothing.                     *)
LEMMA ResetKeeps ==
    ASSUME NEW n, NEW P, Resting(n, P), NEW p, p \notin P
    PROVE  AfterReset(n, p) = n
<1> DEFINE L(x) == IF x # NULL /\ x.pool = p THEN [x EXCEPT !.pool = Freed] ELSE x
<1>1. \A x : Opt(x, P) => L(x) = x
  BY DEF Opt, Sdp
<1>2. AfterReset(n, p) =
        [n EXCEPT !.initial_sdp = L(n.initial_sdp),
                  !.initial_sdp_tmp = L(n.initial_sdp_tmp),
                  !.active_local_sdp = L(n.active_local_sdp),
                  !.active_remote_sdp = L(n.active_remote_sdp),
                  !.neg_local_sdp = L(n.neg_local_sdp),
                  !.neg_remote_sdp = L(n.neg_remote_sdp)]
  BY DEF AfterReset
<1> HIDE DEF L
<1>3. /\ L(n.initial_sdp) = n.initial_sdp /\ L(n.initial_sdp_tmp) = n.initial_sdp_tmp
      /\ L(n.active_local_sdp) = n.active_local_sdp
      /\ L(n.active_remote_sdp) = n.active_remote_sdp
      /\ L(n.neg_local_sdp) = n.neg_local_sdp /\ L(n.neg_remote_sdp) = n.neg_remote_sdp
  BY <1>1 DEF Resting, Opt
<1> DEFINE a == [n EXCEPT !.initial_sdp = n.initial_sdp]
           b == [a EXCEPT !.initial_sdp_tmp = n.initial_sdp_tmp]
           c == [b EXCEPT !.active_local_sdp = n.active_local_sdp]
           d == [c EXCEPT !.active_remote_sdp = n.active_remote_sdp]
           e == [d EXCEPT !.neg_local_sdp = n.neg_local_sdp]
           u == [e EXCEPT !.neg_remote_sdp = n.neg_remote_sdp]
<1>4. AfterReset(n, p) = u
  BY <1>2, <1>3
<1>5. IsNeg(n)
  BY DEF Resting
<1>6. a = n
  BY <1>5 DEF IsNeg
<1>7. a = n => b = n
  BY <1>5 DEF IsNeg
<1>8. b = n => c = n
  BY <1>5 DEF IsNeg
<1>9. c = n => d = n
  BY <1>5 DEF IsNeg
<1>10. d = n => e = n
  BY <1>5 DEF IsNeg
<1>11. e = n => u = n
  BY <1>5 DEF IsNeg
<1> HIDE DEF a, b, c, d, e, u
<1> QED BY <1>4, <1>6, <1>7, <1>8, <1>9, <1>10, <1>11

LEMMA ModifyOffers ==
    ASSUME NEW n, NEW P, Resting(n, P), NEW p, NEW l
    PROVE  Offering(modify_local_offer(n, p, l), P, {p})
<1> DEFINE new == In(p, FixedOffer(n.active_local_sdp.media, l))
<1>1. modify_local_offer(n, p, l) =
        [n EXCEPT !.state = "LOCAL_OFFER", !.initial_sdp_tmp = n.initial_sdp,
                  !.initial_sdp = new, !.neg_local_sdp = new]
  BY DEF modify_local_offer
<1>2. Sdp(new, {p})
  BY InSdp
<1> HIDE DEF new
<1> QED BY <1>1, <1>2 DEF Resting, Offering, IsNeg, Opt

LEMMA SendOffers ==
    ASSUME NEW n, NEW P, Resting(n, P), NEW p
    PROVE  Offering(send_local_offer(n, p), P, {p})
<1> DEFINE i == IF n.initial_sdp = NULL THEN NULL ELSE In(p, n.initial_sdp.media)
           t == IF n.initial_sdp = NULL THEN n.initial_sdp_tmp ELSE n.initial_sdp
           l == In(p, n.active_local_sdp.media)
<1>1. send_local_offer(n, p) =
        [n EXCEPT !.state = "LOCAL_OFFER", !.initial_sdp_tmp = t,
                  !.initial_sdp = i, !.neg_local_sdp = l]
  BY DEF send_local_offer
<1>2. Opt(i, {p}) /\ Sdp(l, {p}) /\ Opt(t, P)
  BY InSdp DEF Opt, Resting
<1> HIDE DEF i, t, l
<1> QED BY <1>1, <1>2 DEF Resting, Offering, IsNeg

LEMMA RemoteOffers ==
    ASSUME NEW n, NEW P, Resting(n, P), NEW p, NEW m
    PROVE  Invited(set_remote_offer(n, p, m), P, {p})
<1> DEFINE r == In(p, m)
<1>1. set_remote_offer(n, p, m) =
        [n EXCEPT !.state = "REMOTE_OFFER", !.neg_remote_sdp = r]
  BY DEF set_remote_offer
<1>2. Sdp(r, {p})
  BY InSdp
<1> HIDE DEF r
<1> QED BY <1>1, <1>2 DEF Resting, Invited, IsNeg

LEMMA RemoteAnswers ==
    ASSUME NEW n, NEW P, NEW Q, Offering(n, P, Q), NEW p \in Q, NEW m
    PROVE  Ready(set_remote_answer(n, p, m), P, Q)
<1> DEFINE r == In(p, m)
<1>1. set_remote_answer(n, p, m) =
        [n EXCEPT !.state = "WAIT_NEGO", !.has_remote_answer = TRUE,
                  !.neg_remote_sdp = r]
  BY DEF set_remote_answer
<1>2. Sdp(r, Q)
  BY InAny
<1> HIDE DEF r
<1> QED BY <1>1, <1>2 DEF Offering, Ready, IsNeg

LEMMA LocalAnswers ==
    ASSUME NEW n, NEW P, NEW Q, Invited(n, P, Q), NEW p \in Q, NEW l
    PROVE  Ready(set_local_answer(n, p, l), P, Q)
<1> DEFINE a == In(p, l)
           t == IF n.initial_sdp = NULL THEN n.initial_sdp_tmp ELSE n.initial_sdp
           i == In(p, IF n.initial_sdp = NULL THEN l ELSE n.initial_sdp.media)
<1>1. set_local_answer(n, p, l) =
        [n EXCEPT !.state = "WAIT_NEGO", !.neg_local_sdp = a,
                  !.initial_sdp_tmp = t, !.initial_sdp = i]
  BY DEF set_local_answer
<1>2. Sdp(a, Q) /\ Sdp(i, Q) /\ Opt(t, P)
  BY InAny DEF Opt, Invited
<1> HIDE DEF a, t, i
<1> QED BY <1>1, <1>2 DEF Invited, Ready, IsNeg, Opt

LEMMA CancelRests ==
    ASSUME NEW n, NEW P, NEW Q, Offering(n, P, Q) \/ Invited(n, P, Q)
    PROVE  Resting(cancel_offer(n), P)
<1>1. CASE Offering(n, P, Q)
  <2>1. cancel_offer(n) = Cleared([n EXCEPT !.initial_sdp = n.initial_sdp_tmp])
    BY <1>1 DEF cancel_offer, Offering
  <2> QED BY <1>1, <2>1 DEF Cleared, Offering, Resting, IsNeg
<1>2. CASE Invited(n, P, Q)
  <2>1. cancel_offer(n) = Cleared(n)
    BY <1>2 DEF cancel_offer, Invited
  <2> QED BY <1>2, <2>1 DEF Cleared, Invited, Resting, IsNeg
<1> QED BY <1>1, <1>2

-----------------------------------------------------------------------------
(* The session.                                                             *)

(* inv_negotiate_sdp() leaves nothing in the pool that it resets.           *)
LEMMA NegotiateTidy ==
    ASSUME NEW s \in Side, prov(s) \in {1, 2}, NEW n,
           Ready(n, {0, 3 - prov(s)}, {prov(s)})
    PROVE  LET r == inv_negotiate_sdp(s, n)
           IN  Tidy(r.neg, r.pool_prov) /\ r.pool_prov \in {1, 2}
<1> DEFINE p == prov(s)
           o == Outcome(n, p)
           next == IF o.ok THEN 3 - p ELSE p
           m == negotiate(n, o)
           r == inv_negotiate_sdp(s, n)
<1>1. r.neg = AfterReset(m, next) /\ r.pool_prov = next
  BY DEF inv_negotiate_sdp
<1>2. p \in {1, 2}
  OBVIOUS
<1>3. Resting(m, IF o.ok THEN {p} ELSE {0, 3 - p})
  BY NegotiateRests
<1> HIDE DEF p, o, m, r
<1>4. next \in {1, 2}
  BY <1>2
<1>5. Resting(m, {0, 3 - next})
  <2>1. CASE o.ok
    <3>1. 3 - next = p
      BY <1>2, <2>1
    <3>2. Resting(m, {p})
      BY <1>3, <2>1
    <3> QED BY <3>1, <3>2 DEF Resting, Opt, Sdp
  <2>2. CASE ~ o.ok
    BY <1>3, <2>2
  <2> QED BY <2>1, <2>2
<1>6. next \notin {0, 3 - next}
  BY <1>4
<1> HIDE DEF next
<1>7. AfterReset(m, next) = m
  BY <1>5, <1>6, ResetKeeps
<1> QED BY <1>1, <1>4, <1>5, <1>7 DEF Tidy, r

(* s changes its negotiator and its pool, nobody else does.                 *)
LEMMA Changed ==
    ASSUME IndInv, NEW s \in Side, NEW n, NEW p \in {1, 2}, Tidy(n, p),
           neg' = [neg EXCEPT ![s] = n], pool_prov' = [pool_prov EXCEPT ![s] = p]
    PROVE  IndInv'
<1>1. /\ neg'[s] = n /\ \A t \in Side \ {s} : neg'[t] = neg[t]
      /\ DOMAIN neg' = Side
  BY DEF IndInv
<1>2. neg' = [t \in Side |-> neg'[t]]
  BY DEF IndInv
<1>3. neg' \in [Side -> {neg'[t] : t \in Side}]
  BY <1>2
<1>4. /\ pool_prov' \in [Side -> {1, 2}]
      /\ pool_prov'[s] = p /\ \A t \in Side \ {s} : pool_prov'[t] = pool_prov[t]
  BY DEF IndInv
<1>5. \A t \in Side : Tidy(neg'[t], pool_prov'[t])
  BY <1>1, <1>4 DEF IndInv
<1> QED BY <1>3, <1>4, <1>5 DEF IndInv

LEMMA Kept ==
    ASSUME IndInv, NEW s \in Side, NEW n, Tidy(n, prov(s)), Keep(s, n)
    PROVE  IndInv'
<1>1. prov(s) \in {1, 2} /\ pool_prov' = [pool_prov EXCEPT ![s] = prov(s)]
  BY DEF IndInv, prov, Keep
<1>2. neg' = [neg EXCEPT ![s] = n]
  BY DEF Keep, SetNeg
<1> QED BY <1>1, <1>2, Changed

LEMMA Negotiates ==
    ASSUME IndInv, NEW s \in Side, NEW n, Ready(n, {0, 3 - prov(s)}, {prov(s)}),
           Negotiated(s, inv_negotiate_sdp(s, n))
    PROVE  IndInv'
<1> DEFINE r == inv_negotiate_sdp(s, n)
<1>1. prov(s) \in {1, 2}
  BY DEF IndInv, prov
<1>2. Tidy(r.neg, r.pool_prov) /\ r.pool_prov \in {1, 2}
  BY <1>1, NegotiateTidy
<1>3. neg' = [neg EXCEPT ![s] = r.neg] /\ pool_prov' = [pool_prov EXCEPT ![s] = r.pool_prov]
  BY DEF Negotiated, SetNeg
<1> HIDE DEF r
<1> QED BY <1>2, <1>3, Changed

LEMMA Unchanged ==
    ASSUME IndInv, UNCHANGED << neg, pool_prov >>
    PROVE  IndInv'
BY DEF IndInv

LEMMA NegotiateAnswerStep ==
    ASSUME IndInv, NEW s \in Side, neg[s].state = "LOCAL_OFFER", NEW m,
           NegotiateAnswer(s, m)
    PROVE  IndInv'
<1> DEFINE n == set_remote_answer(neg[s], prov(s), m.sdp)
<1>1. Offering(neg[s], {0, 3 - prov(s)}, {prov(s)})
  BY DEF IndInv, Tidy, Resting, Invited, prov
<1>2. Ready(n, {0, 3 - prov(s)}, {prov(s)})
  BY <1>1, RemoteAnswers
<1>3. Negotiated(s, inv_negotiate_sdp(s, n))
  BY DEF NegotiateAnswer
<1> HIDE DEF n
<1> QED BY <1>2, <1>3, Negotiates

LEMMA OurAnswerStep ==
    ASSUME IndInv, NEW s \in Side, NEW n, Invited(n, {0, 3 - prov(s)}, {prov(s)}),
           NEW r \in OurAnswers(s, n), Negotiated(s, r)
    PROVE  IndInv'
<1>1. PICK l \in Local[s] : r = inv_negotiate_sdp(s, set_local_answer(n, prov(s), l))
  BY DEF OurAnswers
<1> DEFINE a == set_local_answer(n, prov(s), l)
<1>2. Ready(a, {0, 3 - prov(s)}, {prov(s)})
  BY LocalAnswers
<1>3. r = inv_negotiate_sdp(s, a)
  BY <1>1
<1> HIDE DEF a
<1> QED BY <1>2, <1>3, Negotiates

LEMMA AtRest ==
    ASSUME IndInv, NEW s \in Side, neg[s].state = "DONE"
    PROVE  Resting(neg[s], {0, 3 - prov(s)})
BY DEF IndInv, Tidy, Offering, Invited, prov

LEMMA OfferedInvited ==
    ASSUME IndInv, NEW s \in Side, neg[s].state = "DONE", NEW m
    PROVE  Invited(Offered(s, m), {0, 3 - prov(s)}, {prov(s)})
BY AtRest, RemoteOffers DEF Offered

LEMMA CancelLocalTidy ==
    ASSUME IndInv, NEW s \in Side
    PROVE  Tidy(CancelLocal(neg[s]), prov(s)) /\ Tidy(neg[s], prov(s))
<1>1. Tidy(neg[s], prov(s))
  BY DEF IndInv, prov
<1>2. CASE neg[s].state = "LOCAL_OFFER"
  <2>1. Offering(neg[s], {0, 3 - prov(s)}, {prov(s)})
    BY <1>1, <1>2 DEF Tidy, Resting, Invited
  <2> QED BY <1>1, <1>2, <2>1, CancelRests DEF CancelLocal, Tidy
<1>3. CASE neg[s].state # "LOCAL_OFFER"
  BY <1>1, <1>3 DEF CancelLocal
<1> QED BY <1>2, <1>3

-----------------------------------------------------------------------------
(* The steps.                                                               *)

LEMMA LocalOfferOpens ==
    ASSUME IndInv, NEW s \in Side, neg[s].state = "DONE", NEW n \in LocalOffers(s)
    PROVE  Offering(n, {0, 3 - prov(s)}, {prov(s)})
<1>1. Resting(neg[s], {0, 3 - prov(s)})
  BY AtRest
<1>2. CASE n = send_local_offer(neg[s], prov(s))
  BY <1>1, <1>2, SendOffers
<1>3. CASE \E l \in Local[s] : n = modify_local_offer(neg[s], prov(s), l)
  BY <1>1, <1>3, ModifyOffers
<1> QED BY <1>2, <1>3 DEF LocalOffers

LEMMA OfferStep ==
    ASSUME IndInv, NEW s \in Side, neg[s].state = "DONE", NEW n \in LocalOffers(s),
           Keep(s, n)
    PROVE  IndInv'
<1>1. Tidy(n, prov(s))
  BY LocalOfferOpens DEF Tidy
<1> QED BY <1>1, Kept

LEMMA RequestStep ==
    ASSUME IndInv, NEW s \in Side, Request(s)
    PROVE  IndInv'
<1>0. Keep(s, neg[s]) => IndInv'
  BY CancelLocalTidy, Kept
<1>1. CASE Reinvite(s)
  <2>1. PICK n \in IF s \in unsent THEN {neg[s]} ELSE LocalOffers(s) : Keep(s, n)
    BY <1>1 DEF Reinvite
  <2>2. CASE s \in unsent
    BY <2>1, <2>2, <1>0
  <2>3. CASE s \notin unsent
    BY <1>1, <2>1, <2>3, OfferStep DEF Reinvite
  <2> QED BY <2>2, <2>3
<1>2. CASE ReinviteOfferless(s)
  BY <1>0, <1>2 DEF ReinviteOfferless
<1>3. CASE Update(s)
  <2>1. PICK l \in Local[s] : Keep(s, modify_local_offer(neg[s], prov(s), l))
    BY <1>3 DEF Update
  <2>2. modify_local_offer(neg[s], prov(s), l) \in LocalOffers(s)
    BY DEF LocalOffers
  <2>3. neg[s].state = "DONE"
    BY <1>3 DEF Update
  <2> QED BY <2>1, <2>2, <2>3, OfferStep
<1> QED BY <1>1, <1>2, <1>3 DEF Request

LEMMA DispatchStep ==
    ASSUME IndInv, NEW s \in Side, Dispatch(s)
    PROVE  IndInv'
BY Unchanged DEF Dispatch, CheckRequest, RefuseRequest, SendUpdate, SendInvite, SendRequest,
   AssertFails

(* The offer in m is answered or cancelled at once.                         *)
LEMMA AnsweredStep ==
    ASSUME IndInv, NEW s \in Side, NEW m, neg[s].state = "DONE",
           NEW r \in OurAnswers(s, Offered(s, m)), Negotiated(s, r)
    PROVE  IndInv'
<1> DEFINE n == Offered(s, m)
<1>1. Invited(n, {0, 3 - prov(s)}, {prov(s)})
  BY OfferedInvited
<1>2. r \in OurAnswers(s, n)
  OBVIOUS
<1> HIDE DEF n
<1> QED BY <1>1, <1>2, OurAnswerStep

LEMMA RefusedStep ==
    ASSUME IndInv, NEW s \in Side, NEW m, neg[s].state = "DONE",
           Keep(s, cancel_offer(Offered(s, m)))
    PROVE  IndInv'
<1>1. Invited(Offered(s, m), {0, 3 - prov(s)}, {prov(s)})
  BY OfferedInvited
<1>2. Tidy(cancel_offer(Offered(s, m)), prov(s))
  BY <1>1, CancelRests DEF Tidy
<1> QED BY <1>2, Kept

LEMMA ServerStep ==
    ASSUME IndInv, NEW s \in Side,
           \/ RejectInvite(s) \/ AnswerInvite(s) \/ RefuseInvite(s)
           \/ DeferInvite(s) \/ OfferInOk(s)
           \/ RejectUpdate(s) \/ AnswerUpdate(s) \/ RefuseUpdate(s)
    PROVE  IndInv'
<1>1. CASE RejectInvite(s)
  BY <1>1, Unchanged DEF RejectInvite
<1>2. CASE AnswerInvite(s)
  <2>1. PICK m \in net : /\ RecvInvite(s, m)
                         /\ \E r \in OurAnswers(s, Offered(s, m)) : Negotiated(s, r)
    BY <1>2 DEF AnswerInvite
  <2>2. neg[s].state = "DONE"
    BY <2>1 DEF RecvInvite
  <2> QED BY <2>1, <2>2, AnsweredStep
<1>3. CASE RefuseInvite(s)
  <2>1. PICK m \in net : RecvInvite(s, m) /\ Keep(s, cancel_offer(Offered(s, m)))
    BY <1>3 DEF RefuseInvite
  <2> QED BY <2>1, RefusedStep DEF RecvInvite
<1>4. CASE DeferInvite(s)
  <2>1. PICK m \in net : RecvInvite(s, m) /\ Keep(s, Offered(s, m))
    BY <1>4 DEF DeferInvite
  <2>2. Invited(Offered(s, m), {0, 3 - prov(s)}, {prov(s)})
    BY <2>1, OfferedInvited DEF RecvInvite
  <2>3. Tidy(Offered(s, m), prov(s))
    BY <2>2 DEF Tidy
  <2> QED BY <2>1, <2>3, Kept
<1>5. CASE OfferInOk(s)
  <2>1. PICK m \in net : RecvInvite(s, m) /\ \E n \in LocalOffers(s) : Keep(s, n)
    BY <1>5 DEF OfferInOk
  <2> QED BY <2>1, OfferStep DEF RecvInvite
<1>6. CASE RejectUpdate(s)
  BY <1>6, Unchanged DEF RejectUpdate
<1>7. CASE AnswerUpdate(s)
  <2>1. PICK m \in Incoming(s, "request", "UPDATE") :
          /\ neg[s].state = "DONE"
          /\ \E r \in OurAnswers(s, Offered(s, m)) : Negotiated(s, r)
    BY <1>7 DEF AnswerUpdate
  <2> QED BY <2>1, AnsweredStep
<1>8. CASE RefuseUpdate(s)
  <2>1. PICK m \in Incoming(s, "request", "UPDATE") :
          neg[s].state = "DONE" /\ Keep(s, cancel_offer(Offered(s, m)))
    BY <1>8 DEF RefuseUpdate
  <2> QED BY <2>1, RefusedStep
<1> QED BY <1>1, <1>2, <1>3, <1>4, <1>5, <1>6, <1>7, <1>8

LEMMA ClientStep ==
    ASSUME IndInv, NEW s \in Side,
           \/ InviteAnswered(s) \/ AnswerInAck(s) \/ InviteFailed(s)
           \/ UpdateAnswered(s) \/ UpdateFailed(s) \/ RecvAck(s)
    PROVE  IndInv'
<1>1. CASE InviteAnswered(s)
  <2>1. PICK m \in Incoming(s, "ok", "INVITE") :
          neg[s].state = "LOCAL_OFFER" /\ NegotiateAnswer(s, m)
    BY <1>1 DEF InviteAnswered
  <2> QED BY <2>1, NegotiateAnswerStep
<1>2. CASE AnswerInAck(s)
  <2>1. PICK m \in Incoming(s, "ok", "INVITE") :
          /\ neg[s].state = "DONE"
          /\ \E r \in OurAnswers(s, Offered(s, m)) : Negotiated(s, r)
    BY <1>2 DEF AnswerInAck
  <2> QED BY <2>1, AnsweredStep
<1>3. CASE InviteFailed(s)
  <2>1. Keep(s, CancelLocal(neg[s]))
    BY <1>3 DEF InviteFailed
  <2> QED BY <2>1, CancelLocalTidy, Kept
<1>4. CASE UpdateAnswered(s)
  <2>1. PICK m \in Incoming(s, "ok", "UPDATE") :
          IF neg[s].state = "LOCAL_OFFER" THEN NegotiateAnswer(s, m) ELSE Keep(s, neg[s])
    BY <1>4 DEF UpdateAnswered
  <2>2. CASE neg[s].state = "LOCAL_OFFER"
    BY <2>1, <2>2, NegotiateAnswerStep
  <2>3. CASE neg[s].state # "LOCAL_OFFER"
    BY <2>1, <2>3, CancelLocalTidy, Kept
  <2> QED BY <2>2, <2>3
<1>5. CASE UpdateFailed(s)
  <2>1. Keep(s, CancelLocal(neg[s]))
    BY <1>5 DEF UpdateFailed
  <2> QED BY <2>1, CancelLocalTidy, Kept
<1>6. CASE RecvAck(s)
  <2>1. PICK m \in Incoming(s, "ACK", "INVITE") :
          \/ neg[s].state = "LOCAL_OFFER" /\ NegotiateAnswer(s, m)
          \/ Keep(s, CancelLocal(neg[s]))
          \/ Keep(s, neg[s])
    BY <1>6 DEF RecvAck
  <2> QED BY <2>1, NegotiateAnswerStep, CancelLocalTidy, Kept
<1> QED BY <1>1, <1>2, <1>3, <1>4, <1>5, <1>6

LEMMA DeferredStep ==
    ASSUME IndInv, NEW s \in Side, AnswerDeferred(s)
    PROVE  IndInv'
<1>0. neg[s].state = "REMOTE_OFFER" => Invited(neg[s], {0, 3 - prov(s)}, {prov(s)})
  BY DEF IndInv, Tidy, Resting, Offering, prov
<1>1. CASE AnswerLater(s)
  <2>1. /\ neg[s].state = "REMOTE_OFFER"
        /\ \E r \in OurAnswers(s, neg[s]) : Negotiated(s, r)
    BY <1>1 DEF AnswerLater
  <2> QED BY <1>0, <2>1, OurAnswerStep
<1>2. CASE RejectLater(s)
  <2>1. CASE neg[s].state = "REMOTE_OFFER"
    <3>1. Keep(s, cancel_offer(neg[s]))
      BY <1>2, <2>1 DEF RejectLater
    <3>2. Tidy(cancel_offer(neg[s]), prov(s))
      BY <1>0, <2>1, CancelRests DEF Tidy
    <3> QED BY <3>1, <3>2, Kept
  <2>2. CASE neg[s].state # "REMOTE_OFFER"
    <3>1. Keep(s, neg[s])
      BY <1>2, <2>2 DEF RejectLater
    <3> QED BY <3>1, CancelLocalTidy, Kept
  <2> QED BY <2>1, <2>2
<1> QED BY <1>1, <1>2 DEF AnswerDeferred

LEMMA CreatedInvited ==
    ASSUME NEW r, NEW P, NEW Q, Sdp(r, Q)
    PROVE  LET u == [[NewNegotiator EXCEPT !.neg_remote_sdp = r]
                        EXCEPT !.state = "REMOTE_OFFER"]
           IN  /\ Invited(u, P, Q) /\ u.has_remote_answer = FALSE
               /\ u.active_local_sdp = NULL /\ u.neg_remote_sdp = r
<1> DEFINE m == [NewNegotiator EXCEPT !.neg_remote_sdp = r]
           u == [m EXCEPT !.state = "REMOTE_OFFER"]
<1>0. m = [NewNegotiator EXCEPT !.neg_remote_sdp = r]
  OBVIOUS
<1>2. u = [m EXCEPT !.state = "REMOTE_OFFER"]
  OBVIOUS
<1> HIDE DEF m, u
<1>1. m = [state |-> "DONE", has_remote_answer |-> FALSE,
           initial_sdp |-> NULL, initial_sdp_tmp |-> NULL,
           active_local_sdp |-> NULL, active_remote_sdp |-> NULL,
           neg_local_sdp |-> NULL, neg_remote_sdp |-> r]
  BY <1>0 DEF NewNegotiator
<1>3. u = [state |-> "REMOTE_OFFER", has_remote_answer |-> FALSE,
           initial_sdp |-> NULL, initial_sdp_tmp |-> NULL,
           active_local_sdp |-> NULL, active_remote_sdp |-> NULL,
           neg_local_sdp |-> NULL, neg_remote_sdp |-> r]
  BY <1>1, <1>2
<1>4. Invited(u, P, Q)
  BY <1>3 DEF Invited, IsNeg, Opt
<1>5. u.has_remote_answer = FALSE /\ u.active_local_sdp = NULL /\ u.neg_remote_sdp = r
  BY <1>3
<1> QED BY <1>4, <1>5 DEF m, u

CreatedWith(r, l) ==
    [[NewNegotiator EXCEPT !.neg_remote_sdp = r]
        EXCEPT !.state = "WAIT_NEGO", !.initial_sdp = l, !.neg_local_sdp = l]

Holding(u, r, l, P, Q) ==
    /\ Ready(u, P, Q) /\ u.has_remote_answer = FALSE /\ u.neg_local_sdp = l
    /\ u.active_local_sdp = NULL /\ u.neg_remote_sdp = r

LEMMA CreatedReady ==
    ASSUME NEW r, NEW l, NEW P, NEW Q, Sdp(r, Q), Sdp(l, Q)
    PROVE  Holding(CreatedWith(r, l), r, l, P, Q)
<1> DEFINE m == [NewNegotiator EXCEPT !.neg_remote_sdp = r]
           v == [m EXCEPT !.state = "WAIT_NEGO"]
           w == [v EXCEPT !.initial_sdp = l]
           u == [w EXCEPT !.neg_local_sdp = l]
<1>0. CreatedWith(r, l) = u
  BY DEF CreatedWith
<1>1. v = [m EXCEPT !.state = "WAIT_NEGO"]
  OBVIOUS
<1>2. w = [v EXCEPT !.initial_sdp = l]
  OBVIOUS
<1>3. u = [w EXCEPT !.neg_local_sdp = l]
  OBVIOUS
<1>9. m = [NewNegotiator EXCEPT !.neg_remote_sdp = r]
  OBVIOUS
<1> HIDE DEF m, u, v, w
<1>10. m = [state |-> "DONE", has_remote_answer |-> FALSE,
           initial_sdp |-> NULL, initial_sdp_tmp |-> NULL,
           active_local_sdp |-> NULL, active_remote_sdp |-> NULL,
           neg_local_sdp |-> NULL, neg_remote_sdp |-> r]
  BY <1>9 DEF NewNegotiator
<1>4. v = [state |-> "WAIT_NEGO", has_remote_answer |-> FALSE,
           initial_sdp |-> NULL, initial_sdp_tmp |-> NULL,
           active_local_sdp |-> NULL, active_remote_sdp |-> NULL,
           neg_local_sdp |-> NULL, neg_remote_sdp |-> r]
  BY <1>1, <1>10
<1>5. w = [state |-> "WAIT_NEGO", has_remote_answer |-> FALSE,
           initial_sdp |-> l, initial_sdp_tmp |-> NULL,
           active_local_sdp |-> NULL, active_remote_sdp |-> NULL,
           neg_local_sdp |-> NULL, neg_remote_sdp |-> r]
  BY <1>2, <1>4
<1>6. u = [state |-> "WAIT_NEGO", has_remote_answer |-> FALSE,
           initial_sdp |-> l, initial_sdp_tmp |-> NULL,
           active_local_sdp |-> NULL, active_remote_sdp |-> NULL,
           neg_local_sdp |-> l, neg_remote_sdp |-> r]
  BY <1>3, <1>5
<1>7. Ready(u, P, Q)
  BY <1>6 DEF Ready, IsNeg, Opt
<1>8. /\ u.has_remote_answer = FALSE /\ u.neg_local_sdp = l
      /\ u.active_local_sdp = NULL /\ u.neg_remote_sdp = r
  BY <1>6
<1> QED BY <1>0, <1>7, <1>8 DEF Holding

LEMMA LocalAnswerSet ==
    ASSUME NEW n, IsNeg(n), NEW p, NEW l
    PROVE  LET a == set_local_answer(n, p, l)
           IN  /\ a.has_remote_answer = n.has_remote_answer /\ a.neg_local_sdp = In(p, l)
               /\ a.neg_remote_sdp = n.neg_remote_sdp
               /\ a.active_local_sdp = n.active_local_sdp
<1> DEFINE a == set_local_answer(n, p, l)
           x == In(p, l)
           t == IF n.initial_sdp = NULL THEN n.initial_sdp_tmp ELSE n.initial_sdp
           i == In(p, IF n.initial_sdp = NULL THEN l ELSE n.initial_sdp.media)
<1>1. a = [n EXCEPT !.state = "WAIT_NEGO", !.neg_local_sdp = x,
                    !.initial_sdp_tmp = t, !.initial_sdp = i]
  BY DEF set_local_answer
<1> HIDE DEF a, x, t, i
<1>2. /\ a.has_remote_answer = n.has_remote_answer /\ a.neg_local_sdp = x
      /\ a.neg_remote_sdp = n.neg_remote_sdp /\ a.active_local_sdp = n.active_local_sdp
  BY <1>1 DEF IsNeg
<1> QED BY <1>2 DEF a, x

(* The callee is ready to negotiate, whenever it gave its description.      *)
LEMMA CalleeReady ==
    ASSUME NEW initial \in {NULL, FirstAnswer}
    PROVE  \E a : /\ Callee(initial) = NegotiatedIn(1, a)
                  /\ Ready(a, {0, 1}, {0, 1}) /\ a.has_remote_answer = FALSE
                  /\ a.neg_local_sdp.media = FirstAnswer
                  /\ a.neg_remote_sdp = In(0, FirstOffer) /\ a.active_local_sdp = NULL
<1> DEFINE f == create_w_remote_offer(0, initial, FirstOffer)
           a == IF initial = NULL THEN set_local_answer(f, 1, FirstAnswer) ELSE f
<1>0. Callee(initial) = NegotiatedIn(1, a)
  BY DEF Callee
<1>1. PICK r, l : r = In(0, FirstOffer) /\ l = In(0, FirstAnswer)
  OBVIOUS
<1>4. Sdp(r, {0, 1}) /\ Sdp(l, {0, 1})
  BY <1>1, InAny
<1>2. CASE initial = NULL
  <2>1. f = [[NewNegotiator EXCEPT !.neg_remote_sdp = r] EXCEPT !.state = "REMOTE_OFFER"]
    BY <1>1, <1>2 DEF create_w_remote_offer
  <2>7. a = set_local_answer(f, 1, FirstAnswer)
    BY <1>2
  <2> HIDE DEF f, a
  <2>2. /\ Invited(f, {0, 1}, {0, 1}) /\ f.has_remote_answer = FALSE
        /\ f.active_local_sdp = NULL /\ f.neg_remote_sdp = In(0, FirstOffer)
    BY <1>1, <1>4, <2>1, CreatedInvited
  <2>4. Ready(a, {0, 1}, {0, 1})
    BY <2>2, <2>7, LocalAnswers
  <2>5. IsNeg(f) /\ In(1, FirstAnswer).media = FirstAnswer
    BY <2>2 DEF Invited, In
  <2>6. /\ a.has_remote_answer = FALSE /\ a.neg_local_sdp = In(1, FirstAnswer)
        /\ a.neg_remote_sdp = In(0, FirstOffer) /\ a.active_local_sdp = NULL
    BY <2>2, <2>5, <2>7, LocalAnswerSet
  <2> QED BY <1>0, <2>4, <2>5, <2>6
<1>3. CASE initial # NULL
  <2>1. a = CreatedWith(r, l)
    BY <1>1, <1>3 DEF create_w_remote_offer, CreatedWith
  <2> HIDE DEF a, f
  <2>2. Holding(a, r, l, {0, 1}, {0, 1})
    BY <1>4, <2>1, CreatedReady
  <2>3. l.media = FirstAnswer
    BY <1>1 DEF In
  <2> QED BY <1>0, <1>1, <2>2, <2>3 DEF Holding
<1> QED BY <1>2, <1>3

LEMMA CreatedOffering ==
    ASSUME NEW r, NEW P, NEW Q, Sdp(r, Q)
    PROVE  LET u == [NewNegotiator EXCEPT !.state = "LOCAL_OFFER", !.initial_sdp = r,
                                          !.neg_local_sdp = r]
           IN  /\ Offering(u, P, Q)
               /\ u.active_local_sdp = NULL /\ u.neg_local_sdp = r
<1> DEFINE m == [NewNegotiator EXCEPT !.state = "LOCAL_OFFER"]
           k == [m EXCEPT !.initial_sdp = r]
           u == [k EXCEPT !.neg_local_sdp = r]
<1>1. m = [NewNegotiator EXCEPT !.state = "LOCAL_OFFER"]
  OBVIOUS
<1>2. u = [NewNegotiator EXCEPT !.state = "LOCAL_OFFER", !.initial_sdp = r,
                                !.neg_local_sdp = r]
  OBVIOUS
<1>3. k = [m EXCEPT !.initial_sdp = r]
  OBVIOUS
<1>4. u = [k EXCEPT !.neg_local_sdp = r]
  OBVIOUS
<1> HIDE DEF m, k, u
<1>5. m = [state |-> "LOCAL_OFFER", has_remote_answer |-> FALSE,
           initial_sdp |-> NULL, initial_sdp_tmp |-> NULL,
           active_local_sdp |-> NULL, active_remote_sdp |-> NULL,
           neg_local_sdp |-> NULL, neg_remote_sdp |-> NULL]
  BY <1>1 DEF NewNegotiator
<1>6. k = [state |-> "LOCAL_OFFER", has_remote_answer |-> FALSE,
           initial_sdp |-> r, initial_sdp_tmp |-> NULL,
           active_local_sdp |-> NULL, active_remote_sdp |-> NULL,
           neg_local_sdp |-> NULL, neg_remote_sdp |-> NULL]
  BY <1>3, <1>5
<1>7. u = [state |-> "LOCAL_OFFER", has_remote_answer |-> FALSE,
           initial_sdp |-> r, initial_sdp_tmp |-> NULL,
           active_local_sdp |-> NULL, active_remote_sdp |-> NULL,
           neg_local_sdp |-> r, neg_remote_sdp |-> NULL]
  BY <1>6, <1>4
<1>8. Offering(u, P, Q)
  BY <1>7 DEF Offering, IsNeg, Opt
<1>9. u.active_local_sdp = NULL /\ u.neg_local_sdp = r
  BY <1>7
<1> QED BY <1>2, <1>8, <1>9

LEMMA InitTidy == Init => IndInv
<1> SUFFICES ASSUME Init PROVE IndInv
  OBVIOUS
<1>1. \A initial \in {NULL, FirstAnswer} : Resting(Callee(initial), {0, 1})
  <2> TAKE initial \in {NULL, FirstAnswer}
  <2>1. PICK a : Callee(initial) = NegotiatedIn(1, a) /\ Ready(a, {0, 1}, {0, 1})
    BY CalleeReady
  <2>2. Resting(negotiate(a, Outcome(a, 1)), {0, 1})
    BY <2>1, NegotiateRests
  <2> QED BY <2>1, <2>2 DEF NegotiatedIn
<1>2. \A sdp : Resting(NegotiatedIn(1, set_remote_answer(
                      create_w_local_offer(0, FirstOffer), 1, sdp)), {0, 1})
  <2> SUFFICES ASSUME NEW sdp
               PROVE  Resting(NegotiatedIn(1, set_remote_answer(
                        create_w_local_offer(0, FirstOffer), 1, sdp)), {0, 1})
    OBVIOUS
  <2> DEFINE a == create_w_local_offer(0, FirstOffer)
             b == set_remote_answer(a, 1, sdp)
  <2>1. Offering(a, {0, 1}, {0, 1})
    <3>1. Sdp(In(0, FirstOffer), {0, 1})
      BY InAny
    <3> QED BY <3>1, CreatedOffering DEF create_w_local_offer
  <2> HIDE DEF a
  <2>2. Ready(b, {0, 1}, {0, 1})
    BY <2>1, RemoteAnswers
  <2> HIDE DEF b
  <2>3. Resting(negotiate(b, Outcome(b, 1)), {0, 1})
    BY <2>2, NegotiateRests
  <2> QED BY <2>3 DEF NegotiatedIn, b, a
<1>3. \A callee : Resting(Caller(callee), {0, 1})
  BY <1>2 DEF Caller
<1>4. \A s \in Side : Resting(neg[s], {0, 1}) /\ pool_prov[s] = 2
  BY <1>1, <1>3 DEF Init
<1>5. /\ neg \in [Side -> {neg[s] : s \in Side}]
      /\ pool_prov \in [Side -> {1, 2}]
  BY DEF Init
<1>6. \A s \in Side : Tidy(neg[s], pool_prov[s])
  <2>1. 3 - 2 = 1
    OBVIOUS
  <2> QED BY <1>4, <2>1 DEF Tidy
<1> QED BY <1>5, <1>6 DEF IndInv

LEMMA Inductive == IndInv /\ [Next]_vars => IndInv'
<1> SUFFICES ASSUME IndInv, [Next]_vars PROVE IndInv'
  OBVIOUS
<1>1. CASE UNCHANGED vars
  BY <1>1, Unchanged DEF vars
<1>2. CASE Next
  <2>1. PICK s \in Side : Request(s) \/ Dispatch(s) \/ Handle(s) \/ AnswerDeferred(s)
    BY <1>2 DEF Next
  <2> QED BY <2>1, RequestStep, DispatchStep, ServerStep, ClientStep, DeferredStep
          DEF Handle, Handler
<1> QED BY <1>1, <1>2

LEMMA IndFieldsAlive == IndInv => FieldsAlive
<1> SUFFICES ASSUME IndInv, NEW s \in Side, NEW f \in Description, neg[s][f] # NULL
             PROVE  neg[s][f].pool # Freed
  BY DEF FieldsAlive
<1> DEFINE n == neg[s]
           p == pool_prov[s]
<1>1. Tidy(n, p) /\ p \in {1, 2}
  BY DEF IndInv
<1> HIDE DEF n, p
<1>2. \A x, P : Opt(x, P) /\ x # NULL => x.pool \in P
  BY DEF Opt, Sdp
<1>3. \A x, P : Sdp(x, P) => x.pool \in P
  BY DEF Sdp
<1>4. Freed \notin {0, 1, 2, p, 3 - p}
  BY <1>1 DEF Freed
<1>5. /\ n.initial_sdp = NULL \/ n.initial_sdp.pool \in {0, p, 3 - p}
      /\ n.initial_sdp_tmp = NULL \/ n.initial_sdp_tmp.pool \in {0, p, 3 - p}
      /\ n.active_local_sdp = NULL \/ n.active_local_sdp.pool \in {0, p, 3 - p}
      /\ n.active_remote_sdp = NULL \/ n.active_remote_sdp.pool \in {0, p, 3 - p}
      /\ n.neg_local_sdp = NULL \/ n.neg_local_sdp.pool \in {0, p, 3 - p}
      /\ n.neg_remote_sdp = NULL \/ n.neg_remote_sdp.pool \in {0, p, 3 - p}
  <2>1. CASE Resting(n, {0, 3 - p})
    BY <2>1, <1>2 DEF Resting
  <2>2. CASE Offering(n, {0, 3 - p}, {p})
    BY <2>2, <1>2, <1>3 DEF Offering
  <2>3. CASE Invited(n, {0, 3 - p}, {p})
    BY <2>3, <1>2, <1>3 DEF Invited
  <2> QED BY <1>1, <2>1, <2>2, <2>3 DEF Tidy
<1> QED BY <1>4, <1>5 DEF Description, n

(* The pools of an invite session are swapped and reset at the right times: *)
(* whatever the offers, the answers, the failures and their order, the      *)
(* negotiator keeps no description in a pool that inv_negotiate_sdp() has   *)
(* reset.                                                                   *)
THEOREM PoolDiscipline == Spec => []FieldsAlive
BY InitTidy, Inductive, IndFieldsAlive, PTL DEF Spec

-----------------------------------------------------------------------------
(* Parts of a sequence.                                                     *)

(* A nonempty set of naturals has a least element.                          *)
LEMMA Least ==
    ASSUME NEW T \in SUBSET Nat, T # {}
    PROVE  \E x \in T : \A y \in T : x <= y
<1>1. PICK x \in T : \A y \in T : ~ (<<y, x>> \in OpToRel(<, Nat))
  BY WFMin, NatLessThanWellFounded, Zenon
<1>2. \A y \in T : ~ (y < x)
  BY <1>1 DEF OpToRel
<1> QED BY <1>2

LEMMA Ranks ==
    ASSUME NEW n \in Nat, NEW I \in SUBSET (1..n)
    PROVE  LET R(i) == Cardinality({j \in I : j <= i})
           IN  /\ IsFiniteSet(I) /\ Cardinality(I) \in Nat
               /\ \A i \in I : R(i) \in 1..Cardinality(I)
               /\ \A i, j \in I : R(i) = R(j) => i = j
               /\ \A k \in 1..Cardinality(I) : \E i \in I : R(i) = k
<1> DEFINE B(i) == {j \in I : j <= i}
           R(i) == Cardinality(B(i))
<1>1. IsFiniteSet(I) /\ Cardinality(I) \in Nat
  <2>1. IsFiniteSet(1..n)
    BY FS_Interval
  <2>2. IsFiniteSet(I)
    BY <2>1, FS_Subset
  <2> QED BY <2>2, FS_CardinalityType
<1>2. \A i \in I : IsFiniteSet(B(i)) /\ R(i) \in Nat /\ R(i) <= Cardinality(I)
  <2> TAKE i \in I
  <2>1. B(i) \in SUBSET I
    OBVIOUS
  <2> HIDE DEF B
  <2>2. IsFiniteSet(B(i)) /\ R(i) <= Cardinality(I)
    BY <1>1, <2>1, FS_Subset
  <2>3. R(i) \in Nat
    BY <2>2, FS_CardinalityType
  <2> QED BY <2>2, <2>3
<1>3. \A i \in I : R(i) # 0
  <2> TAKE i \in I
  <2>1. i \in B(i)
    OBVIOUS
  <2> HIDE DEF B
  <2> QED BY <1>2, <2>1, FS_EmptySet
<1>4. \A i, j \in I : i < j => R(i) # R(j)
  <2> SUFFICES ASSUME NEW i \in I, NEW j \in I, i < j, R(i) = R(j)
               PROVE  FALSE
    OBVIOUS
  <2>0. i \in Int /\ j \in Int /\ \A k \in I : k \in Int
    OBVIOUS
  <2>1. \A k \in I : k <= i => k <= j
    BY <2>0
  <2>2. B(i) \in SUBSET B(j)
    BY <2>1
  <2>3. j \in B(j) /\ j \notin B(i)
    BY <2>0
  <2> HIDE DEF B
  <2> QED BY <1>2, <2>2, <2>3, FS_Subset
<1> HIDE DEF R
<1>5. \A i, j \in I : R(i) = R(j) => i = j
  <2>1. I \in SUBSET Int
    OBVIOUS
  <2> QED BY <1>4, <2>1
<1>6. \A i \in I : R(i) \in 1..Cardinality(I)
  <2> TAKE i \in I
  <2>1. R(i) \in Nat /\ R(i) <= Cardinality(I) /\ R(i) # 0
    BY <1>2, <1>3 DEF R
  <2> HIDE DEF R
  <2> QED BY <1>1, <2>1
<1>7. \A k \in 1..Cardinality(I) : \E i \in I : R(i) = k
  <2> DEFINE C == 1..Cardinality(I)
             f == [i \in I |-> R(i)]
  <2>1. IsFiniteSet(C) /\ Cardinality(C) = Cardinality(I)
    <3>1. /\ IsFiniteSet(C)
          /\ Cardinality(C) = IF 1 > Cardinality(I) THEN 0 ELSE Cardinality(I) - 1 + 1
      BY <1>1, FS_Interval
    <3> HIDE DEF C
    <3> QED BY <1>1, <3>1
  <2>2. f \in [I -> C] /\ \A i, j \in I : f[i] = f[j] => i = j
    BY <1>5, <1>6
  <2>3. \A i \in I : f[i] = R(i)
    OBVIOUS
  <2> HIDE DEF f, C
  <2>4. f \in Injection(I, C)
    BY <2>2 DEF Injection, IsInjective
  <2>5. f \in Surjection(I, C)
    BY <2>1, <2>4, FS_Injection
  <2>6. \A k \in C : \E i \in I : f[i] = k
    BY <2>5 DEF Surjection
  <2> QED BY <2>3, <2>6 DEF C
<1> QED BY <1>1, <1>5, <1>6, <1>7 DEF R

(* At() takes the elements at the positions, and only those.                *)
LEMMA AtPositions ==
    ASSUME NEW S, NEW s \in Seq(S), NEW I \in SUBSET DOMAIN s
    PROVE  At(s, I) \in Seq(S) /\ ToSet(At(s, I)) = {s[i] : i \in I}
<1> DEFINE R(i) == Cardinality({j \in I : j <= i})
           C == 1..Cardinality(I)
           p == [k \in C |-> CHOOSE i \in I : R(i) = k]
<1>1. Len(s) \in Nat /\ DOMAIN s = 1..Len(s) /\ \A i \in DOMAIN s : s[i] \in S
  OBVIOUS
<1>2. I \in SUBSET (1..Len(s))
  BY <1>1
<1>3. /\ Cardinality(I) \in Nat
      /\ \A i \in I : R(i) \in C
      /\ \A i, j \in I : R(i) = R(j) => i = j
      /\ \A k \in C : \E i \in I : R(i) = k
  BY <1>1, <1>2, Ranks
<1>4. At(s, I) = [k \in C |-> s[p[k]]]
  BY DEF At
<1> HIDE DEF R
<1>5. \A k \in C : p[k] \in I /\ R(p[k]) = k
  BY <1>3
<1>6. \A i \in I : p[R(i)] = i
  BY <1>3, <1>5
<1> HIDE DEF p
<1>7. At(s, I) \in Seq(S)
  <2>1. \A k \in 1..Cardinality(I) : s[p[k]] \in S
    BY <1>1, <1>5
  <2> QED BY <1>3, <1>4, <2>1
<1> HIDE DEF C
<1>8. ToSet(At(s, I)) = {s[p[k]] : k \in C}
  BY <1>4 DEF ToSet
<1>9. {s[p[k]] : k \in C} = {s[i] : i \in I}
  BY <1>3, <1>5, <1>6
<1> QED BY <1>7, <1>8, <1>9

LEMMA AmongMembers ==
    ASSUME NEW S, NEW s \in Seq(S), NEW T
    PROVE  Among(s, T) \in Seq(S) /\ ToSet(Among(s, T)) = ToSet(s) \intersect T
<1> DEFINE I == {i \in DOMAIN s : s[i] \in T}
<1>1. I \in SUBSET DOMAIN s
  OBVIOUS
<1>2. At(s, I) \in Seq(S) /\ ToSet(At(s, I)) = {s[i] : i \in I}
  BY <1>1, AtPositions
<1>3. {s[i] : i \in I} = ToSet(s) \intersect T
  BY DEF ToSet
<1> QED BY <1>2, <1>3 DEF Among

-----------------------------------------------------------------------------
(* The lines that FirstUnused() and AnswerIndex() put together.             *)

(* The line that FirstUnused() takes for line i, when the earlier ones have *)
(* taken theirs.                                                            *)
Taken(fits, u, i) ==
    LET free == {j \in fits[i] : \A k \in 1..(i - 1) : u[k] # j}
    IN  IF free = {} THEN 0 ELSE Min(free)

LEMMA TakenFits ==
    ASSUME NEW fits, NEW u, NEW i, fits[i] \in SUBSET Nat
    PROVE  Taken(fits, u, i) = 0 \/ Taken(fits, u, i) \in fits[i]
<1> DEFINE free == {j \in fits[i] : \A k \in 1..(i - 1) : u[k] # j}
<1>1. Taken(fits, u, i) = IF free = {} THEN 0 ELSE Min(free)
  BY DEF Taken
<1>2. free \in SUBSET Nat /\ free \in SUBSET fits[i]
  OBVIOUS
<1> HIDE DEF free
<1>3. free # {} => \E x \in free : \A y \in free : x <= y
  BY <1>2, Least
<1>4. free # {} => Min(free) \in free
  BY <1>3 DEF Min
<1> QED BY <1>1, <1>2, <1>4

LEMMA TakenLocal ==
    ASSUME NEW fits, NEW u, NEW v, NEW i \in Nat,
           \A k \in 1..(i - 1) : u[k] = v[k]
    PROVE  Taken(fits, u, i) = Taken(fits, v, i)
<1> DEFINE A == {j \in fits[i] : \A k \in 1..(i - 1) : u[k] # j}
           B == {j \in fits[i] : \A k \in 1..(i - 1) : v[k] # j}
<1>1. A = B
  OBVIOUS
<1>2. Taken(fits, u, i) = IF A = {} THEN 0 ELSE Min(A)
  BY DEF Taken
<1>3. Taken(fits, v, i) = IF B = {} THEN 0 ELSE Min(B)
  BY DEF Taken
<1> HIDE DEF A, B
<1> QED BY <1>1, <1>2, <1>3

LEMMA TakenExists ==
    ASSUME NEW fits, NEW n \in Nat
    PROVE  \E u : u = [i \in 1..n |-> Taken(fits, u, i)]
<1> DEFINE Good(m) == \E u : u = [i \in 1..m |-> Taken(fits, u, i)]
           T == {m \in Nat : ~Good(m)}
<1>1. Good(0)
  <2> DEFINE u == [i \in 1..0 |-> 0]
  <2>1. u = [i \in 1..0 |-> Taken(fits, u, i)]
    OBVIOUS
  <2> QED BY <2>1
<1>2. ASSUME NEW m \in Nat, Good(m)
      PROVE  Good(m + 1)
  <2>1. PICK u : u = [i \in 1..m |-> Taken(fits, u, i)]
    BY <1>2
  <2> DEFINE v == [i \in 1..(m + 1) |-> IF i <= m THEN u[i] ELSE Taken(fits, u, m + 1)]
             w == [i \in 1..(m + 1) |-> Taken(fits, v, i)]
  <2>2. \A i \in 1..(m + 1) : \A k \in 1..(i - 1) : u[k] = v[k]
    OBVIOUS
  <2>3. \A i \in 1..(m + 1) : v[i] = Taken(fits, u, i)
    <3> TAKE i \in 1..(m + 1)
    <3>1. CASE i <= m
      <4>1. i \in 1..m
        BY <3>1
      <4>2. v[i] = u[i]
        BY <3>1
      <4> HIDE DEF v
      <4> QED BY <2>1, <4>1, <4>2
    <3>2. CASE ~(i <= m)
      <4>1. i = m + 1
        BY <3>2
      <4> QED BY <3>2, <4>1
    <3> QED BY <3>1, <3>2
  <2>4. DOMAIN v = 1..(m + 1)
    OBVIOUS
  <2>5. v = [i \in 1..(m + 1) |-> v[i]]
    OBVIOUS
  <2> HIDE DEF v
  <2>6. \A i \in 1..(m + 1) : Taken(fits, u, i) = Taken(fits, v, i)
    <3> TAKE i \in 1..(m + 1)
    <3>1. i \in Nat /\ \A k \in 1..(i - 1) : u[k] = v[k]
      BY <2>2
    <3> QED BY <3>1, TakenLocal
  <2>7. v = w
    BY <2>3, <2>5, <2>6
  <2> QED BY <2>7
<1> HIDE DEF Good
<1>3. T = {}
  <2> SUFFICES ASSUME T # {} PROVE FALSE
    OBVIOUS
  <2>1. T \in SUBSET Nat
    OBVIOUS
  <2>2. PICK x \in T : \A y \in T : x <= y
    BY <2>1, Least
  <2>3. x \in Nat /\ ~Good(x)
    OBVIOUS
  <2>4. x # 0
    BY <1>1, <2>3
  <2>5. x - 1 \in Nat /\ (x - 1) + 1 = x /\ ~(x <= x - 1)
    BY <2>3, <2>4
  <2>6. Good(x - 1)
    BY <2>2, <2>5
  <2> QED BY <1>2, <2>3, <2>5, <2>6
<1>4. Good(n)
  BY <1>3
<1> QED BY <1>4 DEF Good

(* FirstUnused() takes a line that fits, or none.                           *)
LEMMA FirstUnusedFits ==
    ASSUME NEW fits, NEW n \in Nat, DOMAIN fits = 1..n,
           \A i \in 1..n : fits[i] \in SUBSET Nat
    PROVE  /\ DOMAIN FirstUnused(fits) = 1..n
           /\ \A i \in 1..n : FirstUnused(fits)[i] = 0 \/ FirstUnused(fits)[i] \in fits[i]
<1> DEFINE u == FirstUnused(fits)
<1>1. u = CHOOSE u1 : u1 = [i \in DOMAIN fits |-> Taken(fits, u1, i)]
  BY Zenon DEF FirstUnused, Taken
<1>2. \E u1 : u1 = [i \in DOMAIN fits |-> Taken(fits, u1, i)]
  BY TakenExists
<1> HIDE DEF u
<1>3. u = [i \in 1..n |-> Taken(fits, u, i)]
  BY <1>1, <1>2
<1>4. DOMAIN u = 1..n /\ \A i \in 1..n : u[i] = Taken(fits, u, i)
  BY <1>3
<1>5. \A i \in 1..n : u[i] = 0 \/ u[i] \in fits[i]
  BY <1>4, TakenFits
<1> QED BY <1>4, <1>5 DEF u

(* AnswerIndex() when the answer has a line of the same type for each line  *)
(* of the offer.                                                            *)
Paired(offer, answer, f, i) ==
    LET SameType(a, j) == j > Len(answer) \/ answer[j].type = offer[a].type
    IN  IF i = 1 THEN 1
        ELSE f[i - 1] + (IF SameType(i - 1, f[i - 1]) THEN 1 ELSE 0)

LEMMA AnswerInOrder ==
    ASSUME NEW n \in Nat, NEW o, NEW a, DOMAIN o = 1..n, Len(a) = n,
           \A i \in 1..n : a[i].type = o[i].type
    PROVE  AnswerIndex(o, a) = [i \in 1..n |-> i]
<1> DEFINE x == AnswerIndex(o, a)
           d == [i \in 1..n |-> i]
<1>1. x = CHOOSE f : f = [i \in DOMAIN o |-> Paired(o, a, f, i)]
  BY Zenon DEF AnswerIndex, Paired
<1> HIDE DEF x
<1>2. \A f : \A i \in 1..n : (i = 1 \/ f[i - 1] = i - 1) => Paired(o, a, f, i) = i
  <2> SUFFICES ASSUME NEW f, NEW i \in 1..n, i = 1 \/ f[i - 1] = i - 1
               PROVE  Paired(o, a, f, i) = i
    OBVIOUS
  <2>1. CASE i = 1
    BY <2>1 DEF Paired
  <2>2. CASE i # 1
    <3>1. i - 1 \in 1..n /\ f[i - 1] = i - 1 /\ (i - 1) + 1 = i
      BY <2>2
    <3>2. a[i - 1].type = o[i - 1].type
      BY <3>1
    <3> QED BY <2>2, <3>1, <3>2 DEF Paired
  <2> QED BY <2>1, <2>2
<1>3. d = [i \in DOMAIN o |-> Paired(o, a, d, i)]
  <2>1. \A i \in 1..n : i = 1 \/ d[i - 1] = i - 1
    OBVIOUS
  <2>2. \A i \in 1..n : d[i] = i
    OBVIOUS
  <2>3. d = [i \in 1..n |-> d[i]]
    OBVIOUS
  <2> HIDE DEF d
  <2> QED BY <1>2, <2>1, <2>2, <2>3
<1>4. x = [i \in 1..n |-> Paired(o, a, x, i)]
  BY <1>1, <1>3
<1>5. \A i \in 1..n : x[i] = Paired(o, a, x, i)
  BY <1>4
<1>6. \A i \in 1..n : x[i] = i
  <2> DEFINE T == {i \in 1..n : x[i] # i}
  <2> SUFFICES ASSUME T # {} PROVE FALSE
    OBVIOUS
  <2>1. T \in SUBSET Nat
    OBVIOUS
  <2>2. PICK i \in T : \A y \in T : i <= y
    BY <2>1, Least
  <2>3. i \in 1..n /\ x[i] # i
    OBVIOUS
  <2>4. i = 1 \/ x[i - 1] = i - 1
    <3>1. i # 1 => i - 1 \in 1..n /\ ~(i <= i - 1)
      BY <2>3
    <3> QED BY <2>2, <3>1
  <2> QED BY <1>2, <1>5, <2>3, <2>4
<1>7. x = [i \in 1..n |-> x[i]]
  BY <1>4
<1> QED BY <1>6, <1>7 DEF x

-----------------------------------------------------------------------------
(* An offer and its answer.                                                 *)

LEMMA IsSequence ==
    ASSUME NEW S, NEW n \in Nat, NEW f, f = [i \in 1..n |-> f[i]],
           \A i \in 1..n : f[i] \in S
    PROVE  f \in Seq(S) /\ Len(f) = n
OBVIOUS

(* A line that is off or names a codec, and descriptions of such lines.     *)
HasCodec(m) == m.port => ToSet(m.fmt) \intersect Codec # {}
Usable == {m \in MediaLine : HasCodec(m)}

Mirrored(a, b) == Len(a) = Len(b) /\ \A i \in DOMAIN a : Mirrors(a[i], b[i])

LEMMA CommonMembers ==
    ASSUME NEW S, NEW s \in Seq(S), NEW t
    PROVE  Common(s, t) \in Seq(S) /\ ToSet(Common(s, t)) = ToSet(s) \intersect ToSet(t)
BY AmongMembers DEF Common

(* The answer names a codec if there is a common one.                       *)
LEMMA FormatsChosenType ==
    ASSUME NEW common \in Seq(Format)
    PROVE  /\ FormatsChosen(common) \in Seq(Format)
           /\ ToSet(FormatsChosen(common)) \subseteq ToSet(common)
           /\ ToSet(common) \intersect Codec # {} =>
                 ToSet(FormatsChosen(common)) \intersect Codec # {}
<1> DEFINE cs == Among(common, Codec)
           codecs == CodecsChosen(common)
           rates == {ClockRate[f] : f \in codecs}
           events == Among(common, TelephoneEvent)
           K == codecs \union {f \in TelephoneEvent : ClockRate[f] \in rates}
           kept == Among(common, K)
<1>1. cs \in Seq(Format) /\ ToSet(cs) = ToSet(common) \intersect Codec
  BY AmongMembers
<1>2. codecs = IF answer_with_multiple_codecs \/ cs = << >> THEN ToSet(cs) ELSE {Head(cs)}
  BY DEF CodecsChosen
<1> HIDE DEF cs
<1>3. cs # << >> => Head(cs) \in ToSet(cs)
  <2> SUFFICES ASSUME cs # << >> PROVE Head(cs) \in ToSet(cs)
    OBVIOUS
  <2>1. 1 \in DOMAIN cs /\ Head(cs) = cs[1]
    BY <1>1
  <2> QED BY <2>1 DEF ToSet
<1> HIDE DEF codecs
<1>4. codecs \subseteq ToSet(common) \intersect Codec
  BY <1>1, <1>2, <1>3
<1>5. cs = << >> => ToSet(cs) = {}
  BY DEF ToSet
<1>6. ToSet(common) \intersect Codec # {} => codecs # {}
  BY <1>1, <1>2, <1>5
<1> HIDE DEF rates, K
<1>7. kept \in Seq(Format) /\ ToSet(kept) = ToSet(common) \intersect K
  BY AmongMembers
<1>8. codecs \subseteq K
  BY DEF K
<1>9. events \in Seq(Format) /\ ToSet(events) = ToSet(common) \intersect TelephoneEvent
  BY AmongMembers
<1> DEFINE some == events # << >> /\ \A f \in ToSet(events) : ClockRate[f] \notin rates
<1>10. FormatsChosen(common) = IF some THEN Append(kept, Head(events)) ELSE kept
  BY DEF FormatsChosen, codecs, rates, K
<1> HIDE DEF kept, events
<1>11. CASE some
  <2>1. 1 \in DOMAIN events /\ Head(events) = events[1] /\ events[1] \in Format
    BY <1>9, <1>11
  <2>2. Head(events) \in ToSet(events)
    BY <2>1 DEF ToSet
  <2> DEFINE h == Head(events)
  <2>3. h \in Format /\ h \in ToSet(common)
    BY <1>9, <2>1, <2>2
  <2> HIDE DEF h
  <2>4. Append(kept, h) \in Seq(Format)
    BY <1>7, <2>3
  <2>5. ToSet(Append(kept, h)) = ToSet(kept) \union {h}
    <3>1. /\ DOMAIN Append(kept, h) = 1..(Len(kept) + 1)
          /\ DOMAIN kept = 1..Len(kept) /\ Len(kept) \in Nat
          /\ \A i \in 1..Len(kept) : Append(kept, h)[i] = kept[i]
          /\ Append(kept, h)[Len(kept) + 1] = h
      BY <1>7
    <3>2. \A i \in 1..(Len(kept) + 1) : i \in 1..Len(kept) \/ i = Len(kept) + 1
      BY <3>1
    <3>3. 1..Len(kept) \subseteq 1..(Len(kept) + 1) /\ Len(kept) + 1 \in 1..(Len(kept) + 1)
      BY <3>1
    <3> QED BY <3>1, <3>2, <3>3 DEF ToSet
  <2>6. FormatsChosen(common) = Append(kept, h)
    BY <1>10, <1>11 DEF h
  <2>7. \A x \in codecs : x \in ToSet(kept) /\ x \in Codec
    BY <1>4, <1>7, <1>8
  <2> QED BY <1>6, <1>7, <2>3, <2>4, <2>5, <2>6, <2>7
<1>12. CASE ~some
  BY <1>4, <1>6, <1>7, <1>8, <1>10, <1>12
<1> QED BY <1>11, <1>12

LEMMA UsableFields ==
    ASSUME NEW m \in Usable
    PROVE  /\ m = [type |-> m.type, port |-> m.port, fmt |-> m.fmt, dir |-> m.dir]
           /\ m.type \in STRING /\ m.port \in BOOLEAN /\ m.fmt \in Seq(Format)
           /\ m.dir \in Direction
           /\ m.port => ToSet(m.fmt) \intersect Codec # {}
BY DEF Usable, MediaLine, HasCodec

LEMMA MakeUsable ==
    ASSUME NEW m, m = [type |-> m.type, port |-> m.port, fmt |-> m.fmt, dir |-> m.dir],
           m.type \in STRING, m.port \in BOOLEAN, m.fmt \in Seq(Format),
           m.dir \in Direction, m.port => ToSet(m.fmt) \intersect Codec # {}
    PROVE  m \in Usable
BY DEF Usable, MediaLine, HasCodec

LEMMA WithPort ==
    ASSUME NEW m \in MediaLine, NEW b \in BOOLEAN
    PROVE  LET d == [m EXCEPT !.port = b]
           IN  d \in MediaLine /\ d.port = b /\ d.type = m.type
BY DEF MediaLine

LEMMA WithDir ==
    ASSUME NEW m \in MediaLine, NEW b \in Direction
    PROVE  LET d == [m EXCEPT !.dir = b]
           IN  d \in MediaLine /\ d.port = m.port /\ d.type = m.type
BY DEF MediaLine

LEMMA DeactivatedUsable ==
    ASSUME NEW m \in Usable
    PROVE  /\ Deactivated(m) \in Usable /\ Deactivated(m).type = m.type
           /\ Deactivated(m).port = FALSE
<1> DEFINE c == [m EXCEPT !.port = FALSE]
           d == [c EXCEPT !.dir = "sendrecv"]
<1>1. m \in MediaLine
  BY DEF Usable
<1>2. c \in MediaLine /\ c.port = FALSE /\ c.type = m.type
  BY <1>1, WithPort, Zenon
<1>3. Deactivated(m) = d
  BY Zenon DEF Deactivated
<1> HIDE DEF c
<1>4. d \in MediaLine /\ d.port = c.port /\ d.type = c.type
  BY <1>2, WithDir DEF Direction
<1> HIDE DEF d
<1> QED BY <1>2, <1>3, <1>4, Zenon DEF Usable, HasCodec

(* a is a line that may answer the line o.                                  *)
Answers(o, a) ==
    /\ a \in Usable /\ a.type = o.type
    /\ a.port => /\ o.port /\ ToSet(a.fmt) \subseteq ToSet(o.fmt)
                 /\ \E d \in Direction : a.dir = update_media_direction(o.dir, d)

LEMMA DirectionUpdated ==
    ASSUME NEW r \in Direction, NEW l \in Direction
    PROVE  /\ update_media_direction(r, l) \in Direction
           /\ LET a == update_media_direction(r, l)
              IN  /\ update_media_direction(a, r) \in Direction
                  /\ update_media_direction(a, r) = Opposite(a)
                  /\ a = Opposite(update_media_direction(a, r))
BY DEF update_media_direction, Direction, Opposite

LEMMA MatchAnswers ==
    ASSUME NEW o \in Usable, NEW l \in Usable, o.type = l.type, CanMatch(o, l)
    PROVE  Answers(o, match_offer(o, l))
<1> DEFINE a == match_offer(o, l)
<1>1. CASE ~o.port
  BY <1>1, DeactivatedUsable DEF match_offer, Answers
<1>2. CASE o.port /\ ~l.port
  <2>1. a = l
    BY <1>2 DEF match_offer
  <2> QED BY <1>2, <2>1 DEF Answers
<1>3. CASE o.port /\ l.port
  <2> DEFINE common == IF prefer_remote_codec_order THEN Common(o.fmt, l.fmt)
                       ELSE Common(l.fmt, o.fmt)
             f == FormatsChosen(common)
             d == update_media_direction(o.dir, l.dir)
  <2>1. a = [l EXCEPT !.fmt = f, !.dir = d]
    BY <1>3 DEF match_offer
  <2>2. common \in Seq(Format) /\ ToSet(common) = ToSet(o.fmt) \intersect ToSet(l.fmt)
    BY UsableFields, CommonMembers
  <2>3. ToSet(common) \intersect Codec # {}
    <3>1. /\ ToSet(o.fmt) \intersect Codec # {} /\ ToSet(l.fmt) \intersect Codec # {}
      BY <1>3, UsableFields
    <3>2. CodecsMatch(o, l)
      BY <1>3 DEF CanMatch
    <3> QED BY <2>2, <3>1, <3>2 DEF CodecsMatch
  <2> HIDE DEF common
  <2>4. f \in Seq(Format) /\ ToSet(f) \subseteq ToSet(common) /\ ToSet(f) \intersect Codec # {}
    BY <2>2, <2>3, FormatsChosenType
  <2>5. d \in Direction
    BY UsableFields, DirectionUpdated
  <2>6. \E e \in Direction : d = update_media_direction(o.dir, e)
    BY UsableFields
  <2> HIDE DEF f, d
  <2>7. a = [type |-> l.type, port |-> l.port, fmt |-> f, dir |-> d]
    <3>1. l = [type |-> l.type, port |-> l.port, fmt |-> l.fmt, dir |-> l.dir]
      BY UsableFields
    <3> HIDE DEF a
    <3> QED BY <2>1, <3>1
  <2> HIDE DEF a
  <2>8. a.type = l.type /\ a.port = l.port /\ a.fmt = f /\ a.dir = d
    BY <2>7
  <2>9. a \in Usable
    BY <2>4, <2>5, <2>7, <2>8, UsableFields, MakeUsable
  <2>10. Answers(o, a)
    BY <1>3, <2>2, <2>4, <2>6, <2>8, <2>9 DEF Answers
  <2> QED BY <2>10 DEF a
<1>4. o.port \in BOOLEAN /\ l.port \in BOOLEAN
  BY UsableFields
<1> QED BY <1>1, <1>2, <1>3, <1>4

LEMMA ProcessedMirrors ==
    ASSUME NEW o \in Usable, NEW a, Answers(o, a)
    PROVE  LET p == process_m_answer(o, a)[1]
           IN  p \in Usable /\ Mirrors(p, a) /\ Mirrors(a, p)
<1> DEFINE p == process_m_answer(o, a)[1]
           common == Common(a.fmt, o.fmt)
<1>0. a \in Usable /\ a.type = o.type /\ a.port \in BOOLEAN /\ o.port \in BOOLEAN
  BY UsableFields DEF Answers
<1>1. CASE ~a.port
  <2>1. p = Deactivated(o)
    BY <1>1 DEF process_m_answer
  <2> HIDE DEF p
  <2>2. p \in Usable /\ p.type = o.type /\ p.port = FALSE
    BY <2>1, DeactivatedUsable
  <2>3. p.port = a.port
    BY <1>0, <1>1, <2>2
  <2> QED BY <1>0, <1>1, <2>2, <2>3 DEF Mirrors, p
<1>2. CASE a.port
  <2>1. o.port /\ ToSet(a.fmt) \subseteq ToSet(o.fmt)
    BY <1>2 DEF Answers
  <2>2. PICK e \in Direction : a.dir = update_media_direction(o.dir, e)
    BY <1>2 DEF Answers
  <2> DEFINE d == update_media_direction(a.dir, o.dir)
  <2>3. d \in Direction /\ d = Opposite(a.dir) /\ a.dir = Opposite(d)
    BY <2>2, UsableFields, DirectionUpdated
  <2>4. common \in Seq(Format) /\ ToSet(common) = ToSet(a.fmt)
    <3>1. a.fmt \in Seq(Format)
      BY <1>0, UsableFields
    <3>2. common \in Seq(Format) /\ ToSet(common) = ToSet(a.fmt) \intersect ToSet(o.fmt)
      BY <3>1, CommonMembers
    <3> QED BY <2>1, <3>2
  <2>5. ToSet(a.fmt) \intersect Codec # {}
    BY <1>0, <1>2, UsableFields
  <2>6. common # << >>
    <3>1. ToSet(common) # {}
      BY <2>4, <2>5
    <3> QED BY <2>4, <3>1 DEF ToSet
  <2>7. p = [o EXCEPT !.fmt = common, !.dir = d]
    BY <1>2, <2>1, <2>6 DEF process_m_answer
  <2> HIDE DEF common, d, p
  <2>8. p = [type |-> o.type, port |-> o.port, fmt |-> common, dir |-> d]
    <3>1. o = [type |-> o.type, port |-> o.port, fmt |-> o.fmt, dir |-> o.dir]
      BY UsableFields
    <3> QED BY <2>7, <3>1
  <2>9. p.type = o.type /\ p.port = o.port /\ p.fmt = common /\ p.dir = d
    BY <2>8
  <2>10. p \in Usable
    BY <2>3, <2>4, <2>5, <2>8, <2>9, UsableFields, MakeUsable
  <2>11. p.port = a.port
    BY <1>0, <1>2, <2>1, <2>9
  <2>12. Mirrors(p, a) /\ Mirrors(a, p)
    BY <1>0, <2>3, <2>4, <2>9, <2>11 DEF Mirrors
  <2> QED BY <2>10, <2>12 DEF p
<1> QED BY <1>0, <1>1, <1>2

LEMMA CreateAnswers ==
    ASSUME NEW l \in Seq(Usable), NEW o \in Seq(Usable)
    PROVE  LET a == create_answer(l, o).media
           IN  /\ a \in Seq(Usable) /\ Len(a) = Len(o)
               /\ \A i \in 1..Len(o) : Answers(o[i], a[i])
<1> DEFINE fits == [i \in DOMAIN o |->
                      {j \in DOMAIN l : o[i].type = l[j].type /\ CanMatch(o[i], l[j])}]
           u == FirstUnused(fits)
           a == create_answer(l, o).media
           n == Len(o)
<1>1. n \in Nat /\ DOMAIN o = 1..n /\ \A i \in 1..n : o[i] \in Usable
  OBVIOUS
<1>2. DOMAIN l \in SUBSET Nat /\ (\A j \in DOMAIN l : l[j] \in Usable) /\ 0 \notin DOMAIN l
  OBVIOUS
<1>3. a = [i \in DOMAIN o |-> IF u[i] = 0 THEN Deactivated(o[i])
                              ELSE match_offer(o[i], l[u[i]])]
  BY DEF create_answer
<1>4. DOMAIN fits = 1..n /\ \A i \in 1..n : fits[i] \in SUBSET Nat
  BY <1>1, <1>2
<1>5. \A i \in 1..n : \A j \in fits[i] :
         j \in DOMAIN l /\ o[i].type = l[j].type /\ CanMatch(o[i], l[j])
  BY <1>1
<1> HIDE DEF fits, n, a
<1>6. \A i \in 1..n : u[i] = 0 \/ u[i] \in fits[i]
  BY <1>1, <1>4, FirstUnusedFits
<1> HIDE DEF u
<1>7. \A i \in 1..n : Answers(o[i], a[i])
  <2> TAKE i \in 1..n
  <2>1. CASE u[i] = 0
    <3>1. a[i] = Deactivated(o[i])
      BY <1>1, <1>3, <2>1
    <3> QED BY <1>1, <3>1, DeactivatedUsable DEF Answers
  <2>2. CASE u[i] # 0
    <3> DEFINE j == u[i]
    <3>1. j \in DOMAIN l /\ o[i].type = l[j].type /\ CanMatch(o[i], l[j])
      BY <1>5, <1>6, <2>2
    <3>2. a[i] = match_offer(o[i], l[j])
      BY <1>1, <1>3, <2>2
    <3> HIDE DEF j
    <3> QED BY <1>1, <1>2, <3>1, <3>2, MatchAnswers
  <2> QED BY <2>1, <2>2
<1>8. a = [i \in 1..n |-> a[i]]
  BY <1>1, <1>3
<1>9. \A i \in 1..n : a[i] \in Usable
  BY <1>7 DEF Answers
<1>10. a \in Seq(Usable) /\ Len(a) = n
  BY <1>1, <1>8, <1>9, IsSequence
<1> QED BY <1>7, <1>10 DEF a, n

(* Offer and answer fit: from any answer that create_answer() gives,        *)
(* process_answer() brings the offerer to the same lines as the answerer,   *)
(* with the same formats and opposite directions, and the lines that stay   *)
(* active name a codec.                                                     *)
THEOREM AnswerMirrors ==
    ASSUME NEW l \in Seq(Usable), NEW o \in Seq(Usable)
    PROVE  LET a == create_answer(l, o).media
               p == process_answer(o, a).offer
           IN  p \in Seq(Usable) /\ Mirrored(p, a) /\ Mirrored(a, p)
<1> DEFINE a == create_answer(l, o).media
           p == process_answer(o, a).offer
           n == Len(o)
           x == AnswerIndex(o, a)
           paired == {i \in DOMAIN o : /\ x[i] <= Len(a) /\ a[x[i]].type = o[i].type}
<1>1. n \in Nat /\ DOMAIN o = 1..n /\ \A i \in 1..n : o[i] \in Usable
  OBVIOUS
<1>2. a \in Seq(Usable) /\ Len(a) = n /\ \A i \in 1..n : Answers(o[i], a[i])
  BY CreateAnswers
<1> HIDE DEF a, n
<1>3. \A i \in 1..n : a[i].type = o[i].type
  BY <1>2 DEF Answers
<1>4. p = [i \in DOMAIN o |->
             IF i \in paired THEN process_m_answer(o[i], a[x[i]])[1]
             ELSE Deactivated(o[i])]
  BY DEF process_answer
<1>5. x = [i \in 1..n |-> i]
  BY <1>1, <1>2, <1>3, AnswerInOrder
<1> HIDE DEF p
<1>6. \A i \in 1..n : i \in paired /\ x[i] = i
  BY <1>1, <1>2, <1>3, <1>5
<1> HIDE DEF x, paired
<1>7. p = [i \in 1..n |-> process_m_answer(o[i], a[i])[1]]
  BY <1>1, <1>4, <1>6
<1>8. \A i \in 1..n : p[i] = process_m_answer(o[i], a[i])[1]
  BY <1>7
<1>9. \A i \in 1..n : p[i] \in Usable /\ Mirrors(p[i], a[i]) /\ Mirrors(a[i], p[i])
  BY <1>1, <1>2, <1>8, ProcessedMirrors
<1>10. p \in Seq(Usable) /\ Len(p) = n
  <2>1. p = [i \in 1..n |-> p[i]]
    BY <1>7
  <2> QED BY <1>1, <1>9, <2>1, IsSequence
<1>11. Mirrored(p, a) /\ Mirrored(a, p)
  BY <1>1, <1>2, <1>9, <1>10 DEF Mirrored
<1> QED BY <1>10, <1>11 DEF p, a

(* The offer of a description with usable lines has usable lines.           *)
LEMMA FixedUsable ==
    ASSUME NEW old \in Seq(Usable), NEW l \in Seq(Usable)
    PROVE  FixedOffer(old, l) \in Seq(Usable)
<1> DEFINE fits == [i \in DOMAIN old |-> {j \in DOMAIN l : old[i].type = l[j].type}]
           u == FirstUnused(fits)
           n == Len(old)
           a == [i \in DOMAIN old |-> IF u[i] = 0 THEN Deactivated(old[i]) ELSE l[u[i]]]
           b == At(l, DOMAIN l \ ToSet(u))
<1>1. n \in Nat /\ DOMAIN old = 1..n /\ \A i \in 1..n : old[i] \in Usable
  OBVIOUS
<1>2. DOMAIN l \in SUBSET Nat /\ (\A j \in DOMAIN l : l[j] \in Usable)
  OBVIOUS
<1>3. FixedOffer(old, l) = a \o b
  BY DEF FixedOffer
<1>4. DOMAIN fits = 1..n /\ \A i \in 1..n : fits[i] \in SUBSET Nat
  BY <1>1, <1>2
<1>5. \A i \in 1..n : fits[i] \in SUBSET DOMAIN l
  BY <1>1
<1> HIDE DEF fits, n
<1>6. \A i \in 1..n : u[i] = 0 \/ u[i] \in fits[i]
  BY <1>1, <1>4, FirstUnusedFits
<1> HIDE DEF u
<1>7. \A i \in 1..n : a[i] \in Usable
  BY <1>1, <1>2, <1>5, <1>6, DeactivatedUsable
<1>8. a \in Seq(Usable)
  <2>1. a = [i \in 1..n |-> a[i]]
    BY <1>1
  <2> HIDE DEF a
  <2> QED BY <1>1, <1>7, <2>1, IsSequence
<1>9. b \in Seq(Usable)
  <2>1. DOMAIN l \ ToSet(u) \in SUBSET DOMAIN l
    OBVIOUS
  <2> QED BY <2>1, AtPositions
<1> HIDE DEF a, b
<1> QED BY <1>3, <1>8, <1>9

-----------------------------------------------------------------------------
(* The descriptions that an exchange leaves in a negotiator.                *)

(* What the call relies on in a negotiator.                                 *)
Sound(n) ==
    /\ n.has_remote_answer = FALSE
    /\ n.active_local_sdp # NULL /\ n.active_local_sdp.media \in Seq(Usable)
    /\ n.state = "LOCAL_OFFER" =>
          n.neg_local_sdp # NULL /\ n.neg_local_sdp.media \in Seq(Usable)

LEMMA UsableNotNull ==
    ASSUME NEW m \in Seq(Usable)
    PROVE  m # NULL /\ \A p \in {0, 1, 2} : In(p, m) # NULL
<1>1. m \in Seq(MediaLine)
  <2>1. \A i \in 1..Len(m) : m[i] \in MediaLine
    BY DEF Usable
  <2>2. Len(m) \in Nat /\ m = [i \in 1..Len(m) |-> m[i]]
    OBVIOUS
  <2> QED BY <2>1, <2>2
<1>2. \A p \in {0, 1, 2} : In(p, m) \in [media : Seq(MediaLine), pool : 0..Freed]
  BY <1>1 DEF In, Freed
<1> QED BY <1>1, <1>2, NullAssumption

LEMMA InFields ==
    ASSUME NEW p, NEW m
    PROVE  In(p, m).media = m /\ In(p, m).pool = p
BY DEF In

LEMMA ModifiedFields ==
    ASSUME NEW n, NEW P, Resting(n, P), Sound(n), NEW p \in {1, 2}, NEW l \in Seq(Usable)
    PROVE  LET u == modify_local_offer(n, p, l)
           IN  /\ Sound(u) /\ u.state = "LOCAL_OFFER"
               /\ u.active_local_sdp = n.active_local_sdp
               /\ Body(u.neg_local_sdp) = u.neg_local_sdp.media
<1> DEFINE w == FixedOffer(n.active_local_sdp.media, l)
           new == In(p, w)
           u == modify_local_offer(n, p, l)
<1>1. w \in Seq(Usable)
  BY FixedUsable DEF Sound
<1>2. new.media = w
  BY InFields
<1>3. new # NULL
  BY <1>1, UsableNotNull
<1>4. u = [n EXCEPT !.state = "LOCAL_OFFER", !.initial_sdp_tmp = n.initial_sdp,
                    !.initial_sdp = new, !.neg_local_sdp = new]
  BY DEF modify_local_offer
<1> HIDE DEF new, w, u
<1>5. /\ u.state = "LOCAL_OFFER" /\ u.active_local_sdp = n.active_local_sdp
      /\ u.neg_local_sdp = new /\ u.has_remote_answer = n.has_remote_answer
  BY <1>4 DEF Resting, IsNeg
<1>6. Sound(u)
  BY <1>1, <1>2, <1>3, <1>5 DEF Sound
<1> QED BY <1>3, <1>5, <1>6 DEF Body, u

LEMMA SentFields ==
    ASSUME NEW n, NEW P, Resting(n, P), Sound(n), NEW p \in {1, 2}
    PROVE  LET u == send_local_offer(n, p)
           IN  /\ Sound(u) /\ u.state = "LOCAL_OFFER"
               /\ u.active_local_sdp = n.active_local_sdp
               /\ Body(u.neg_local_sdp) = u.neg_local_sdp.media
<1> DEFINE w == n.active_local_sdp.media
           new == In(p, w)
           i == IF n.initial_sdp = NULL THEN NULL ELSE In(p, n.initial_sdp.media)
           t == IF n.initial_sdp = NULL THEN n.initial_sdp_tmp ELSE n.initial_sdp
           u == send_local_offer(n, p)
<1>1. w \in Seq(Usable)
  BY DEF Sound
<1>2. new.media = w
  BY InFields
<1>3. new # NULL
  BY <1>1, UsableNotNull
<1>4. u = [n EXCEPT !.state = "LOCAL_OFFER", !.initial_sdp_tmp = t,
                    !.initial_sdp = i, !.neg_local_sdp = new]
  BY DEF send_local_offer
<1> HIDE DEF new, w, u, i, t
<1>5. /\ u.state = "LOCAL_OFFER" /\ u.active_local_sdp = n.active_local_sdp
      /\ u.neg_local_sdp = new /\ u.has_remote_answer = n.has_remote_answer
  BY <1>4 DEF Resting, IsNeg
<1>6. Sound(u)
  BY <1>1, <1>2, <1>3, <1>5 DEF Sound
<1> QED BY <1>3, <1>5, <1>6 DEF Body, u

LEMMA InvitedFields ==
    ASSUME NEW n, NEW P, Resting(n, P), Sound(n), NEW p, NEW m
    PROVE  LET u == set_remote_offer(n, p, m)
           IN  /\ Sound(u) /\ u.state = "REMOTE_OFFER"
               /\ u.active_local_sdp = n.active_local_sdp
               /\ u.neg_remote_sdp.media = m
<1> DEFINE r == In(p, m)
           u == set_remote_offer(n, p, m)
<1>1. u = [n EXCEPT !.state = "REMOTE_OFFER", !.neg_remote_sdp = r]
  BY DEF set_remote_offer
<1>2. r.media = m
  BY InFields
<1> HIDE DEF r, u
<1>3. /\ u.state = "REMOTE_OFFER" /\ u.active_local_sdp = n.active_local_sdp
      /\ u.neg_remote_sdp = r /\ u.has_remote_answer = n.has_remote_answer
  BY <1>1 DEF Resting, IsNeg
<1>4. Sound(u)
  BY <1>3 DEF Sound
<1> QED BY <1>2, <1>3, <1>4 DEF u

LEMMA ClearedFields ==
    ASSUME NEW n, IsNeg(n)
    PROVE  LET u == Cleared(n)
           IN  /\ u.state = "DONE" /\ u.has_remote_answer = FALSE
               /\ u.active_local_sdp = n.active_local_sdp
BY DEF Cleared, IsNeg

LEMMA CancelledFields ==
    ASSUME NEW n, NEW P, NEW Q, Offering(n, P, Q) \/ Invited(n, P, Q), Sound(n)
    PROVE  LET u == cancel_offer(n)
           IN  Sound(u) /\ u.state = "DONE" /\ u.active_local_sdp = n.active_local_sdp
<1> DEFINE v == IF n.state = "LOCAL_OFFER" THEN [n EXCEPT !.initial_sdp = n.initial_sdp_tmp]
                ELSE n
           u == cancel_offer(n)
<1>1. u = Cleared(v)
  BY DEF cancel_offer
<1>2. IsNeg(n)
  BY DEF Offering, Invited
<1>3. IsNeg(v) /\ v.active_local_sdp = n.active_local_sdp
  BY <1>2 DEF IsNeg
<1> HIDE DEF v, u
<1>4. u.state = "DONE" /\ u.has_remote_answer = FALSE /\ u.active_local_sdp = v.active_local_sdp
  BY <1>1, <1>3, ClearedFields
<1> QED BY <1>3, <1>4 DEF Sound, u

LEMMA NegotiatedFields ==
    ASSUME NEW n, NEW P, NEW Q, Ready(n, P, Q), NEW o
    PROVE  LET u == negotiate(n, o)
           IN  /\ u.state = "DONE" /\ u.has_remote_answer = FALSE
               /\ u.active_local_sdp = IF o.ok THEN o.local ELSE n.active_local_sdp
<1>0. IsNeg(n)
  BY DEF Ready
<1>1. CASE o.ok
  <2> DEFINE x == o.local
             y == o.remote
             w == [n EXCEPT !.active_local_sdp = x]
             v == [w EXCEPT !.active_remote_sdp = y]
  <2>1. negotiate(n, o) = Cleared(v)
    BY <1>1 DEF negotiate
  <2> HIDE DEF x, y
  <2>a. IsNeg(w) /\ w.active_local_sdp = x
    BY <1>0 DEF IsNeg
  <2> HIDE DEF w
  <2>2. IsNeg(v) /\ v.active_local_sdp = x
    BY <2>a DEF IsNeg
  <2> HIDE DEF v
  <2> QED BY <1>1, <2>1, <2>2, ClearedFields DEF x
<1>2. CASE ~o.ok
  <2> DEFINE v == [n EXCEPT !.initial_sdp = n.initial_sdp_tmp]
  <2>1. negotiate(n, o) = Cleared(v)
    BY <1>2 DEF negotiate
  <2>2. IsNeg(v) /\ v.active_local_sdp = n.active_local_sdp
    BY <1>0 DEF IsNeg
  <2> HIDE DEF v
  <2> QED BY <1>2, <2>1, <2>2, ClearedFields
<1> QED BY <1>1, <1>2

(* inv_negotiate_sdp() resets a pool that the negotiator is not in.         *)
LEMMA NegotiateKeeps ==
    ASSUME NEW s \in Side, prov(s) \in {1, 2}, NEW n,
           Ready(n, {0, 3 - prov(s)}, {prov(s)})
    PROVE  LET r == inv_negotiate_sdp(s, n)
           IN  /\ r.neg = negotiate(n, Outcome(n, prov(s)))
               /\ r.ok = Outcome(n, prov(s)).ok
<1> DEFINE p == prov(s)
           o == Outcome(n, p)
           next == IF o.ok THEN 3 - p ELSE p
           m == negotiate(n, o)
           r == inv_negotiate_sdp(s, n)
<1>1. r.neg = AfterReset(m, next) /\ r.ok = o.ok
  BY DEF inv_negotiate_sdp
<1>2. p \in {1, 2}
  OBVIOUS
<1>3. Resting(m, IF o.ok THEN {p} ELSE {0, 3 - p})
  BY NegotiateRests
<1> HIDE DEF p, o, m, r
<1>4. next \notin IF o.ok THEN {p} ELSE {0, 3 - p}
  BY <1>2
<1> HIDE DEF next
<1>5. AfterReset(m, next) = m
  BY <1>3, <1>4, ResetKeeps
<1> QED BY <1>1, <1>5 DEF r, m, o, p

(* What the answerer comes to ...                                           *)
LEMMA OurAnswerFields ==
    ASSUME NEW s \in Side, prov(s) \in {1, 2}, NEW n, Sound(n),
           Invited(n, {0, 3 - prov(s)}, {prov(s)}), n.neg_remote_sdp.media \in Seq(Usable),
           Local[s] \subseteq Seq(Usable),
           NEW r \in OurAnswers(s, n)
    PROVE  /\ Sound(r.neg) /\ r.neg.state = "DONE"
           /\ r.ok => /\ AnswerOf(r) = r.neg.active_local_sdp.media
                      /\ \E l \in Local[s] :
                            AnswerOf(r) = create_answer(l, n.neg_remote_sdp.media).media
           /\ ~r.ok => AnswerOf(r) = NULL /\ r.neg.active_local_sdp = n.active_local_sdp
<1>1. PICK l \in Local[s] : r = inv_negotiate_sdp(s, set_local_answer(n, prov(s), l))
  BY DEF OurAnswers
<1> DEFINE p == prov(s)
           a == set_local_answer(n, p, l)
           o == Outcome(a, p)
           c == create_answer(l, n.neg_remote_sdp.media)
<1>2. Ready(a, {0, 3 - p}, {p})
  BY LocalAnswers
<1>3. /\ a.has_remote_answer = FALSE /\ a.neg_local_sdp = In(p, l)
      /\ a.neg_remote_sdp = n.neg_remote_sdp /\ a.active_local_sdp = n.active_local_sdp
  <2>1. IsNeg(n)
    BY DEF Invited
  <2> QED BY <2>1, LocalAnswerSet DEF Sound
<1>4. r = inv_negotiate_sdp(s, a) /\ p \in {1, 2}
  BY <1>1
<1> HIDE DEF a
<1>5. r.neg = negotiate(a, o) /\ r.ok = o.ok
  BY <1>2, <1>4, NegotiateKeeps
<1>6. In(p, l).media = l
  BY InFields
<1>7. o.ok = c.ok /\ o.local = In(p, c.media)
  BY <1>3, <1>6 DEF Outcome
<1> HIDE DEF o
<1>8. /\ r.neg.state = "DONE" /\ r.neg.has_remote_answer = FALSE
      /\ r.neg.active_local_sdp = IF r.ok THEN o.local ELSE a.active_local_sdp
  <2> DEFINE u == negotiate(a, o)
  <2>1. /\ u.state = "DONE" /\ u.has_remote_answer = FALSE
        /\ u.active_local_sdp = IF o.ok THEN o.local ELSE a.active_local_sdp
    BY <1>2, NegotiatedFields
  <2> HIDE DEF u
  <2>2. r.neg = u
    BY <1>5 DEF u
  <2> QED BY <1>5, <2>1, <2>2
<1>9. c.media \in Seq(Usable)
  BY CreateAnswers
<1> DEFINE e == c.media
<1>10. e = create_answer(l, n.neg_remote_sdp.media).media
  OBVIOUS
<1> HIDE DEF c, e
<1>11. In(p, e).media = e /\ In(p, e) # NULL
  BY <1>4, <1>9, InFields, UsableNotNull DEF e
<1>12. CASE r.ok
  <2>1. r.neg.active_local_sdp = In(p, e)
    BY <1>7, <1>8, <1>12 DEF e
  <2>2. AnswerOf(r) = e
    BY <1>11, <1>12, <2>1 DEF AnswerOf, Body
  <2>3. Sound(r.neg)
    BY <1>8, <1>9, <1>11, <2>1 DEF Sound, e
  <2>4. \E l1 \in Local[s] : AnswerOf(r) = create_answer(l1, n.neg_remote_sdp.media).media
    BY <1>10, <2>2
  <2> QED BY <1>8, <1>11, <1>12, <2>1, <2>2, <2>3, <2>4
<1>13. CASE ~r.ok
  <2>1. r.neg.active_local_sdp = n.active_local_sdp
    BY <1>3, <1>8, <1>13
  <2>2. Sound(r.neg)
    BY <1>8, <2>1 DEF Sound
  <2> QED BY <1>8, <1>13, <2>1, <2>2 DEF AnswerOf
<1> QED BY <1>12, <1>13

(* ... and the offerer.                                                     *)
LEMMA TheirAnswerFields ==
    ASSUME NEW s \in Side, prov(s) \in {1, 2}, NEW n, Sound(n),
           Offering(n, {0, 3 - prov(s)}, {prov(s)}),
           NEW x, process_answer(n.neg_local_sdp.media, x).offer \in Seq(Usable)
    PROVE  LET r == inv_negotiate_sdp(s, set_remote_answer(n, prov(s), x))
           IN  /\ Sound(r.neg) /\ r.neg.state = "DONE"
               /\ r.ok => r.neg.active_local_sdp.media =
                             process_answer(n.neg_local_sdp.media, x).offer
               /\ ~r.ok => r.neg.active_local_sdp = n.active_local_sdp
<1> DEFINE p == prov(s)
           a == set_remote_answer(n, p, x)
           o == Outcome(a, p)
           c == process_answer(n.neg_local_sdp.media, x)
           r == inv_negotiate_sdp(s, a)
           e == c.offer
<1>0. p \in {1, 2}
  OBVIOUS
<1>1. Ready(a, {0, 3 - p}, {p})
  BY RemoteAnswers
<1>2. /\ a.has_remote_answer = TRUE /\ a.neg_local_sdp = n.neg_local_sdp
      /\ a.neg_remote_sdp = In(p, x) /\ a.active_local_sdp = n.active_local_sdp
  <2>1. IsNeg(n)
    BY DEF Offering
  <2> DEFINE y == In(p, x)
  <2>2. a = [n EXCEPT !.state = "WAIT_NEGO", !.has_remote_answer = TRUE,
                    !.neg_remote_sdp = y]
    BY DEF set_remote_answer
  <2> HIDE DEF a, y
  <2>3. /\ a.has_remote_answer = TRUE /\ a.neg_local_sdp = n.neg_local_sdp
        /\ a.neg_remote_sdp = y /\ a.active_local_sdp = n.active_local_sdp
    BY <2>1, <2>2 DEF IsNeg
  <2> QED BY <2>3 DEF y
<1> HIDE DEF a
<1>3. r.neg = negotiate(a, o) /\ r.ok = o.ok
  BY <1>0, <1>1, NegotiateKeeps
<1>4. In(p, x).media = x
  BY InFields
<1>5. o.ok = c.ok /\ o.local = [n.neg_local_sdp EXCEPT !.media = c.offer]
  BY <1>2, <1>4 DEF Outcome
<1>6. e \in Seq(Usable)
  OBVIOUS
<1>7. n.neg_local_sdp = In(p, n.neg_local_sdp.media)
  BY DEF Offering, Sdp
<1> HIDE DEF o, r
<1>8. /\ r.neg.state = "DONE" /\ r.neg.has_remote_answer = FALSE
      /\ r.neg.active_local_sdp = IF r.ok THEN o.local ELSE a.active_local_sdp
  <2> DEFINE u == negotiate(a, o)
  <2>1. /\ u.state = "DONE" /\ u.has_remote_answer = FALSE
        /\ u.active_local_sdp = IF o.ok THEN o.local ELSE a.active_local_sdp
    BY <1>1, NegotiatedFields
  <2> HIDE DEF u
  <2>2. r.neg = u
    BY <1>3 DEF u
  <2> QED BY <1>3, <2>1, <2>2
<1>9. o.local = [n.neg_local_sdp EXCEPT !.media = e]
  BY <1>5
<1> HIDE DEF e, c
<1>10. o.local = In(p, e)
  BY <1>7, <1>9 DEF In
<1>11. In(p, e).media = e /\ In(p, e) # NULL
  BY <1>0, <1>6, InFields, UsableNotNull
<1>12. CASE r.ok
  <2>1. r.neg.active_local_sdp = In(p, e)
    BY <1>8, <1>10, <1>12
  <2>2. Sound(r.neg)
    BY <1>6, <1>8, <1>11, <2>1 DEF Sound
  <2> QED BY <1>8, <1>11, <1>12, <2>1, <2>2 DEF e, c, r, a
<1>13. CASE ~r.ok
  <2>1. r.neg.active_local_sdp = n.active_local_sdp
    BY <1>2, <1>8, <1>13
  <2>2. Sound(r.neg)
    BY <1>8, <2>1 DEF Sound
  <2> QED BY <1>8, <1>13, <2>1, <2>2 DEF r, a
<1> QED BY <1>12, <1>13
-----------------------------------------------------------------------------
(* The invariant of a call: at most one exchange is open in each direction, *)
(* and what is on its way belongs to it.                                    *)

Active(s) == neg[s].active_local_sdp.media
OfferOf(s) == neg[s].neg_local_sdp.media
Offers(s) == neg[s].state = "LOCAL_OFFER"

(* The client p of a transaction: the request or response of one that is    *)
(* not finished, and its state at both ends.                                *)
Opens(m, p) == m.type # "ACK" /\ (m.from = p <=> m.type = "request")
Calling(p) == invite_tsx[p] # NULL /\ invite_tsx[p].role = "UAC"
Serving(q, state) ==
    invite_tsx[q] # NULL /\ invite_tsx[q].role = "UAS" /\ invite_tsx[q].state = state
WaitsForAck(q, c) == Offers(q) /\ Serving(q, "accepted") /\ invite_tsx[q].cseq = c

(* b answers the offer of p, and q uses it already.                         *)
IsAnswer(p, q, b) ==
    /\ Offers(p) /\ Active(q) = b
    /\ \E l \in Local[q] : b = create_answer(l, OfferOf(p)).media

(* m carries an answer to p.                                                *)
AnswerTo(m, p) ==
    m.from # p /\ m.sdp # NULL /\ (m.type = "ACK" \/ (m.type = "ok" /\ Offers(p)))

(* The types. Every description in a message has usable lines only.         *)
MessageOK(m) ==
    /\ m.type \in {"request", "ok", "fail", "ACK"} /\ m.method \in {"INVITE", "UPDATE"}
    /\ m.from \in Side /\ m.cseq \in Nat
    /\ m.sdp = NULL \/ m.sdp \in Seq(Usable)
    /\ m.type = "ACK" => m.method = "INVITE"

TsxType ==
    [role : {"UAC"}, cseq : Nat, state : {"calling"}]
    \union [role : {"UAS"}, cseq : Nat, state : {"trying", "accepted", "completed"}]

Types ==
    /\ DOMAIN neg = Side /\ DOMAIN invite_tsx = Side /\ DOMAIN local_cseq = Side
    /\ \A s \in Side : /\ Sound(neg[s]) /\ local_cseq[s] \in Nat
                       /\ invite_tsx[s] = NULL \/ invite_tsx[s] \in TsxType
    /\ \A m \in net : MessageOK(m)

(* One request of p is on its way, or one response to it.                   *)
OpenOnce(p) == \A m, k \in net : Opens(m, p) /\ Opens(k, p) => m = k

(* It belongs to the present transaction of p and carries the offer of p,   *)
(* the answer of q to it, or the offer of q in the 2xx to a request without *)
(* one. Meanwhile p waits for no ACK and q has deferred nothing.            *)
OpenFor(p, q) ==
    \A m \in net : Opens(m, p) =>
        /\ m.cseq = local_cseq[p]
        /\ m.method = "INVITE" => Calling(p)
        /\ m.method = "UPDATE" => Offers(p) /\ (m.type # "fail" => m.sdp # NULL)
        /\ ~Serving(p, "accepted") /\ ~Serving(q, "trying")
        /\ m.type = "request" =>
              IF m.sdp = NULL THEN neg[p].state = "DONE"
              ELSE Offers(p) /\ m.sdp = OfferOf(p)
        /\ m.type = "ok" =>
              /\ m.sdp # NULL
              /\ IF Offers(p) THEN IsAnswer(p, q, m.sdp)
                 ELSE /\ neg[p].state = "DONE" /\ WaitsForAck(q, m.cseq)
                      /\ m.sdp = OfferOf(q)

(* An ACK with a description answers the offer that q made in its 2xx.      *)
AckOnce(p) ==
    \A m, k \in net : /\ m.type = "ACK" /\ k.type = "ACK" /\ m.from = p /\ k.from = p
                      /\ m.cseq = k.cseq
                      => m = k

AckFor(p, q) ==
    \A m \in net : m.type = "ACK" /\ m.from = p =>
        /\ m.cseq <= local_cseq[p] /\ (Calling(p) => m.cseq < local_cseq[p])
        /\ m.sdp # NULL => WaitsForAck(q, m.cseq) /\ IsAnswer(q, p, m.sdp)

(* The re-INVITE that q has deferred is the present one of p; its offer is  *)
(* with the negotiator of q unless an answer to it failed.                  *)
DeferredFor(p, q) ==
    Serving(q, "trying") =>
        /\ Calling(p) /\ invite_tsx[q].cseq = local_cseq[p] /\ Offers(p)
        /\ neg[q].state \in {"DONE", "REMOTE_OFFER"}
        /\ neg[q].state = "REMOTE_OFFER" => neg[q].neg_remote_sdp.media = OfferOf(p)

(* While p has created a request, or could not send its offer, nothing of p *)
(* is open. The offer is with the negotiator; p serves no exchange then.    *)
Held(p) ==
    /\ tdata[p] # NULL /\ tdata[p].sdp = NULL =>
          /\ tdata[p].method = "INVITE"
          /\ \/ neg[p].state = "DONE" \/ Serving(p, "trying")
             \/ Offers(p) /\ Serving(p, "accepted")
    /\ tdata[p] # NULL /\ tdata[p].sdp # NULL => tdata[p].sdp = OfferOf(p)
    /\ (tdata[p] # NULL /\ tdata[p].sdp # NULL) \/ p \in unsent =>
          Offers(p) /\ ~Serving(p, "accepted") /\ ~Serving(p, "trying")
    /\ tdata[p] # NULL \/ p \in unsent => ~Calling(p) /\ \A m \in net : ~Opens(m, p)
    /\ tdata[p] = NULL \/ p \notin unsent

Half(p, q) ==
    /\ OpenOnce(p) /\ OpenFor(p, q) /\ AckOnce(p) /\ AckFor(p, q) /\ DeferredFor(p, q)
    /\ Held(p)

(* One answer is on its way at most, in the whole call ...                  *)
AnswerOnce ==
    \A p, q \in Side, m, k \in net : AnswerTo(m, p) /\ AnswerTo(k, q) => m = k

(* ... and only while there is one do the ends use different media.         *)
Matched ==
    \/ failed
    \/ \E p \in Side, m \in net : AnswerTo(m, p)
    \/ \A p, q \in Side : p # q => Mirrored(Active(p), Active(q))

(* Only s moves, and its state keeps its types.                             *)
Moves(s, t) ==
    /\ DOMAIN neg' = Side /\ DOMAIN invite_tsx' = Side /\ DOMAIN local_cseq' = Side
    /\ neg'[t] = neg[t] /\ invite_tsx'[t] = invite_tsx[t] /\ local_cseq'[t] = local_cseq[t]
    /\ Sound(neg'[s]) /\ local_cseq'[s] \in Nat
    /\ invite_tsx'[s] = NULL \/ invite_tsx'[s] \in TsxType
    /\ \A m \in net' : m \in net \/ MessageOK(m)

CallInv ==
    /\ Types
    /\ DOMAIN tdata = Side
    /\ \A p, q \in Side : p # q => Half(p, q)
    /\ AnswerOnce
    /\ Matched

(* What the invariant says of the two ends.                                 *)
LEMMA BothWays ==
    ASSUME NEW s \in Side, NEW t \in Side, s # t, Side = {s, t}, CallInv
    PROVE  /\ OpenOnce(s) /\ OpenFor(s, t) /\ AckOnce(s) /\ AckFor(s, t) /\ DeferredFor(s, t)
           /\ OpenOnce(t) /\ OpenFor(t, s) /\ AckOnce(t) /\ AckFor(t, s) /\ DeferredFor(t, s)
           /\ AnswerOnce /\ Matched /\ Held(s) /\ Held(t)
           /\ \A m \in net : MessageOK(m)
           /\ local_cseq[s] \in Nat /\ local_cseq[t] \in Nat
           /\ invite_tsx[s] = NULL \/ invite_tsx[s] \in TsxType
           /\ invite_tsx[t] = NULL \/ invite_tsx[t] \in TsxType
           /\ Sound(neg[s]) /\ Sound(neg[t])
BY DEF CallInv, Half, Types

(* The same for a step of s, with what it leaves alone.                     *)
Beside(s, t) ==
    /\ OpenOnce(s) /\ OpenFor(s, t) /\ AckOnce(s) /\ AckFor(s, t) /\ DeferredFor(s, t)
    /\ OpenOnce(t) /\ OpenFor(t, s) /\ AckOnce(t) /\ AckFor(t, s) /\ DeferredFor(t, s)
    /\ AnswerOnce /\ Matched /\ Held(s) /\ Held(t)
    /\ neg'[t] = neg[t] /\ invite_tsx'[t] = invite_tsx[t] /\ local_cseq'[t] = local_cseq[t]
    /\ local_cseq[s] \in Nat /\ local_cseq[t] \in Nat
    /\ \A x \in net : /\ x.cseq \in Nat /\ x.from \in Side
                      /\ x.type \in {"request", "ok", "fail", "ACK"}
                      /\ x.method \in {"INVITE", "UPDATE"}

LEMMA Around ==
    ASSUME NEW s \in Side, NEW t \in Side, s # t, Side = {s, t}, CallInv, Moves(s, t)
    PROVE  Beside(s, t)
<1>1. Half(s, t) /\ Half(t, s) /\ Types /\ AnswerOnce /\ Matched
  BY DEF CallInv
<1>2. /\ local_cseq[s] \in Nat /\ local_cseq[t] \in Nat
      /\ \A x \in net : /\ x.cseq \in Nat /\ x.from \in Side
                        /\ x.type \in {"request", "ok", "fail", "ACK"}
                        /\ x.method \in {"INVITE", "UPDATE"}
  BY <1>1 DEF Types, MessageOK
<1> QED BY <1>1, <1>2 DEF Half, Beside, Moves

(* A step keeps the types.                                                  *)
LEMMA MovedTypes ==
    ASSUME NEW s \in Side, NEW t \in Side, s # t, Side = {s, t}, CallInv, Moves(s, t)
    PROVE  Types'
BY DEF CallInv, Types, Moves

(* s creates a request, which may open an offer, or drops it.                *)
LEMMA CreateStep ==
    ASSUME NEW s \in Side, NEW t \in Side, s # t, Side = {s, t}, CallInv, Moves(s, t),
           failed' = failed, net' = net, local_cseq'[s] = local_cseq[s],
           invite_tsx'[s] = invite_tsx[s], Active(s)' = Active(s),
           \/ neg'[s] = neg[s]
           \/ /\ neg[s].state = "DONE" /\ invite_tsx[s] = NULL
              /\ \A m \in net : ~Opens(m, s)
              /\ neg'[s].state = "LOCAL_OFFER",
           DOMAIN tdata' = Side, tdata'[t] = tdata[t], t \in unsent' <=> t \in unsent,
           Held(s)'
    PROVE  CallInv'
<1>1. Types'
  BY MovedTypes
<1>2. Beside(s, t)
  BY Around
<1> USE DEF Opens, Serving, Calling, WaitsForAck, IsAnswer, AnswerTo, Offers, OfferOf,
            Active, Beside
<1>3. OpenOnce(s)'
  BY <1>2 DEF OpenOnce, OpenFor, DeferredFor
<1>4. OpenFor(s, t)'
  BY <1>2 DEF OpenOnce, OpenFor, AckOnce, AckFor, DeferredFor, AnswerOnce
<1>5. AckOnce(s)'
  BY <1>2 DEF AckOnce, AckFor, OpenFor, OpenOnce
<1>6. AckFor(s, t)'
  BY <1>2 DEF OpenOnce, OpenFor, AckOnce, AckFor, DeferredFor, AnswerOnce
<1>7. DeferredFor(s, t)'
  BY <1>2 DEF OpenOnce, OpenFor, AckFor, DeferredFor
<1>8. OpenOnce(t)'
  BY <1>2 DEF OpenOnce, OpenFor, DeferredFor
<1>9. OpenFor(t, s)'
  BY <1>2 DEF OpenOnce, OpenFor, AckOnce, AckFor, DeferredFor, AnswerOnce
<1>10. AckOnce(t)'
  BY <1>2 DEF AckOnce, AckFor, OpenFor, OpenOnce
<1>11. AckFor(t, s)'
  BY <1>2 DEF OpenOnce, OpenFor, AckOnce, AckFor, DeferredFor, AnswerOnce
<1>12. DeferredFor(t, s)'
  BY <1>2 DEF OpenOnce, OpenFor, AckFor, DeferredFor
<1>13. AnswerOnce'
  BY <1>2 DEF AnswerOnce, OpenOnce, OpenFor, AckFor, DeferredFor
<1>14. Matched'
  BY <1>2 DEF Matched, Moves
<1>16. Held(t)'
  BY <1>2 DEF Held, OpenFor, AckFor, DeferredFor
<1> QED BY <1>1, <1>3, <1>4, <1>5, <1>6, <1>7, <1>8, <1>9, <1>10, <1>11, <1>12, <1>13,
           <1>14, <1>16 DEF CallInv, Half

(* s sends it, with or without an offer.                                     *)
LEMMA StartStep ==
    ASSUME NEW s \in Side, NEW t \in Side, s # t, Side = {s, t}, CallInv, Moves(s, t),
           failed' = failed,
           NEW k, net' = net \union {k},
           k.type = "request", k.from = s, k.cseq = local_cseq[s] + 1,
           local_cseq'[s] = local_cseq[s] + 1, neg'[s] = neg[s],
           tdata[s] # NULL, k.sdp = tdata[s].sdp, k.method = tdata[s].method,
           DOMAIN tdata' = Side, tdata'[s] = NULL, tdata'[t] = tdata[t], unsent' = unsent,
           IF k.method = "INVITE" THEN invite_tsx[s] = NULL /\ Calling(s)'
           ELSE k.method = "UPDATE" /\ invite_tsx'[s] = invite_tsx[s]
    PROVE  CallInv'
<1>1. Types'
  BY MovedTypes
<1>2. Beside(s, t)
  BY Around
<1> USE DEF Opens, Serving, Calling, WaitsForAck, IsAnswer, AnswerTo, Offers, OfferOf,
            Active, Beside
<1>3. OpenOnce(s)'
  BY <1>2 DEF Held, OpenOnce, OpenFor, DeferredFor
<1>4. OpenFor(s, t)'
  BY <1>2 DEF Held, OpenOnce, OpenFor, AckOnce, AckFor, DeferredFor, AnswerOnce
<1>5. AckOnce(s)'
  BY <1>2 DEF Held, AckOnce, AckFor, OpenFor, OpenOnce
<1>6. AckFor(s, t)'
  BY <1>2 DEF Held, OpenOnce, OpenFor, AckOnce, AckFor, DeferredFor, AnswerOnce
<1>7. DeferredFor(s, t)'
  BY <1>2 DEF Held, OpenOnce, OpenFor, AckFor, DeferredFor
<1>8. OpenOnce(t)'
  BY <1>2 DEF Held, OpenOnce, OpenFor, DeferredFor
<1>9. OpenFor(t, s)'
  BY <1>2 DEF Held, OpenOnce, OpenFor, AckOnce, AckFor, DeferredFor, AnswerOnce
<1>10. AckOnce(t)'
  BY <1>2 DEF Held, AckOnce, AckFor, OpenFor, OpenOnce
<1>11. AckFor(t, s)'
  BY <1>2 DEF Held, OpenOnce, OpenFor, AckOnce, AckFor, DeferredFor, AnswerOnce
<1>12. DeferredFor(t, s)'
  BY <1>2 DEF Held, OpenOnce, OpenFor, AckFor, DeferredFor
<1>13. AnswerOnce'
  BY <1>2 DEF Held, AnswerOnce, OpenOnce, OpenFor, AckFor, DeferredFor
<1>14. Matched'
  BY <1>2 DEF Matched, Moves
<1>15. Held(s)'
  BY <1>2 DEF Held, OpenFor, AckFor, DeferredFor
<1>16. Held(t)'
  BY <1>2 DEF Held, OpenFor, AckFor, DeferredFor
<1> QED BY <1>1, <1>3, <1>4, <1>5, <1>6, <1>7, <1>8, <1>9, <1>10, <1>11, <1>12, <1>13,
           <1>14, <1>15, <1>16 DEF CallInv, Half

(* s rejects a request.                                                      *)
LEMMA RejectStep ==
    ASSUME NEW s \in Side, NEW t \in Side, s # t, Side = {s, t}, CallInv, Moves(s, t),
           tdata' = tdata, unsent' = unsent,
           failed' = failed, local_cseq'[s] = local_cseq[s],
           NEW m \in net, m.type = "request", m.from = t,
           NEW k, net' = (net \ {m}) \union {k},
           k.type = "fail", k.from = s, k.method = m.method, k.cseq = m.cseq,
           k.sdp = NULL,
           neg'[s].state = neg[s].state, Active(s)' = Active(s),
           neg'[s] = neg[s] \/ neg[s].state = "DONE",
           \/ invite_tsx'[s] = invite_tsx[s]
           \/ /\ invite_tsx[s] = NULL /\ invite_tsx'[s] # NULL
              /\ invite_tsx'[s].role = "UAS" /\ invite_tsx'[s].state = "completed"
    PROVE  CallInv'
<1>1. Types'
  BY MovedTypes
<1>2. Beside(s, t)
  BY Around
<1> USE DEF Opens, Serving, Calling, WaitsForAck, IsAnswer, AnswerTo, Offers, OfferOf,
            Active, Beside
<1>3. OpenOnce(s)'
  BY <1>2 DEF OpenOnce, OpenFor, DeferredFor
<1>4. OpenFor(s, t)'
  BY <1>2 DEF OpenOnce, OpenFor, AckOnce, AckFor, DeferredFor, AnswerOnce
<1>5. AckOnce(s)'
  BY <1>2 DEF AckOnce, AckFor, OpenFor, OpenOnce
<1>6. AckFor(s, t)'
  BY <1>2 DEF OpenOnce, OpenFor, AckOnce, AckFor, DeferredFor, AnswerOnce
<1>7. DeferredFor(s, t)'
  BY <1>2 DEF OpenOnce, OpenFor, AckFor, DeferredFor
<1>8. OpenOnce(t)'
  BY <1>2 DEF OpenOnce, OpenFor, DeferredFor
<1>9. OpenFor(t, s)'
  BY <1>2 DEF OpenOnce, OpenFor, AckOnce, AckFor, DeferredFor, AnswerOnce
<1>10. AckOnce(t)'
  BY <1>2 DEF AckOnce, AckFor, OpenFor, OpenOnce
<1>11. AckFor(t, s)'
  BY <1>2 DEF OpenOnce, OpenFor, AckOnce, AckFor, DeferredFor, AnswerOnce
<1>12. DeferredFor(t, s)'
  BY <1>2 DEF OpenOnce, OpenFor, AckFor, DeferredFor
<1>13. AnswerOnce'
  BY <1>2 DEF AnswerOnce, OpenOnce, OpenFor, AckFor, DeferredFor
<1>14. Matched'
  BY <1>2 DEF Matched, AnswerOnce, OpenOnce, OpenFor, AckOnce, AckFor, DeferredFor
<1>15. Held(s)'
  BY <1>2 DEF Held, OpenFor, AckFor, DeferredFor
<1>16. Held(t)'
  BY <1>2 DEF Held, OpenFor, AckFor, DeferredFor
<1>17. DOMAIN tdata' = Side
  BY DEF CallInv
<1> QED BY <1>1, <1>3, <1>4, <1>5, <1>6, <1>7, <1>8, <1>9, <1>10, <1>11, <1>12, <1>13,
           <1>14, <1>15, <1>16, <1>17 DEF CallInv, Half

(* s answers the offer in a request.                                         *)
LEMMA AnswerStep ==
    ASSUME NEW s \in Side, NEW t \in Side, s # t, Side = {s, t}, CallInv, Moves(s, t),
           tdata' = tdata, unsent' = unsent,
           failed' = failed, local_cseq'[s] = local_cseq[s],
           NEW m \in net, m.type = "request", m.from = t,
           NEW k, net' = (net \ {m}) \union {k},
           k.type = "ok", k.from = s, k.method = m.method, k.cseq = m.cseq,
           m.sdp # NULL, k.sdp # NULL,
           neg[s].state = "DONE", neg'[s].state = "DONE", Active(s)' = k.sdp,
           \E l \in Local[s] : k.sdp = create_answer(l, m.sdp).media,
           IF m.method = "UPDATE" THEN invite_tsx'[s] = invite_tsx[s]
           ELSE /\ invite_tsx[s] = NULL /\ invite_tsx'[s] # NULL
                /\ invite_tsx'[s].role = "UAS" /\ invite_tsx'[s].state = "accepted"
    PROVE  CallInv'
<1>1. Types'
  BY MovedTypes
<1>2. Beside(s, t)
  BY Around
<1> USE DEF Opens, Serving, Calling, WaitsForAck, IsAnswer, AnswerTo, Offers, OfferOf,
            Active, Beside
<1>3. OpenOnce(s)'
  BY <1>2 DEF OpenOnce, OpenFor, DeferredFor
<1>4. OpenFor(s, t)'
  BY <1>2 DEF OpenOnce, OpenFor, AckOnce, AckFor, DeferredFor, AnswerOnce
<1>5. AckOnce(s)'
  BY <1>2 DEF AckOnce, AckFor, OpenFor, OpenOnce
<1>6. AckFor(s, t)'
  BY <1>2 DEF OpenOnce, OpenFor, AckOnce, AckFor, DeferredFor, AnswerOnce
<1>7. DeferredFor(s, t)'
  BY <1>2 DEF OpenOnce, OpenFor, AckFor, DeferredFor
<1>8. OpenOnce(t)'
  BY <1>2 DEF OpenOnce, OpenFor, DeferredFor
<1>9. OpenFor(t, s)'
  BY <1>2 DEF OpenOnce, OpenFor, AckOnce, AckFor, DeferredFor, AnswerOnce
<1>10. AckOnce(t)'
  BY <1>2 DEF AckOnce, AckFor, OpenFor, OpenOnce
<1>11. AckFor(t, s)'
  BY <1>2 DEF OpenOnce, OpenFor, AckOnce, AckFor, DeferredFor, AnswerOnce
<1>12. DeferredFor(t, s)'
  BY <1>2 DEF OpenOnce, OpenFor, AckFor, DeferredFor
<1>13. AnswerOnce'
  BY <1>2 DEF AnswerOnce, OpenOnce, OpenFor, AckFor, DeferredFor
<1>14. Matched'
  BY <1>2 DEF Matched, AnswerOnce, OpenOnce, OpenFor, AckOnce, AckFor, DeferredFor
<1>15. Held(s)'
  BY <1>2 DEF Held, OpenFor, AckFor, DeferredFor
<1>16. Held(t)'
  BY <1>2 DEF Held, OpenFor, AckFor, DeferredFor
<1>17. DOMAIN tdata' = Side
  BY DEF CallInv
<1> QED BY <1>1, <1>3, <1>4, <1>5, <1>6, <1>7, <1>8, <1>9, <1>10, <1>11, <1>12, <1>13,
           <1>14, <1>15, <1>16, <1>17 DEF CallInv, Half

(* s keeps the offer in a re-INVITE for later.                               *)
LEMMA DeferStep ==
    ASSUME NEW s \in Side, NEW t \in Side, s # t, Side = {s, t}, CallInv, Moves(s, t),
           tdata' = tdata, unsent' = unsent,
           failed' = failed, local_cseq'[s] = local_cseq[s],
           NEW m \in net, m.type = "request", m.from = t,
           net' = net \ {m}, m.method = "INVITE", m.sdp # NULL,
           neg[s].state = "DONE", neg'[s].state = "REMOTE_OFFER",
           neg'[s].neg_remote_sdp.media = m.sdp, Active(s)' = Active(s),
           invite_tsx[s] = NULL, invite_tsx'[s] # NULL,
           invite_tsx'[s].role = "UAS", invite_tsx'[s].state = "trying",
           invite_tsx'[s].cseq = m.cseq
    PROVE  CallInv'
<1>1. Types'
  BY MovedTypes
<1>2. Beside(s, t)
  BY Around
<1> USE DEF Opens, Serving, Calling, WaitsForAck, IsAnswer, AnswerTo, Offers, OfferOf,
            Active, Beside
<1>3. OpenOnce(s)'
  BY <1>2 DEF OpenOnce, OpenFor, DeferredFor
<1>4. OpenFor(s, t)'
  BY <1>2 DEF OpenOnce, OpenFor, AckOnce, AckFor, DeferredFor, AnswerOnce
<1>5. AckOnce(s)'
  BY <1>2 DEF AckOnce, AckFor, OpenFor, OpenOnce
<1>6. AckFor(s, t)'
  BY <1>2 DEF OpenOnce, OpenFor, AckOnce, AckFor, DeferredFor, AnswerOnce
<1>7. DeferredFor(s, t)'
  BY <1>2 DEF OpenOnce, OpenFor, AckFor, DeferredFor
<1>8. OpenOnce(t)'
  BY <1>2 DEF OpenOnce, OpenFor, DeferredFor
<1>9. OpenFor(t, s)'
  BY <1>2 DEF OpenOnce, OpenFor, AckOnce, AckFor, DeferredFor, AnswerOnce
<1>10. AckOnce(t)'
  BY <1>2 DEF AckOnce, AckFor, OpenFor, OpenOnce
<1>11. AckFor(t, s)'
  BY <1>2 DEF OpenOnce, OpenFor, AckOnce, AckFor, DeferredFor, AnswerOnce
<1>12. DeferredFor(t, s)'
  BY <1>2 DEF OpenOnce, OpenFor, AckFor, DeferredFor
<1>13. AnswerOnce'
  BY <1>2 DEF AnswerOnce, OpenOnce, OpenFor, AckFor, DeferredFor
<1>14. Matched'
  BY <1>2 DEF Matched, AnswerOnce, OpenOnce, OpenFor, AckOnce, AckFor, DeferredFor
<1>15. Held(s)'
  BY <1>2 DEF Held, OpenFor, AckFor, DeferredFor
<1>16. Held(t)'
  BY <1>2 DEF Held, OpenFor, AckFor, DeferredFor
<1>17. DOMAIN tdata' = Side
  BY DEF CallInv
<1> QED BY <1>1, <1>3, <1>4, <1>5, <1>6, <1>7, <1>8, <1>9, <1>10, <1>11, <1>12, <1>13,
           <1>14, <1>15, <1>16, <1>17 DEF CallInv, Half

(* s makes an offer in its 2xx.                                              *)
LEMMA OfferInOkStep ==
    ASSUME NEW s \in Side, NEW t \in Side, s # t, Side = {s, t}, CallInv, Moves(s, t),
           tdata' = tdata, unsent' = unsent,
           failed' = failed, local_cseq'[s] = local_cseq[s],
           NEW m \in net, m.type = "request", m.from = t,
           NEW k, net' = (net \ {m}) \union {k},
           k.type = "ok", k.from = s, k.method = m.method, k.cseq = m.cseq,
           m.method = "INVITE", m.sdp = NULL, k.sdp # NULL,
           neg[s].state = "DONE", Offers(s)', k.sdp = OfferOf(s)', Active(s)' = Active(s),
           invite_tsx[s] = NULL, invite_tsx'[s] # NULL,
           invite_tsx'[s].role = "UAS", invite_tsx'[s].state = "accepted",
           invite_tsx'[s].cseq = m.cseq
    PROVE  CallInv'
<1>1. Types'
  BY MovedTypes
<1>2. Beside(s, t)
  BY Around
<1> USE DEF Opens, Serving, Calling, WaitsForAck, IsAnswer, AnswerTo, Offers, OfferOf,
            Active, Beside
<1>3. OpenOnce(s)'
  BY <1>2 DEF OpenOnce, OpenFor, DeferredFor
<1>4. OpenFor(s, t)'
  BY <1>2 DEF OpenOnce, OpenFor, AckOnce, AckFor, DeferredFor, AnswerOnce
<1>5. AckOnce(s)'
  BY <1>2 DEF AckOnce, AckFor, OpenFor, OpenOnce
<1>6. AckFor(s, t)'
  BY <1>2 DEF OpenOnce, OpenFor, AckOnce, AckFor, DeferredFor, AnswerOnce
<1>7. DeferredFor(s, t)'
  BY <1>2 DEF OpenOnce, OpenFor, AckFor, DeferredFor
<1>8. OpenOnce(t)'
  BY <1>2 DEF OpenOnce, OpenFor, DeferredFor
<1>9. OpenFor(t, s)'
  BY <1>2 DEF OpenOnce, OpenFor, AckOnce, AckFor, DeferredFor, AnswerOnce
<1>10. AckOnce(t)'
  BY <1>2 DEF AckOnce, AckFor, OpenFor, OpenOnce
<1>11. AckFor(t, s)'
  BY <1>2 DEF OpenOnce, OpenFor, AckOnce, AckFor, DeferredFor, AnswerOnce
<1>12. DeferredFor(t, s)'
  BY <1>2 DEF OpenOnce, OpenFor, AckFor, DeferredFor
<1>13. AnswerOnce'
  BY <1>2 DEF AnswerOnce, OpenOnce, OpenFor, AckFor, DeferredFor
<1>14. Matched'
  BY <1>2 DEF Matched, AnswerOnce, OpenOnce, OpenFor, AckOnce, AckFor, DeferredFor
<1>15. Held(s)'
  BY <1>2 DEF Held, OpenFor, AckFor, DeferredFor
<1>16. Held(t)'
  BY <1>2 DEF Held, OpenFor, AckFor, DeferredFor
<1>17. DOMAIN tdata' = Side
  BY DEF CallInv
<1> QED BY <1>1, <1>3, <1>4, <1>5, <1>6, <1>7, <1>8, <1>9, <1>10, <1>11, <1>12, <1>13,
           <1>14, <1>15, <1>16, <1>17 DEF CallInv, Half

(* s answers the deferred offer.                                             *)
LEMMA AnswerLaterStep ==
    ASSUME NEW s \in Side, NEW t \in Side, s # t, Side = {s, t}, CallInv, Moves(s, t),
           tdata' = tdata, unsent' = unsent,
           failed' = failed, local_cseq'[s] = local_cseq[s],
           NEW k, net' = net \union {k}, k.type = "ok", k.from = s, k.method = "INVITE",
           k.cseq = invite_tsx[s].cseq, k.sdp # NULL,
           Serving(s, "trying"), neg[s].state = "REMOTE_OFFER",
           neg'[s].state = "DONE", Active(s)' = k.sdp,
           \E l \in Local[s] : k.sdp = create_answer(l, neg[s].neg_remote_sdp.media).media,
           Serving(s, "accepted")'
    PROVE  CallInv'
<1>1. Types'
  BY MovedTypes
<1>2. Beside(s, t)
  BY Around
<1> USE DEF Opens, Serving, Calling, WaitsForAck, IsAnswer, AnswerTo, Offers, OfferOf,
            Active, Beside
<1>3. OpenOnce(s)'
  BY <1>2 DEF OpenOnce, OpenFor, DeferredFor
<1>4. OpenFor(s, t)'
  BY <1>2 DEF OpenOnce, OpenFor, AckOnce, AckFor, DeferredFor, AnswerOnce
<1>5. AckOnce(s)'
  BY <1>2 DEF AckOnce, AckFor, OpenFor, OpenOnce
<1>6. AckFor(s, t)'
  BY <1>2 DEF OpenOnce, OpenFor, AckOnce, AckFor, DeferredFor, AnswerOnce
<1>7. DeferredFor(s, t)'
  BY <1>2 DEF OpenOnce, OpenFor, AckFor, DeferredFor
<1>8. OpenOnce(t)'
  BY <1>2 DEF OpenOnce, OpenFor, DeferredFor
<1>9. OpenFor(t, s)'
  BY <1>2 DEF OpenOnce, OpenFor, AckOnce, AckFor, DeferredFor, AnswerOnce
<1>10. AckOnce(t)'
  BY <1>2 DEF AckOnce, AckFor, OpenFor, OpenOnce
<1>11. AckFor(t, s)'
  BY <1>2 DEF OpenOnce, OpenFor, AckOnce, AckFor, DeferredFor, AnswerOnce
<1>12. DeferredFor(t, s)'
  BY <1>2 DEF OpenOnce, OpenFor, AckFor, DeferredFor
<1>13. AnswerOnce'
  BY <1>2 DEF AnswerOnce, OpenOnce, OpenFor, AckFor, DeferredFor
<1>14. Matched'
  BY <1>2 DEF Matched, AnswerOnce, OpenOnce, OpenFor, AckOnce, AckFor, DeferredFor
<1>15. Held(s)'
  BY <1>2 DEF Held, OpenFor, AckFor, DeferredFor
<1>16. Held(t)'
  BY <1>2 DEF Held, OpenFor, AckFor, DeferredFor
<1>17. DOMAIN tdata' = Side
  BY DEF CallInv
<1> QED BY <1>1, <1>3, <1>4, <1>5, <1>6, <1>7, <1>8, <1>9, <1>10, <1>11, <1>12, <1>13,
           <1>14, <1>15, <1>16, <1>17 DEF CallInv, Half

(* The answer to the deferred offer fails, and nothing is sent.              *)
LEMMA AnswerFailsStep ==
    ASSUME NEW s \in Side, NEW t \in Side, s # t, Side = {s, t}, CallInv, Moves(s, t),
           tdata' = tdata, unsent' = unsent,
           failed' = failed, local_cseq'[s] = local_cseq[s], net' = net,
           Serving(s, "trying"), neg[s].state = "REMOTE_OFFER",
           neg'[s].state = "DONE", Active(s)' = Active(s), invite_tsx'[s] = invite_tsx[s]
    PROVE  CallInv'
<1>1. Types'
  BY MovedTypes
<1>2. Beside(s, t)
  BY Around
<1> USE DEF Opens, Serving, Calling, WaitsForAck, IsAnswer, AnswerTo, Offers, OfferOf,
            Active, Beside
<1>3. OpenOnce(s)'
  BY <1>2 DEF OpenOnce, OpenFor, DeferredFor
<1>4. OpenFor(s, t)'
  BY <1>2 DEF OpenOnce, OpenFor, AckOnce, AckFor, DeferredFor, AnswerOnce
<1>5. AckOnce(s)'
  BY <1>2 DEF AckOnce, AckFor, OpenFor, OpenOnce
<1>6. AckFor(s, t)'
  BY <1>2 DEF OpenOnce, OpenFor, AckOnce, AckFor, DeferredFor, AnswerOnce
<1>7. DeferredFor(s, t)'
  BY <1>2 DEF OpenOnce, OpenFor, AckFor, DeferredFor
<1>8. OpenOnce(t)'
  BY <1>2 DEF OpenOnce, OpenFor, DeferredFor
<1>9. OpenFor(t, s)'
  BY <1>2 DEF OpenOnce, OpenFor, AckOnce, AckFor, DeferredFor, AnswerOnce
<1>10. AckOnce(t)'
  BY <1>2 DEF AckOnce, AckFor, OpenFor, OpenOnce
<1>11. AckFor(t, s)'
  BY <1>2 DEF OpenOnce, OpenFor, AckOnce, AckFor, DeferredFor, AnswerOnce
<1>12. DeferredFor(t, s)'
  BY <1>2 DEF OpenOnce, OpenFor, AckFor, DeferredFor
<1>13. AnswerOnce'
  BY <1>2 DEF AnswerOnce, OpenOnce, OpenFor, AckFor, DeferredFor
<1>14. Matched'
  BY <1>2 DEF Matched, AnswerOnce, OpenOnce, OpenFor, AckOnce, AckFor, DeferredFor
<1>15. Held(s)'
  BY <1>2 DEF Held, OpenFor, AckFor, DeferredFor
<1>16. Held(t)'
  BY <1>2 DEF Held, OpenFor, AckFor, DeferredFor
<1>17. DOMAIN tdata' = Side
  BY DEF CallInv
<1> QED BY <1>1, <1>3, <1>4, <1>5, <1>6, <1>7, <1>8, <1>9, <1>10, <1>11, <1>12, <1>13,
           <1>14, <1>15, <1>16, <1>17 DEF CallInv, Half

(* s rejects the deferred re-INVITE.                                         *)
LEMMA RejectLaterStep ==
    ASSUME NEW s \in Side, NEW t \in Side, s # t, Side = {s, t}, CallInv, Moves(s, t),
           tdata' = tdata, unsent' = unsent,
           failed' = failed, local_cseq'[s] = local_cseq[s],
           NEW k, net' = net \union {k}, k.type = "fail", k.from = s, k.method = "INVITE",
           k.cseq = invite_tsx[s].cseq, k.sdp = NULL,
           Serving(s, "trying"), neg'[s].state = "DONE", Active(s)' = Active(s),
           Serving(s, "completed")'
    PROVE  CallInv'
<1>1. Types'
  BY MovedTypes
<1>2. Beside(s, t)
  BY Around
<1> USE DEF Opens, Serving, Calling, WaitsForAck, IsAnswer, AnswerTo, Offers, OfferOf,
            Active, Beside
<1>3. OpenOnce(s)'
  BY <1>2 DEF OpenOnce, OpenFor, DeferredFor
<1>4. OpenFor(s, t)'
  BY <1>2 DEF OpenOnce, OpenFor, AckOnce, AckFor, DeferredFor, AnswerOnce
<1>5. AckOnce(s)'
  BY <1>2 DEF AckOnce, AckFor, OpenFor, OpenOnce
<1>6. AckFor(s, t)'
  BY <1>2 DEF OpenOnce, OpenFor, AckOnce, AckFor, DeferredFor, AnswerOnce
<1>7. DeferredFor(s, t)'
  BY <1>2 DEF OpenOnce, OpenFor, AckFor, DeferredFor
<1>8. OpenOnce(t)'
  BY <1>2 DEF OpenOnce, OpenFor, DeferredFor
<1>9. OpenFor(t, s)'
  BY <1>2 DEF OpenOnce, OpenFor, AckOnce, AckFor, DeferredFor, AnswerOnce
<1>10. AckOnce(t)'
  BY <1>2 DEF AckOnce, AckFor, OpenFor, OpenOnce
<1>11. AckFor(t, s)'
  BY <1>2 DEF OpenOnce, OpenFor, AckOnce, AckFor, DeferredFor, AnswerOnce
<1>12. DeferredFor(t, s)'
  BY <1>2 DEF OpenOnce, OpenFor, AckFor, DeferredFor
<1>13. AnswerOnce'
  BY <1>2 DEF AnswerOnce, OpenOnce, OpenFor, AckFor, DeferredFor
<1>14. Matched'
  BY <1>2 DEF Matched, AnswerOnce, OpenOnce, OpenFor, AckOnce, AckFor, DeferredFor
<1>15. Held(s)'
  BY <1>2 DEF Held, OpenFor, AckFor, DeferredFor
<1>16. Held(t)'
  BY <1>2 DEF Held, OpenFor, AckFor, DeferredFor
<1>17. DOMAIN tdata' = Side
  BY DEF CallInv
<1> QED BY <1>1, <1>3, <1>4, <1>5, <1>6, <1>7, <1>8, <1>9, <1>10, <1>11, <1>12, <1>13,
           <1>14, <1>15, <1>16, <1>17 DEF CallInv, Half

(* s receives the answer to its offer in a 2xx.                              *)
LEMMA HearStep ==
    ASSUME NEW s \in Side, NEW t \in Side, s # t, Side = {s, t}, CallInv, Moves(s, t),
           tdata' = tdata, unsent' = unsent,
           local_cseq'[s] = local_cseq[s],
           NEW m \in net, m.type = "ok", m.from = t,
           NEW k, k.type = "ACK", k.from = s, k.method = m.method, k.cseq = m.cseq,
           k.sdp = NULL,
           IF m.method = "INVITE"
           THEN net' = (net \ {m}) \union {k} /\ invite_tsx'[s] = NULL
           ELSE net' = net \ {m} /\ invite_tsx'[s] = invite_tsx[s],
           m.sdp # NULL, Offers(s),
           neg'[s].state = "DONE",
           IF failed' THEN Active(s)' = Active(s)
           ELSE Active(s)' = process_answer(OfferOf(s), m.sdp).offer,
           \A l \in Local[t] : LET a == create_answer(l, OfferOf(s)).media
                                   p == process_answer(OfferOf(s), a).offer
                               IN  Mirrored(p, a) /\ Mirrored(a, p)
    PROVE  CallInv'
<1>1. Types'
  BY MovedTypes
<1>2. Beside(s, t)
  BY Around
<1> USE DEF Opens, Serving, Calling, WaitsForAck, IsAnswer, AnswerTo, Offers, OfferOf,
            Active, Beside
<1>3. OpenOnce(s)'
  BY <1>2 DEF OpenOnce, OpenFor, DeferredFor
<1>4. OpenFor(s, t)'
  BY <1>2 DEF OpenOnce, OpenFor, AckOnce, AckFor, DeferredFor, AnswerOnce
<1>5. AckOnce(s)'
  BY <1>2 DEF AckOnce, AckFor, OpenFor, OpenOnce
<1>6. AckFor(s, t)'
  BY <1>2 DEF OpenOnce, OpenFor, AckOnce, AckFor, DeferredFor, AnswerOnce
<1>7. DeferredFor(s, t)'
  BY <1>2 DEF OpenOnce, OpenFor, AckFor, DeferredFor
<1>8. OpenOnce(t)'
  BY <1>2 DEF OpenOnce, OpenFor, DeferredFor
<1>9. OpenFor(t, s)'
  BY <1>2 DEF OpenOnce, OpenFor, AckOnce, AckFor, DeferredFor, AnswerOnce
<1>10. AckOnce(t)'
  BY <1>2 DEF AckOnce, AckFor, OpenFor, OpenOnce
<1>11. AckFor(t, s)'
  BY <1>2 DEF OpenOnce, OpenFor, AckOnce, AckFor, DeferredFor, AnswerOnce
<1>12. DeferredFor(t, s)'
  BY <1>2 DEF OpenOnce, OpenFor, AckFor, DeferredFor
<1>13. AnswerOnce'
  BY <1>2 DEF AnswerOnce, OpenOnce, OpenFor, AckFor, DeferredFor
<1>14. Matched'
  BY <1>2 DEF Matched, AnswerOnce, OpenOnce, OpenFor, AckOnce, AckFor, DeferredFor
<1>15. Held(s)'
  BY <1>2 DEF Held, OpenFor, AckFor, DeferredFor
<1>16. Held(t)'
  BY <1>2 DEF Held, OpenFor, AckFor, DeferredFor
<1>17. DOMAIN tdata' = Side
  BY DEF CallInv
<1> QED BY <1>1, <1>3, <1>4, <1>5, <1>6, <1>7, <1>8, <1>9, <1>10, <1>11, <1>12, <1>13,
           <1>14, <1>15, <1>16, <1>17 DEF CallInv, Half

(* s answers the offer in a 2xx: the ACK has the answer, or nothing.         *)
LEMMA AckAnswerStep ==
    ASSUME NEW s \in Side, NEW t \in Side, s # t, Side = {s, t}, CallInv, Moves(s, t),
           tdata' = tdata, unsent' = unsent,
           failed' = failed,
           local_cseq'[s] = local_cseq[s],
           NEW m \in net, m.type = "ok", m.from = t,
           NEW k, k.type = "ACK", k.from = s, k.method = m.method, k.cseq = m.cseq,
           net' = (net \ {m}) \union {k}, invite_tsx'[s] = NULL,
           m.method = "INVITE", m.sdp # NULL, neg[s].state = "DONE", neg'[s].state = "DONE",
           IF k.sdp = NULL THEN Active(s)' = Active(s)
           ELSE /\ Active(s)' = k.sdp
                /\ \E l \in Local[s] : k.sdp = create_answer(l, m.sdp).media
    PROVE  CallInv'
<1>1. Types'
  BY MovedTypes
<1>2. Beside(s, t)
  BY Around
<1> USE DEF Opens, Serving, Calling, WaitsForAck, IsAnswer, AnswerTo, Offers, OfferOf,
            Active, Beside
<1>3. OpenOnce(s)'
  BY <1>2 DEF OpenOnce, OpenFor, DeferredFor
<1>4. OpenFor(s, t)'
  BY <1>2 DEF OpenOnce, OpenFor, AckOnce, AckFor, DeferredFor, AnswerOnce
<1>5. AckOnce(s)'
  BY <1>2 DEF AckOnce, AckFor, OpenFor, OpenOnce
<1>6. AckFor(s, t)'
  BY <1>2 DEF OpenOnce, OpenFor, AckOnce, AckFor, DeferredFor, AnswerOnce
<1>7. DeferredFor(s, t)'
  BY <1>2 DEF OpenOnce, OpenFor, AckFor, DeferredFor
<1>8. OpenOnce(t)'
  BY <1>2 DEF OpenOnce, OpenFor, DeferredFor
<1>9. OpenFor(t, s)'
  BY <1>2 DEF OpenOnce, OpenFor, AckOnce, AckFor, DeferredFor, AnswerOnce
<1>10. AckOnce(t)'
  BY <1>2 DEF AckOnce, AckFor, OpenFor, OpenOnce
<1>11. AckFor(t, s)'
  BY <1>2 DEF OpenOnce, OpenFor, AckOnce, AckFor, DeferredFor, AnswerOnce
<1>12. DeferredFor(t, s)'
  BY <1>2 DEF OpenOnce, OpenFor, AckFor, DeferredFor
<1>13. AnswerOnce'
  BY <1>2 DEF AnswerOnce, OpenOnce, OpenFor, AckFor, DeferredFor
<1>14. Matched'
  BY <1>2 DEF Matched, AnswerOnce, OpenOnce, OpenFor, AckOnce, AckFor, DeferredFor
<1>15. Held(s)'
  BY <1>2 DEF Held, OpenFor, AckFor, DeferredFor
<1>16. Held(t)'
  BY <1>2 DEF Held, OpenFor, AckFor, DeferredFor
<1>17. DOMAIN tdata' = Side
  BY DEF CallInv
<1> QED BY <1>1, <1>3, <1>4, <1>5, <1>6, <1>7, <1>8, <1>9, <1>10, <1>11, <1>12, <1>13,
           <1>14, <1>15, <1>16, <1>17 DEF CallInv, Half

(* A request of s has failed.                                                *)
LEMMA FailedStep ==
    ASSUME NEW s \in Side, NEW t \in Side, s # t, Side = {s, t}, CallInv, Moves(s, t),
           tdata' = tdata, unsent' = unsent,
           failed' = failed,
           local_cseq'[s] = local_cseq[s],
           NEW m \in net, m.type = "fail", m.from = t,
           NEW k, k.type = "ACK", k.from = s, k.method = m.method, k.cseq = m.cseq,
           k.sdp = NULL,
           IF m.method = "INVITE"
           THEN net' = (net \ {m}) \union {k} /\ invite_tsx'[s] = NULL
           ELSE net' = net \ {m} /\ invite_tsx'[s] = invite_tsx[s],
           Active(s)' = Active(s),
           IF Offers(s) THEN neg'[s].state = "DONE" ELSE neg'[s] = neg[s]
    PROVE  CallInv'
<1>1. Types'
  BY MovedTypes
<1>2. Beside(s, t)
  BY Around
<1> USE DEF Opens, Serving, Calling, WaitsForAck, IsAnswer, AnswerTo, Offers, OfferOf,
            Active, Beside
<1>3. OpenOnce(s)'
  BY <1>2 DEF OpenOnce, OpenFor, DeferredFor
<1>4. OpenFor(s, t)'
  BY <1>2 DEF OpenOnce, OpenFor, AckOnce, AckFor, DeferredFor, AnswerOnce
<1>5. AckOnce(s)'
  BY <1>2 DEF AckOnce, AckFor, OpenFor, OpenOnce
<1>6. AckFor(s, t)'
  BY <1>2 DEF OpenOnce, OpenFor, AckOnce, AckFor, DeferredFor, AnswerOnce
<1>7. DeferredFor(s, t)'
  BY <1>2 DEF OpenOnce, OpenFor, AckFor, DeferredFor
<1>8. OpenOnce(t)'
  BY <1>2 DEF OpenOnce, OpenFor, DeferredFor
<1>9. OpenFor(t, s)'
  BY <1>2 DEF OpenOnce, OpenFor, AckOnce, AckFor, DeferredFor, AnswerOnce
<1>10. AckOnce(t)'
  BY <1>2 DEF AckOnce, AckFor, OpenFor, OpenOnce
<1>11. AckFor(t, s)'
  BY <1>2 DEF OpenOnce, OpenFor, AckOnce, AckFor, DeferredFor, AnswerOnce
<1>12. DeferredFor(t, s)'
  BY <1>2 DEF OpenOnce, OpenFor, AckFor, DeferredFor
<1>13. AnswerOnce'
  BY <1>2 DEF AnswerOnce, OpenOnce, OpenFor, AckFor, DeferredFor
<1>14. Matched'
  BY <1>2 DEF Matched, AnswerOnce, OpenOnce, OpenFor, AckOnce, AckFor, DeferredFor
<1>15. Held(s)'
  BY <1>2 DEF Held, OpenFor, AckFor, DeferredFor
<1>16. Held(t)'
  BY <1>2 DEF Held, OpenFor, AckFor, DeferredFor
<1>17. DOMAIN tdata' = Side
  BY DEF CallInv
<1> QED BY <1>1, <1>3, <1>4, <1>5, <1>6, <1>7, <1>8, <1>9, <1>10, <1>11, <1>12, <1>13,
           <1>14, <1>15, <1>16, <1>17 DEF CallInv, Half

(* s receives the answer to its offer in an ACK.                             *)
LEMMA HearAckStep ==
    ASSUME NEW s \in Side, NEW t \in Side, s # t, Side = {s, t}, CallInv, Moves(s, t),
           tdata' = tdata, unsent' = unsent,
           local_cseq'[s] = local_cseq[s],
           NEW m \in net, m.type = "ACK", m.from = t,
           net' = net \ {m}, invite_tsx'[s] = NULL, m.sdp # NULL,
           neg'[s].state = "DONE",
           IF failed' THEN Active(s)' = Active(s)
           ELSE Active(s)' = process_answer(OfferOf(s), m.sdp).offer,
           \A l \in Local[t] : LET a == create_answer(l, OfferOf(s)).media
                                   p == process_answer(OfferOf(s), a).offer
                               IN  Mirrored(p, a) /\ Mirrored(a, p)
    PROVE  CallInv'
<1>1. Types'
  BY MovedTypes
<1>2. Beside(s, t)
  BY Around
<1> USE DEF Opens, Serving, Calling, WaitsForAck, IsAnswer, AnswerTo, Offers, OfferOf,
            Active, Beside
<1>3. OpenOnce(s)'
  BY <1>2 DEF OpenOnce, OpenFor, DeferredFor
<1>4. OpenFor(s, t)'
  BY <1>2 DEF OpenOnce, OpenFor, AckOnce, AckFor, DeferredFor, AnswerOnce
<1>5. AckOnce(s)'
  BY <1>2 DEF AckOnce, AckFor, OpenFor, OpenOnce
<1>6. AckFor(s, t)'
  BY <1>2 DEF OpenOnce, OpenFor, AckOnce, AckFor, DeferredFor, AnswerOnce
<1>7. DeferredFor(s, t)'
  BY <1>2 DEF OpenOnce, OpenFor, AckFor, DeferredFor
<1>8. OpenOnce(t)'
  BY <1>2 DEF OpenOnce, OpenFor, DeferredFor
<1>9. OpenFor(t, s)'
  BY <1>2 DEF OpenOnce, OpenFor, AckOnce, AckFor, DeferredFor, AnswerOnce
<1>10. AckOnce(t)'
  BY <1>2 DEF AckOnce, AckFor, OpenFor, OpenOnce
<1>11. AckFor(t, s)'
  BY <1>2 DEF OpenOnce, OpenFor, AckOnce, AckFor, DeferredFor, AnswerOnce
<1>12. DeferredFor(t, s)'
  BY <1>2 DEF OpenOnce, OpenFor, AckFor, DeferredFor
<1>13. AnswerOnce'
  BY <1>2 DEF AnswerOnce, OpenOnce, OpenFor, AckFor, DeferredFor
<1>14. Matched'
  BY <1>2 DEF Matched, AnswerOnce, OpenOnce, OpenFor, AckOnce, AckFor, DeferredFor
<1>15. Held(s)'
  BY <1>2 DEF Held, OpenFor, AckFor, DeferredFor
<1>16. Held(t)'
  BY <1>2 DEF Held, OpenFor, AckFor, DeferredFor
<1>17. DOMAIN tdata' = Side
  BY DEF CallInv
<1> QED BY <1>1, <1>3, <1>4, <1>5, <1>6, <1>7, <1>8, <1>9, <1>10, <1>11, <1>12, <1>13,
           <1>14, <1>15, <1>16, <1>17 DEF CallInv, Half

(* s receives an ACK without an answer.                                      *)
LEMMA AckStep ==
    ASSUME NEW s \in Side, NEW t \in Side, s # t, Side = {s, t}, CallInv, Moves(s, t),
           tdata' = tdata, unsent' = unsent,
           failed' = failed,
           local_cseq'[s] = local_cseq[s],
           NEW m \in net, m.type = "ACK", m.from = t,
           net' = net \ {m}, Active(s)' = Active(s),
           IF Acked(s, m) THEN invite_tsx'[s] = NULL ELSE invite_tsx'[s] = invite_tsx[s],
           \/ neg'[s] = neg[s]
           \/ Acked(s, m) /\ Serving(s, "accepted") /\ neg'[s].state = "DONE",
           Acked(s, m) /\ Serving(s, "accepted") => neg'[s].state # "LOCAL_OFFER",
           m.sdp = NULL
    PROVE  CallInv'
<1>1. Types'
  BY MovedTypes
<1>2. Beside(s, t)
  BY Around
<1> USE DEF Opens, Serving, Calling, WaitsForAck, IsAnswer, AnswerTo, Offers, OfferOf,
            Active, Beside, Acked
<1>3. OpenOnce(s)'
  BY <1>2 DEF OpenOnce, OpenFor, DeferredFor
<1>4. OpenFor(s, t)'
  BY <1>2 DEF OpenOnce, OpenFor, AckOnce, AckFor, DeferredFor, AnswerOnce
<1>5. AckOnce(s)'
  BY <1>2 DEF AckOnce, AckFor, OpenFor, OpenOnce
<1>6. AckFor(s, t)'
  BY <1>2 DEF OpenOnce, OpenFor, AckOnce, AckFor, DeferredFor, AnswerOnce
<1>7. DeferredFor(s, t)'
  BY <1>2 DEF OpenOnce, OpenFor, AckFor, DeferredFor
<1>8. OpenOnce(t)'
  BY <1>2 DEF OpenOnce, OpenFor, DeferredFor
<1>9. OpenFor(t, s)'
  BY <1>2 DEF OpenOnce, OpenFor, AckOnce, AckFor, DeferredFor, AnswerOnce
<1>10. AckOnce(t)'
  BY <1>2 DEF AckOnce, AckFor, OpenFor, OpenOnce
<1>11. AckFor(t, s)'
  BY <1>2 DEF OpenOnce, OpenFor, AckOnce, AckFor, DeferredFor, AnswerOnce
<1>12. DeferredFor(t, s)'
  BY <1>2 DEF OpenOnce, OpenFor, AckFor, DeferredFor
<1>13. AnswerOnce'
  BY <1>2 DEF AnswerOnce, OpenOnce, OpenFor, AckFor, DeferredFor
<1>14. Matched'
  BY <1>2 DEF Matched, AnswerOnce, OpenOnce, OpenFor, AckOnce, AckFor, DeferredFor
<1>15. Held(s)'
  BY <1>2 DEF Held, OpenFor, AckFor, DeferredFor
<1>16. Held(t)'
  BY <1>2 DEF Held, OpenFor, AckFor, DeferredFor
<1>17. DOMAIN tdata' = Side
  BY DEF CallInv
<1> QED BY <1>1, <1>3, <1>4, <1>5, <1>6, <1>7, <1>8, <1>9, <1>10, <1>11, <1>12, <1>13,
           <1>14, <1>15, <1>16, <1>17 DEF CallInv, Half

-----------------------------------------------------------------------------
(* The two ends of a call.                                                  *)
LEMMA Ends ==
    ASSUME NEW s \in Side
    PROVE  /\ Peer(s) \in Side /\ Peer(s) # s /\ Side = {s, Peer(s)}
           /\ Peer(Peer(s)) = s
<1>1. IsFiniteSet(Side) /\ Cardinality(Side) = 2
  BY SessionAssumption
<1>2. \A x \in Side : \E y : Side \ {x} = {y}
  <2> TAKE x \in Side
  <2>1. IsFiniteSet(Side \ {x})
    BY <1>1, FS_RemoveElement
  <2>2. Cardinality(Side \ {x}) = Cardinality(Side) - 1
    BY <1>1, FS_RemoveElement
  <2>3. Cardinality(Side \ {x}) = 1
    BY <1>1, <2>2
  <2> QED BY <2>1, <2>3, FS_Singleton
<1>3. \A x \in Side : Peer(x) \in Side /\ Peer(x) # x /\ \A y \in Side : y # x => y = Peer(x)
  <2> TAKE x \in Side
  <2>1. PICK y : Side \ {x} = {y}
    BY <1>2
  <2> QED BY <2>1 DEF Peer
<1> QED BY <1>3

(* Under which the ends agree: each active line of the applications'        *)
(* descriptions names a codec, and no UPDATE is sent between a 2xx and its  *)
(* ACK.                                                                     *)
Proviso == "early" \notin Ops /\ \A s \in Side : Local[s] \subseteq Seq(Usable)

(* Transactions are no NULL.                                                *)
LEMMA ClientTsx ==
    ASSUME NEW c \in Nat
    PROVE  LET x == Tsx("UAC", c, "calling")
           IN  x \in TsxType /\ x # NULL /\ x.role = "UAC"
<1> DEFINE x == Tsx("UAC", c, "calling")
<1>1. x \in [role : {"UAC", "UAS"}, cseq : Nat,
              state : {"calling", "trying", "accepted", "completed"}]
  BY DEF Tsx
<1>2. x \in TsxType /\ x.role = "UAC"
  BY DEF Tsx, TsxType
<1> QED BY <1>1, <1>2, NullAssumption

LEMMA ServerTsx ==
    ASSUME NEW c \in Nat, NEW state \in {"trying", "accepted", "completed"}
    PROVE  LET x == Tsx("UAS", c, state)
           IN  /\ x \in TsxType /\ x # NULL /\ x.role = "UAS"
               /\ x.cseq = c /\ x.state = state
<1> DEFINE x == Tsx("UAS", c, state)
<1>1. x \in [role : {"UAC", "UAS"}, cseq : Nat,
              state : {"calling", "trying", "accepted", "completed"}]
  BY DEF Tsx
<1>2. x \in TsxType /\ x.role = "UAS" /\ x.cseq = c /\ x.state = state
  BY DEF Tsx, TsxType
<1> QED BY <1>1, <1>2, NullAssumption

LEMMA MessageFields ==
    ASSUME NEW type, NEW method, NEW from, NEW c, NEW sdp
    PROVE  LET k == Message(type, method, from, c, sdp)
           IN  /\ k.type = type /\ k.method = method /\ k.from = from
               /\ k.cseq = c /\ k.sdp = sdp
BY DEF Message

(* The parts of the invariants that every step of s needs.                  *)
LEMMA Known ==
    ASSUME IndInv, CallInv, NEW s \in Side, NEW t, t = Peer(s)
    PROVE  /\ t \in Side /\ s # t /\ Side = {s, t} /\ Peer(t) = s
           /\ prov(s) \in {1, 2} /\ Sound(neg[s]) /\ Sound(neg[t])
           /\ DOMAIN neg = Side /\ DOMAIN invite_tsx = Side /\ DOMAIN local_cseq = Side
           /\ local_cseq[s] \in Nat /\ (\A m \in net : MessageOK(m))
           /\ invite_tsx[s] = NULL \/ invite_tsx[s] \in TsxType
<1>1. t \in Side /\ s # t /\ Side = {s, t} /\ Peer(t) = s
  BY Ends
<1>2. prov(s) \in {1, 2}
  BY DEF IndInv, prov
<1> QED BY <1>1, <1>2 DEF CallInv, Types

(* A new offer of s.                                                        *)
LEMMA LocalOfferFields ==
    ASSUME IndInv, CallInv, Proviso, NEW s \in Side, neg[s].state = "DONE",
           NEW n \in LocalOffers(s)
    PROVE  /\ Sound(n) /\ n.state = "LOCAL_OFFER"
           /\ n.active_local_sdp = neg[s].active_local_sdp
           /\ Body(n.neg_local_sdp) = n.neg_local_sdp.media
<1>1. Sound(neg[s]) /\ prov(s) \in {1, 2} /\ Resting(neg[s], {0, 3 - prov(s)})
  BY Known, AtRest
<1>2. CASE n = send_local_offer(neg[s], prov(s))
  BY <1>1, <1>2, SentFields
<1>3. CASE \E l \in Local[s] : n = modify_local_offer(neg[s], prov(s), l)
  <2>1. PICK l \in Local[s] : n = modify_local_offer(neg[s], prov(s), l)
    BY <1>3
  <2>2. l \in Seq(Usable)
    BY DEF Proviso
  <2> QED BY <1>1, <2>1, <2>2, ModifiedFields
<1> QED BY <1>2, <1>3 DEF LocalOffers

(* A request is created with no offer, with a new one or with the open one. *)
LEMMA CreateCall ==
    ASSUME IndInv, CallInv, Proviso, NEW s \in Side, MayCall(s),
           NEW n, Keep(s, n), NEW method, NEW x, Create(s, method, x),
           \/ x = NULL /\ method = "INVITE" /\ neg[s].state = "DONE" /\ n = neg[s]
           \/ x = n.neg_local_sdp /\ neg[s].state = "DONE" /\ n \in LocalOffers(s)
           \/ x = n.neg_local_sdp /\ s \in unsent /\ n = neg[s]
    PROVE  CallInv'
<1>1. PICK t : t = Peer(s)
  OBVIOUS
<1>2. /\ t \in Side /\ s # t /\ Side = {s, t} /\ Sound(neg[s])
      /\ DOMAIN neg = Side /\ DOMAIN invite_tsx = Side /\ DOMAIN local_cseq = Side
      /\ local_cseq[s] \in Nat /\ (invite_tsx[s] = NULL \/ invite_tsx[s] \in TsxType)
  BY <1>1, Known
<1>3. invite_tsx[s] = NULL /\ \A m \in net : ~Opens(m, s)
  BY DEF MayCall, Pending, Proviso, Opens
<1>4. Held(s) /\ DOMAIN tdata = Side
  BY <1>2 DEF CallInv, Half
<1> DEFINE b == Body(x)
           d == Tdata(method, b, FALSE)
<1>5. /\ tdata' = [tdata EXCEPT ![s] = d] /\ unsent' = unsent \ {s}
      /\ invite_tsx' = invite_tsx /\ local_cseq' = local_cseq /\ net' = net
  BY DEF Create
<1>6. neg' = [neg EXCEPT ![s] = n] /\ failed' = failed
  BY DEF Keep, SetNeg
<1>7. d.method = method /\ d.sdp = b
  BY DEF Tdata
<1>8. /\ Sound(n) /\ n.active_local_sdp = neg[s].active_local_sdp
      /\ \/ b = NULL /\ method = "INVITE" /\ neg[s].state = "DONE" /\ n = neg[s]
         \/ /\ b = n.neg_local_sdp.media /\ n.state = "LOCAL_OFFER"
            /\ b # NULL /\ (n = neg[s] \/ neg[s].state = "DONE")
  <2>1. CASE x = NULL /\ method = "INVITE" /\ neg[s].state = "DONE" /\ n = neg[s]
    BY <1>2, <2>1 DEF Body
  <2>2. CASE x = n.neg_local_sdp /\ neg[s].state = "DONE" /\ n \in LocalOffers(s)
    <3>1. /\ Sound(n) /\ n.state = "LOCAL_OFFER"
          /\ n.active_local_sdp = neg[s].active_local_sdp
          /\ Body(n.neg_local_sdp) = n.neg_local_sdp.media
      BY <2>2, LocalOfferFields
    <3>2. n.neg_local_sdp.media # NULL
      BY <3>1, UsableNotNull DEF Sound
    <3> QED BY <2>2, <3>1, <3>2
  <2>3. CASE x = n.neg_local_sdp /\ s \in unsent /\ n = neg[s]
    <3>1. n.state = "LOCAL_OFFER"
      BY <1>4, <2>3 DEF Held, Offers
    <3>2. x # NULL /\ x.media \in Seq(Usable)
      BY <1>2, <2>3, <3>1 DEF Sound
    <3>3. b = x.media /\ b # NULL
      BY <3>2, UsableNotNull DEF Body
    <3> QED BY <1>2, <2>3, <3>1, <3>3
  <2> QED BY <2>1, <2>2, <2>3
<1> HIDE DEF b, d
<1>9. /\ neg'[s] = n /\ neg'[t] = neg[t] /\ DOMAIN neg' = Side
      /\ tdata'[s] = d /\ tdata'[t] = tdata[t] /\ DOMAIN tdata' = Side
      /\ s \notin unsent' /\ (t \in unsent' <=> t \in unsent)
  BY <1>2, <1>4, <1>5, <1>6
<1>10. Moves(s, t)
  BY <1>2, <1>5, <1>8, <1>9 DEF Moves
<1>11. Active(s)' = Active(s)
  BY <1>8, <1>9 DEF Active
<1>12. Held(s)'
  BY <1>3, <1>5, <1>7, <1>8, <1>9 DEF Held, Offers, OfferOf, Serving, Calling, Opens
<1>13. \/ neg'[s] = neg[s]
       \/ neg[s].state = "DONE" /\ neg'[s].state = "LOCAL_OFFER"
  BY <1>8, <1>9
<1> QED BY <1>2, <1>3, <1>5, <1>6, <1>9, <1>10, <1>11, <1>12, <1>13, CreateStep

LEMMA RequestCall ==
    ASSUME IndInv, CallInv, Proviso, NEW s \in Side, Request(s)
    PROVE  CallInv'
<1>1. CASE Reinvite(s)
  <2>1. PICK n \in IF s \in unsent THEN {neg[s]} ELSE LocalOffers(s) :
          Keep(s, n) /\ Create(s, "INVITE", n.neg_local_sdp)
    BY <1>1 DEF Reinvite
  <2>2. MayCall(s) /\ (s \in unsent \/ neg[s].state = "DONE")
    BY <1>1 DEF Reinvite
  <2> QED BY <2>1, <2>2, CreateCall
<1>2. CASE ReinviteOfferless(s)
  BY <1>2, CreateCall DEF ReinviteOfferless
<1>3. CASE Update(s)
  <2>1. PICK n \in LocalOffers(s) : Keep(s, n) /\ Create(s, "UPDATE", n.neg_local_sdp)
    BY <1>3 DEF Update, LocalOffers
  <2>2. MayCall(s) /\ neg[s].state = "DONE"
    BY <1>3 DEF Update
  <2> QED BY <2>1, <2>2, CreateCall
<1> QED BY <1>1, <1>2, <1>3 DEF Request

(* The caller sends the request it has created.                             *)
LEMMA CallUnchanged ==
    ASSUME CallInv, UNCHANGED << neg, invite_tsx, local_cseq, net, failed, tdata, unsent >>
    PROVE  CallInv'
BY DEF CallInv, Types, Half, OpenOnce, OpenFor, AckOnce, AckFor, DeferredFor, Held,
       AnswerOnce, Matched, Opens, Serving, Calling, WaitsForAck, IsAnswer, AnswerTo, Offers,
       OfferOf, Active

LEMMA SendCall ==
    ASSUME IndInv, CallInv, NEW s \in Side, tdata[s] # NULL, SendRequest(s),
           \/ tdata[s].method = "UPDATE" /\ UNCHANGED invite_tsx
           \/ /\ tdata[s].method = "INVITE" /\ invite_tsx[s] = NULL
              /\ SetTsx(s, Tsx("UAC", local_cseq[s] + 1, "calling"))
    PROVE  CallInv'
<1>1. PICK t : t = Peer(s)
  OBVIOUS
<1>2. /\ t \in Side /\ s # t /\ Side = {s, t} /\ Sound(neg[s])
      /\ DOMAIN neg = Side /\ DOMAIN invite_tsx = Side /\ DOMAIN local_cseq = Side
      /\ local_cseq[s] \in Nat /\ (invite_tsx[s] = NULL \/ invite_tsx[s] \in TsxType)
  BY <1>1, Known
<1>3. Held(s) /\ DOMAIN tdata = Side
  BY <1>2 DEF CallInv, Half
<1> DEFINE k == Message("request", tdata[s].method, s, local_cseq[s] + 1, tdata[s].sdp)
           x == Tsx("UAC", local_cseq[s] + 1, "calling")
<1>4. /\ k.type = "request" /\ k.method = tdata[s].method /\ k.from = s
      /\ k.cseq = local_cseq[s] + 1 /\ k.sdp = tdata[s].sdp
  BY MessageFields
<1>5. /\ net' = net \union {k} /\ local_cseq' = [local_cseq EXCEPT ![s] = @ + 1]
      /\ tdata' = [tdata EXCEPT ![s] = NULL] /\ neg' = neg /\ failed' = failed
      /\ unsent' = unsent
  BY DEF SendRequest, Send
<1>6. x # NULL /\ x.role = "UAC" /\ x \in TsxType
  <2>1. local_cseq[s] + 1 \in Nat
    BY <1>2
  <2> QED BY <2>1, ClientTsx
<1>7. \/ tdata[s].method = "UPDATE" /\ invite_tsx' = invite_tsx
      \/ /\ tdata[s].method = "INVITE" /\ invite_tsx[s] = NULL
         /\ invite_tsx' = [invite_tsx EXCEPT ![s] = x]
  BY DEF SetTsx
<1> HIDE DEF k, x
<1>8. k.sdp = NULL \/ k.sdp \in Seq(Usable)
  <2>1. tdata[s].sdp # NULL => tdata[s].sdp = OfferOf(s) /\ Offers(s)
    BY <1>3 DEF Held
  <2> QED BY <1>2, <1>4, <2>1 DEF Sound, Offers, OfferOf
<1>9. MessageOK(k)
  BY <1>2, <1>4, <1>7, <1>8 DEF MessageOK
<1>10. /\ local_cseq'[s] = local_cseq[s] + 1 /\ local_cseq'[t] = local_cseq[t]
       /\ DOMAIN local_cseq' = Side
       /\ tdata'[s] = NULL /\ tdata'[t] = tdata[t] /\ DOMAIN tdata' = Side
  BY <1>2, <1>3, <1>5
<1>11. /\ DOMAIN invite_tsx' = Side /\ invite_tsx'[t] = invite_tsx[t]
       /\ invite_tsx'[s] = NULL \/ invite_tsx'[s] \in TsxType
       /\ IF k.method = "INVITE" THEN invite_tsx[s] = NULL /\ Calling(s)'
          ELSE k.method = "UPDATE" /\ invite_tsx'[s] = invite_tsx[s]
  <2>1. CASE tdata[s].method = "UPDATE" /\ invite_tsx' = invite_tsx
    BY <1>2, <1>4, <2>1
  <2>2. CASE /\ tdata[s].method = "INVITE" /\ invite_tsx[s] = NULL
             /\ invite_tsx' = [invite_tsx EXCEPT ![s] = x]
    BY <1>2, <1>4, <1>6, <2>2 DEF Calling
  <2> QED BY <1>7, <2>1, <2>2
<1>12. Moves(s, t)
  BY <1>2, <1>5, <1>9, <1>10, <1>11 DEF Moves
<1>13. neg'[s] = neg[s]
  BY <1>5
<1> QED BY <1>2, <1>4, <1>5, <1>10, <1>11, <1>12, <1>13, StartStep

(* It is looked at once more, or dropped.                                   *)
LEMMA PrepareCall ==
    ASSUME IndInv, CallInv, NEW s \in Side, CheckRequest(s) \/ RefuseRequest(s)
    PROVE  CallInv'
<1>1. PICK t : t = Peer(s)
  OBVIOUS
<1>2. /\ t \in Side /\ s # t /\ Side = {s, t} /\ Sound(neg[s])
      /\ DOMAIN neg = Side /\ DOMAIN invite_tsx = Side /\ DOMAIN local_cseq = Side
      /\ local_cseq[s] \in Nat /\ (invite_tsx[s] = NULL \/ invite_tsx[s] \in TsxType)
  BY <1>1, Known
<1>3. Held(s) /\ DOMAIN tdata = Side
  BY <1>2 DEF CallInv, Half
<1>4. /\ neg' = neg /\ invite_tsx' = invite_tsx /\ local_cseq' = local_cseq
      /\ net' = net /\ failed' = failed /\ tdata[s] # NULL
  BY DEF CheckRequest, RefuseRequest
<1>5. Moves(s, t)
  BY <1>2, <1>4 DEF Moves
<1>6. /\ DOMAIN tdata' = Side /\ tdata'[t] = tdata[t] /\ (t \in unsent' <=> t \in unsent)
      /\ Held(s)'
  <2>1. CASE CheckRequest(s)
    <3> DEFINE d == Tdata(tdata[s].method, tdata[s].sdp, TRUE)
    <3>1. tdata' = [tdata EXCEPT ![s] = d] /\ unsent' = unsent
      BY <2>1 DEF CheckRequest
    <3>2. d.method = tdata[s].method /\ d.sdp = tdata[s].sdp
      BY DEF Tdata
    <3> HIDE DEF d
    <3>3. tdata'[s] = d /\ tdata'[t] = tdata[t] /\ DOMAIN tdata' = Side
      BY <1>2, <1>3, <3>1
    <3> QED BY <1>3, <1>4, <3>1, <3>2, <3>3 DEF Held, Offers, OfferOf, Serving, Calling, Opens
  <2>2. CASE RefuseRequest(s)
    <3>1. /\ tdata' = [tdata EXCEPT ![s] = NULL]
          /\ unsent' = IF tdata[s].sdp = NULL THEN unsent ELSE unsent \union {s}
      BY <2>2 DEF RefuseRequest
    <3>2. tdata'[s] = NULL /\ tdata'[t] = tdata[t] /\ DOMAIN tdata' = Side
      BY <1>2, <1>3, <3>1
    <3> QED BY <1>2, <1>3, <1>4, <3>1, <3>2 DEF Held, Offers, OfferOf, Serving, Calling, Opens
  <2> QED BY <2>1, <2>2
<1>7. Active(s)' = Active(s)
  BY <1>4 DEF Active
<1> QED BY <1>2, <1>4, <1>5, <1>6, <1>7, CreateStep

LEMMA DispatchCall ==
    ASSUME IndInv, CallInv, NEW s \in Side, Dispatch(s)
    PROVE  CallInv'
<1>1. CASE SendUpdate(s) \/ SendInvite(s)
  BY <1>1, SendCall DEF SendUpdate, SendInvite
<1>2. CASE AssertFails(s)
  BY <1>2, CallUnchanged DEF AssertFails
<1> QED BY <1>1, <1>2, PrepareCall DEF Dispatch

-----------------------------------------------------------------------------
(* The negotiator after the answer of s to the offer in m, and after it has *)
(* refused the offer.                                                       *)
LEMMA OfferAnswered ==
    ASSUME IndInv, CallInv, Proviso, NEW s \in Side, NEW m, m.sdp \in Seq(Usable),
           neg[s].state = "DONE", NEW r \in OurAnswers(s, Offered(s, m))
    PROVE  /\ Sound(r.neg) /\ r.neg.state = "DONE"
           /\ r.ok => /\ AnswerOf(r) = r.neg.active_local_sdp.media
                      /\ AnswerOf(r) \in Seq(Usable) /\ AnswerOf(r) # NULL
                      /\ \E l \in Local[s] : AnswerOf(r) = create_answer(l, m.sdp).media
           /\ ~r.ok => /\ AnswerOf(r) = NULL
                       /\ r.neg.active_local_sdp = neg[s].active_local_sdp
<1> DEFINE n == Offered(s, m)
<1>1. prov(s) \in {1, 2} /\ Sound(neg[s])
  BY Known
<1>2. Resting(neg[s], {0, 3 - prov(s)})
  BY AtRest
<1>3. Invited(n, {0, 3 - prov(s)}, {prov(s)})
  BY OfferedInvited
<1>4. /\ Sound(n) /\ n.active_local_sdp = neg[s].active_local_sdp
      /\ n.neg_remote_sdp.media = m.sdp
  BY <1>1, <1>2, InvitedFields DEF Offered
<1>5. r \in OurAnswers(s, n) /\ Local[s] \subseteq Seq(Usable)
  BY DEF Proviso
<1> HIDE DEF n
<1>6. n.neg_remote_sdp.media \in Seq(Usable)
  BY <1>4
<1>7. /\ Sound(r.neg) /\ r.neg.state = "DONE"
      /\ r.ok => /\ AnswerOf(r) = r.neg.active_local_sdp.media
                 /\ \E l \in Local[s] :
                       AnswerOf(r) = create_answer(l, n.neg_remote_sdp.media).media
      /\ ~r.ok => AnswerOf(r) = NULL /\ r.neg.active_local_sdp = n.active_local_sdp
  BY <1>1, <1>3, <1>4, <1>5, <1>6, OurAnswerFields
<1>8. r.ok => AnswerOf(r) \in Seq(Usable)
  BY <1>7 DEF Sound
<1>9. r.ok => AnswerOf(r) # NULL
  BY <1>8, UsableNotNull
<1> QED BY <1>4, <1>7, <1>8, <1>9

LEMMA OfferRefused ==
    ASSUME IndInv, CallInv, NEW s \in Side, NEW m, neg[s].state = "DONE"
    PROVE  LET u == cancel_offer(Offered(s, m))
           IN  /\ Sound(u) /\ u.state = "DONE"
               /\ u.active_local_sdp = neg[s].active_local_sdp
<1> DEFINE n == Offered(s, m)
<1>1. prov(s) \in {1, 2} /\ Sound(neg[s])
  BY Known
<1>2. Resting(neg[s], {0, 3 - prov(s)})
  BY AtRest
<1>3. Invited(n, {0, 3 - prov(s)}, {prov(s)})
  BY OfferedInvited
<1>4. Sound(n) /\ n.active_local_sdp = neg[s].active_local_sdp
  BY <1>1, <1>2, InvitedFields DEF Offered
<1> HIDE DEF n
<1>5. LET u == cancel_offer(n)
      IN  Sound(u) /\ u.state = "DONE" /\ u.active_local_sdp = n.active_local_sdp
  BY <1>3, <1>4, CancelledFields
<1> QED BY <1>4, <1>5 DEF n

(* What a handler of s changes.                                             *)
LEMMA NegSet ==
    ASSUME NEW s \in Side, NEW t \in Side, s # t, DOMAIN neg = Side, NEW n, SetNeg(s, n)
    PROVE  neg'[s] = n /\ neg'[t] = neg[t] /\ DOMAIN neg' = Side
BY DEF SetNeg

LEMMA NegKept ==
    ASSUME IndInv, NEW s \in Side, neg' = neg
    PROVE  SetNeg(s, neg[s])
BY DEF IndInv, SetNeg

LEMMA TsxSet ==
    ASSUME NEW s \in Side, NEW t \in Side, s # t, DOMAIN invite_tsx = Side,
           NEW x, SetTsx(s, x)
    PROVE  /\ invite_tsx'[s] = x /\ invite_tsx'[t] = invite_tsx[t]
           /\ DOMAIN invite_tsx' = Side
BY DEF SetTsx

LEMMA Replied ==
    ASSUME NEW s \in Side, NEW m, m.from = Peer(s), MessageOK(m),
           NEW type \in {"ok", "fail", "ACK"}, type = "ACK" => m.method = "INVITE",
           NEW sdp, sdp = NULL \/ sdp \in Seq(Usable), Reply(m, type, sdp)
    PROVE  \E k : /\ net' = (net \ {m}) \union {k} /\ MessageOK(k)
                  /\ k.type = type /\ k.method = m.method /\ k.from = s
                  /\ k.cseq = m.cseq /\ k.sdp = sdp
<1> DEFINE k == Message(type, m.method, s, m.cseq, sdp)
<1>1. net' = (net \ {m}) \union {k}
  BY Ends DEF Reply
<1>2. /\ k.type = type /\ k.method = m.method /\ k.from = s
      /\ k.cseq = m.cseq /\ k.sdp = sdp
  BY MessageFields
<1> HIDE DEF k
<1>3. MessageOK(k)
  BY <1>2 DEF MessageOK
<1> QED BY <1>1, <1>2, <1>3

(* s rejects the request m; its negotiator becomes n.                       *)
LEMMA RejectCall ==
    ASSUME tdata' = tdata, unsent' = unsent,
           IndInv, CallInv, NEW s \in Side, NEW m \in net, m.type = "request",
           m.from = Peer(s), NEW n, Sound(n), SetNeg(s, n), n.state = neg[s].state,
           n.active_local_sdp = neg[s].active_local_sdp,
           n = neg[s] \/ neg[s].state = "DONE",
           Reply(m, "fail", NULL), UNCHANGED << local_cseq, failed >>,
           \/ UNCHANGED invite_tsx
           \/ invite_tsx[s] = NULL /\ SetTsx(s, Tsx("UAS", m.cseq, "completed"))
    PROVE  CallInv'
<1>1. PICK t : t = Peer(s)
  OBVIOUS
<1>2. /\ t \in Side /\ s # t /\ Side = {s, t} /\ MessageOK(m)
      /\ DOMAIN neg = Side /\ DOMAIN invite_tsx = Side /\ DOMAIN local_cseq = Side
      /\ local_cseq[s] \in Nat /\ (invite_tsx[s] = NULL \/ invite_tsx[s] \in TsxType)
  BY <1>1, Known
<1>3. PICK k : /\ net' = (net \ {m}) \union {k} /\ MessageOK(k)
               /\ k.type = "fail" /\ k.method = m.method /\ k.from = s
               /\ k.cseq = m.cseq /\ k.sdp = NULL
  BY <1>2, Replied
<1>4. neg'[s] = n /\ neg'[t] = neg[t] /\ DOMAIN neg' = Side
  BY <1>2, NegSet
<1>5. /\ DOMAIN invite_tsx' = Side /\ invite_tsx'[t] = invite_tsx[t]
      /\ invite_tsx'[s] = NULL \/ invite_tsx'[s] \in TsxType
      /\ \/ invite_tsx'[s] = invite_tsx[s]
         \/ /\ invite_tsx[s] = NULL /\ invite_tsx'[s] # NULL
            /\ invite_tsx'[s].role = "UAS" /\ invite_tsx'[s].state = "completed"
  <2>1. CASE UNCHANGED invite_tsx
    BY <1>2, <2>1
  <2>2. CASE invite_tsx[s] = NULL /\ SetTsx(s, Tsx("UAS", m.cseq, "completed"))
    <3> DEFINE x == Tsx("UAS", m.cseq, "completed")
    <3>1. x \in TsxType /\ x # NULL /\ x.role = "UAS" /\ x.state = "completed"
      BY <1>2, ServerTsx DEF MessageOK
    <3>2. SetTsx(s, x)
      BY <2>2
    <3> HIDE DEF x
    <3>3. /\ invite_tsx'[s] = x /\ invite_tsx'[t] = invite_tsx[t]
          /\ DOMAIN invite_tsx' = Side
      BY <1>2, <3>2, TsxSet
    <3> QED BY <2>2, <3>1, <3>3
  <2> QED BY <2>1, <2>2
<1>6. Moves(s, t)
  BY <1>2, <1>3, <1>4, <1>5 DEF Moves
<1>7. neg'[s].state = neg[s].state /\ Active(s)' = Active(s)
  BY <1>4 DEF Active
<1> QED BY <1>1, <1>2, <1>3, <1>4, <1>5, <1>6, <1>7, RejectStep

(* Too early, or refused by the application.                                *)
LEMMA RejectInviteCall ==
    ASSUME tdata' = tdata, unsent' = unsent,
           IndInv, CallInv, NEW s \in Side, RejectInvite(s)
    PROVE  CallInv'
<1>1. PICK m \in Incoming(s, "request", "INVITE") :
        /\ invite_tsx[s] # NULL \/ neg[s].state # "DONE"
        /\ IF invite_tsx[s] # NULL THEN UNCHANGED invite_tsx
           ELSE SetTsx(s, Tsx("UAS", m.cseq, "completed"))
        /\ Reply(m, "fail", NULL)
        /\ UNCHANGED << neg, pool_prov, local_cseq, failed >>
  BY DEF RejectInvite
<1>2. m \in net /\ m.type = "request" /\ m.from = Peer(s)
  BY DEF Incoming
<1>3. Sound(neg[s]) /\ SetNeg(s, neg[s])
  BY <1>1, Known, NegKept
<1> QED BY <1>1, <1>2, <1>3, RejectCall

LEMMA RejectUpdateCall ==
    ASSUME tdata' = tdata, unsent' = unsent,
           IndInv, CallInv, NEW s \in Side, RejectUpdate(s)
    PROVE  CallInv'
<1>1. PICK m \in Incoming(s, "request", "UPDATE") :
        /\ Reply(m, "fail", NULL)
        /\ UNCHANGED << neg, pool_prov, invite_tsx, local_cseq, failed >>
  BY DEF RejectUpdate
<1>2. m \in net /\ m.type = "request" /\ m.from = Peer(s)
  BY DEF Incoming
<1>3. Sound(neg[s]) /\ SetNeg(s, neg[s])
  BY <1>1, Known, NegKept
<1> QED BY <1>1, <1>2, <1>3, RejectCall

LEMMA RefuseInviteCall ==
    ASSUME tdata' = tdata, unsent' = unsent,
           IndInv, CallInv, NEW s \in Side, RefuseInvite(s)
    PROVE  CallInv'
<1>1. PICK m \in net :
        /\ RecvInvite(s, m) /\ Keep(s, cancel_offer(Offered(s, m)))
        /\ Reply(m, "fail", NULL) /\ SetTsx(s, Tsx("UAS", m.cseq, "completed"))
        /\ UNCHANGED local_cseq
  BY DEF RefuseInvite
<1>2. /\ m.type = "request" /\ m.from = Peer(s)
      /\ invite_tsx[s] = NULL /\ neg[s].state = "DONE"
  BY <1>1 DEF RecvInvite, Incoming
<1> DEFINE n == cancel_offer(Offered(s, m))
<1>3. Sound(n) /\ n.state = "DONE" /\ n.active_local_sdp = neg[s].active_local_sdp
  BY <1>2, OfferRefused
<1>4. SetNeg(s, n) /\ failed' = failed
  BY <1>1 DEF Keep
<1> HIDE DEF n
<1> QED BY <1>1, <1>2, <1>3, <1>4, RejectCall

LEMMA RefuseUpdateCall ==
    ASSUME tdata' = tdata, unsent' = unsent,
           IndInv, CallInv, NEW s \in Side, RefuseUpdate(s)
    PROVE  CallInv'
<1>1. PICK m \in Incoming(s, "request", "UPDATE") :
        /\ neg[s].state = "DONE" /\ Keep(s, cancel_offer(Offered(s, m)))
        /\ Reply(m, "fail", NULL) /\ UNCHANGED << invite_tsx, local_cseq >>
  BY DEF RefuseUpdate
<1>2. m \in net /\ m.type = "request" /\ m.from = Peer(s)
  BY DEF Incoming
<1> DEFINE n == cancel_offer(Offered(s, m))
<1>3. Sound(n) /\ n.state = "DONE" /\ n.active_local_sdp = neg[s].active_local_sdp
  BY <1>1, OfferRefused
<1>4. SetNeg(s, n) /\ failed' = failed
  BY <1>1 DEF Keep
<1> HIDE DEF n
<1> QED BY <1>1, <1>2, <1>3, <1>4, RejectCall

(* s answers the offer in the request m at once.                            *)
LEMMA AnswerCall ==
    ASSUME tdata' = tdata, unsent' = unsent,
           IndInv, CallInv, Proviso, NEW s \in Side, NEW m \in net, m.type = "request",
           m.from = Peer(s), m.sdp # NULL, neg[s].state = "DONE",
           NEW r \in OurAnswers(s, Offered(s, m)), SetNeg(s, r.neg),
           Reply(m, FinalType(r.ok), AnswerOf(r)), UNCHANGED << local_cseq, failed >>,
           IF m.method = "UPDATE" THEN UNCHANGED invite_tsx
           ELSE /\ invite_tsx[s] = NULL
                /\ SetTsx(s, Tsx("UAS", m.cseq, ServerState(r.ok)))
    PROVE  CallInv'
<1>1. PICK t : t = Peer(s)
  OBVIOUS
<1>2. /\ t \in Side /\ s # t /\ Side = {s, t} /\ MessageOK(m)
      /\ DOMAIN neg = Side /\ DOMAIN invite_tsx = Side /\ DOMAIN local_cseq = Side
      /\ local_cseq[s] \in Nat /\ (invite_tsx[s] = NULL \/ invite_tsx[s] \in TsxType)
  BY <1>1, Known
<1>3. m.sdp \in Seq(Usable)
  BY <1>2 DEF MessageOK
<1>4. /\ Sound(r.neg) /\ r.neg.state = "DONE"
      /\ r.ok => /\ AnswerOf(r) = r.neg.active_local_sdp.media
                 /\ AnswerOf(r) \in Seq(Usable) /\ AnswerOf(r) # NULL
                 /\ \E l \in Local[s] : AnswerOf(r) = create_answer(l, m.sdp).media
      /\ ~r.ok => /\ AnswerOf(r) = NULL
                  /\ r.neg.active_local_sdp = neg[s].active_local_sdp
  BY <1>3, OfferAnswered
<1>5. CASE ~r.ok
  <2>1. FinalType(r.ok) = "fail" /\ ServerState(r.ok) = "completed"
    BY <1>5 DEF FinalType, ServerState
  <2>2. \/ UNCHANGED invite_tsx
        \/ invite_tsx[s] = NULL /\ SetTsx(s, Tsx("UAS", m.cseq, "completed"))
    BY <2>1
  <2>3. Reply(m, "fail", NULL)
    BY <1>4, <1>5, <2>1
  <2> DEFINE n == r.neg
  <2>4. /\ Sound(n) /\ n.state = neg[s].state /\ SetNeg(s, n)
        /\ n.active_local_sdp = neg[s].active_local_sdp
    BY <1>4, <1>5
  <2> HIDE DEF n
  <2> QED BY <2>2, <2>3, <2>4, RejectCall
<1>6. CASE r.ok
  <2>1. FinalType(r.ok) = "ok" /\ ServerState(r.ok) = "accepted"
    BY <1>6 DEF FinalType, ServerState
  <2>2. Reply(m, "ok", AnswerOf(r))
    BY <2>1
  <2>3. PICK k : /\ net' = (net \ {m}) \union {k} /\ MessageOK(k)
                 /\ k.type = "ok" /\ k.method = m.method /\ k.from = s
                 /\ k.cseq = m.cseq /\ k.sdp = AnswerOf(r)
    BY <1>2, <1>4, <1>6, <2>2, Replied
  <2> DEFINE n == r.neg
  <2>4. neg'[s] = n /\ neg'[t] = neg[t] /\ DOMAIN neg' = Side
    BY <1>2, NegSet
  <2>5. /\ DOMAIN invite_tsx' = Side /\ invite_tsx'[t] = invite_tsx[t]
        /\ invite_tsx'[s] = NULL \/ invite_tsx'[s] \in TsxType
        /\ IF m.method = "UPDATE" THEN invite_tsx'[s] = invite_tsx[s]
           ELSE /\ invite_tsx[s] = NULL /\ invite_tsx'[s] # NULL
                /\ invite_tsx'[s].role = "UAS" /\ invite_tsx'[s].state = "accepted"
    <3>1. CASE m.method = "UPDATE"
      BY <1>2, <3>1
    <3>2. CASE m.method # "UPDATE"
      <4> DEFINE x == Tsx("UAS", m.cseq, "accepted")
      <4>1. x \in TsxType /\ x # NULL /\ x.role = "UAS" /\ x.state = "accepted"
        BY <1>2, ServerTsx DEF MessageOK
      <4>2. SetTsx(s, x) /\ invite_tsx[s] = NULL
        BY <2>1, <3>2
      <4> HIDE DEF x
      <4>3. /\ invite_tsx'[s] = x /\ invite_tsx'[t] = invite_tsx[t]
            /\ DOMAIN invite_tsx' = Side
        BY <1>2, <4>2, TsxSet
      <4> QED BY <3>2, <4>1, <4>2, <4>3
    <3> QED BY <3>1, <3>2
  <2>6. Moves(s, t)
    BY <1>2, <1>4, <2>3, <2>4, <2>5 DEF Moves
  <2>7. neg'[s].state = "DONE" /\ Active(s)' = k.sdp
    BY <1>4, <1>6, <2>3, <2>4 DEF Active
  <2>8. k.sdp # NULL /\ \E l \in Local[s] : k.sdp = create_answer(l, m.sdp).media
    BY <1>4, <1>6, <2>3
  <2> QED BY <1>1, <1>2, <2>3, <2>5, <2>6, <2>7, <2>8, AnswerStep
<1> QED BY <1>5, <1>6

LEMMA AnswerInviteCall ==
    ASSUME tdata' = tdata, unsent' = unsent,
           IndInv, CallInv, Proviso, NEW s \in Side, AnswerInvite(s)
    PROVE  CallInv'
<1>1. PICK m \in net :
        /\ RecvInvite(s, m) /\ m.sdp # NULL
        /\ \E r \in OurAnswers(s, Offered(s, m)) :
              /\ Negotiated(s, r)
              /\ Reply(m, FinalType(r.ok), AnswerOf(r))
              /\ SetTsx(s, Tsx("UAS", m.cseq, ServerState(r.ok)))
        /\ UNCHANGED << local_cseq, failed >>
  BY DEF AnswerInvite
<1>2. PICK r \in OurAnswers(s, Offered(s, m)) :
        /\ Negotiated(s, r) /\ Reply(m, FinalType(r.ok), AnswerOf(r))
        /\ SetTsx(s, Tsx("UAS", m.cseq, ServerState(r.ok)))
  BY <1>1
<1>3. /\ m.type = "request" /\ m.from = Peer(s) /\ m.method = "INVITE"
      /\ invite_tsx[s] = NULL /\ neg[s].state = "DONE"
  BY <1>1 DEF RecvInvite, Incoming
<1>4. SetNeg(s, r.neg)
  BY <1>2 DEF Negotiated
<1> QED BY <1>1, <1>2, <1>3, <1>4, AnswerCall

LEMMA AnswerUpdateCall ==
    ASSUME tdata' = tdata, unsent' = unsent,
           IndInv, CallInv, Proviso, NEW s \in Side, AnswerUpdate(s)
    PROVE  CallInv'
<1>1. PICK m \in Incoming(s, "request", "UPDATE") :
        /\ neg[s].state = "DONE"
        /\ \E r \in OurAnswers(s, Offered(s, m)) :
              Negotiated(s, r) /\ Reply(m, FinalType(r.ok), AnswerOf(r))
        /\ UNCHANGED << invite_tsx, local_cseq, failed >>
  BY DEF AnswerUpdate
<1>2. PICK r \in OurAnswers(s, Offered(s, m)) :
        Negotiated(s, r) /\ Reply(m, FinalType(r.ok), AnswerOf(r))
  BY <1>1
<1>3. m \in net /\ m.type = "request" /\ m.from = Peer(s) /\ m.method = "UPDATE"
  BY DEF Incoming
<1>4. m.sdp # NULL
  <2>1. PICK t : t = Peer(s)
    OBVIOUS
  <2>2. t \in Side /\ s # t /\ Side = {s, t}
    BY <2>1, Known
  <2>3. OpenFor(t, s)
    BY <2>2, BothWays
  <2> QED BY <1>3, <2>1, <2>2, <2>3 DEF OpenFor, Opens
<1>5. SetNeg(s, r.neg)
  BY <1>2 DEF Negotiated
<1> QED BY <1>1, <1>2, <1>3, <1>4, <1>5, AnswerCall

(* s will answer the re-INVITE later.                                       *)
LEMMA DeferCall ==
    ASSUME tdata' = tdata, unsent' = unsent,
           IndInv, CallInv, NEW s \in Side, DeferInvite(s)
    PROVE  CallInv'
<1>1. PICK t : t = Peer(s)
  OBVIOUS
<1>2. PICK m \in net :
        /\ RecvInvite(s, m) /\ m.sdp # NULL
        /\ Keep(s, Offered(s, m)) /\ Receive(m)
        /\ SetTsx(s, Tsx("UAS", m.cseq, "trying"))
        /\ UNCHANGED local_cseq
  BY DEF DeferInvite
<1>3. /\ m.type = "request" /\ m.from = t /\ m.method = "INVITE"
      /\ invite_tsx[s] = NULL /\ neg[s].state = "DONE"
  BY <1>1, <1>2 DEF RecvInvite, Incoming
<1>4. /\ t \in Side /\ s # t /\ Side = {s, t} /\ MessageOK(m) /\ Sound(neg[s])
      /\ DOMAIN neg = Side /\ DOMAIN invite_tsx = Side /\ DOMAIN local_cseq = Side
      /\ local_cseq[s] \in Nat
  BY <1>1, Known
<1> DEFINE n == Offered(s, m)
           x == Tsx("UAS", m.cseq, "trying")
<1>5. /\ Sound(n) /\ n.state = "REMOTE_OFFER" /\ n.neg_remote_sdp.media = m.sdp
      /\ n.active_local_sdp = neg[s].active_local_sdp
  <2>1. Resting(neg[s], {0, 3 - prov(s)})
    BY <1>3, AtRest
  <2> QED BY <1>4, <2>1, InvitedFields DEF Offered
<1>6. SetNeg(s, n) /\ SetTsx(s, x) /\ failed' = failed /\ net' = net \ {m}
  BY <1>2 DEF Keep, Receive
<1>7. /\ x \in TsxType /\ x # NULL /\ x.role = "UAS" /\ x.state = "trying"
      /\ x.cseq = m.cseq
  BY <1>4, ServerTsx DEF MessageOK
<1> HIDE DEF n, x
<1>8. neg'[s] = n /\ neg'[t] = neg[t] /\ DOMAIN neg' = Side
  BY <1>4, <1>6, NegSet
<1>9. invite_tsx'[s] = x /\ invite_tsx'[t] = invite_tsx[t] /\ DOMAIN invite_tsx' = Side
  BY <1>4, <1>6, TsxSet
<1>10. Moves(s, t)
  BY <1>2, <1>4, <1>5, <1>6, <1>7, <1>8, <1>9 DEF Moves
<1>11. Active(s)' = Active(s)
  BY <1>5, <1>8 DEF Active
<1> QED BY <1>2, <1>3, <1>4, <1>5, <1>6, <1>7, <1>8, <1>9, <1>10, <1>11, DeferStep

(* s makes its offer in the 2xx to a re-INVITE without one.                 *)
LEMMA OfferInOkCall ==
    ASSUME tdata' = tdata, unsent' = unsent,
           IndInv, CallInv, Proviso, NEW s \in Side, OfferInOk(s)
    PROVE  CallInv'
<1>1. PICK t : t = Peer(s)
  OBVIOUS
<1>2. PICK m \in net :
        /\ RecvInvite(s, m) /\ m.sdp = NULL
        /\ \E n \in LocalOffers(s) : Keep(s, n) /\ Reply(m, "ok", Body(n.neg_local_sdp))
        /\ SetTsx(s, Tsx("UAS", m.cseq, "accepted"))
        /\ UNCHANGED local_cseq
  BY DEF OfferInOk
<1>3. PICK n \in LocalOffers(s) : Keep(s, n) /\ Reply(m, "ok", Body(n.neg_local_sdp))
  BY <1>2
<1>4. /\ m.type = "request" /\ m.from = t /\ m.method = "INVITE"
      /\ invite_tsx[s] = NULL /\ neg[s].state = "DONE"
  BY <1>1, <1>2 DEF RecvInvite, Incoming
<1>5. /\ t \in Side /\ s # t /\ Side = {s, t} /\ MessageOK(m) /\ Sound(neg[s])
      /\ prov(s) \in {1, 2}
      /\ DOMAIN neg = Side /\ DOMAIN invite_tsx = Side /\ DOMAIN local_cseq = Side
      /\ local_cseq[s] \in Nat
  BY <1>1, Known
<1>6. /\ Sound(n) /\ n.state = "LOCAL_OFFER" /\ n.active_local_sdp = neg[s].active_local_sdp
      /\ Body(n.neg_local_sdp) = n.neg_local_sdp.media
  BY <1>4, LocalOfferFields
<1> DEFINE b == n.neg_local_sdp.media
           x == Tsx("UAS", m.cseq, "accepted")
<1>7. b \in Seq(Usable) /\ b # NULL
  BY <1>6, UsableNotNull DEF Sound
<1>8. SetNeg(s, n) /\ SetTsx(s, x) /\ failed' = failed /\ Reply(m, "ok", b)
  BY <1>2, <1>3, <1>6 DEF Keep
<1>9. /\ x \in TsxType /\ x # NULL /\ x.role = "UAS" /\ x.state = "accepted"
      /\ x.cseq = m.cseq
  BY <1>5, ServerTsx DEF MessageOK
<1>10. b = n.neg_local_sdp.media
  OBVIOUS
<1> HIDE DEF b, x
<1>11. PICK k : /\ net' = (net \ {m}) \union {k} /\ MessageOK(k)
                /\ k.type = "ok" /\ k.method = m.method /\ k.from = s
                /\ k.cseq = m.cseq /\ k.sdp = b
  BY <1>1, <1>4, <1>5, <1>7, <1>8, Replied
<1>12. neg'[s] = n /\ neg'[t] = neg[t] /\ DOMAIN neg' = Side
  BY <1>5, <1>8, NegSet
<1>13. invite_tsx'[s] = x /\ invite_tsx'[t] = invite_tsx[t] /\ DOMAIN invite_tsx' = Side
  BY <1>5, <1>8, TsxSet
<1>14. Moves(s, t)
  BY <1>2, <1>5, <1>6, <1>8, <1>9, <1>11, <1>12, <1>13 DEF Moves
<1>15. Active(s)' = Active(s) /\ Offers(s)' /\ k.sdp = OfferOf(s)'
  BY <1>6, <1>10, <1>11, <1>12 DEF Active, Offers, OfferOf
<1> QED BY <1>2, <1>4, <1>5, <1>7, <1>8, <1>9, <1>11, <1>13, <1>14, <1>15, OfferInOkStep

-----------------------------------------------------------------------------
(* s receives the answer in m to its offer o, made by t.                    *)
LEMMA AnswerHeard ==
    ASSUME IndInv, CallInv, Proviso, NEW s \in Side, NEW t \in Side,
           neg[s].state = "LOCAL_OFFER",
           NEW m, IsAnswer(s, t, m.sdp), NegotiateAnswer(s, m)
    PROVE  \E n : /\ SetNeg(s, n) /\ Sound(n) /\ n.state = "DONE"
                  /\ IF failed' THEN n.active_local_sdp = neg[s].active_local_sdp
                     ELSE n.active_local_sdp.media = process_answer(OfferOf(s), m.sdp).offer
<1> DEFINE o == neg[s].neg_local_sdp.media
           r == inv_negotiate_sdp(s, set_remote_answer(neg[s], prov(s), m.sdp))
           n == r.neg
<1>1. prov(s) \in {1, 2} /\ Sound(neg[s])
  BY Known
<1>2. Offering(neg[s], {0, 3 - prov(s)}, {prov(s)})
  BY DEF IndInv, Tidy, Resting, Invited, prov
<1>3. o \in Seq(Usable)
  BY <1>1 DEF Sound
<1>4. PICK l \in Local[t] : m.sdp = create_answer(l, o).media
  BY DEF IsAnswer, OfferOf
<1>5. l \in Seq(Usable)
  BY DEF Proviso
<1>6. process_answer(o, m.sdp).offer \in Seq(Usable)
  BY <1>3, <1>4, <1>5, AnswerMirrors
<1>7. /\ Sound(r.neg) /\ r.neg.state = "DONE"
      /\ r.ok => r.neg.active_local_sdp.media = process_answer(o, m.sdp).offer
      /\ ~r.ok => r.neg.active_local_sdp = neg[s].active_local_sdp
  BY <1>1, <1>2, <1>6, TheirAnswerFields
<1>8. SetNeg(s, r.neg) /\ failed' = ~r.ok
  BY DEF NegotiateAnswer, Negotiated
<1> HIDE DEF r
<1>9. IF failed' THEN n.active_local_sdp = neg[s].active_local_sdp
      ELSE n.active_local_sdp.media = process_answer(o, m.sdp).offer
  BY <1>7, <1>8
<1> HIDE DEF o
<1>10. OfferOf(s) = o
  BY DEF o, OfferOf
<1> QED BY <1>7, <1>8, <1>9, <1>10

(* Then both use the same media.                                            *)
LEMMA AnswersMirror ==
    ASSUME CallInv, Proviso, NEW s \in Side, NEW t \in Side, neg[s].state = "LOCAL_OFFER"
    PROVE  \A l \in Local[t] : LET a == create_answer(l, OfferOf(s)).media
                                   p == process_answer(OfferOf(s), a).offer
                               IN  Mirrored(p, a) /\ Mirrored(a, p)
<1> TAKE l \in Local[t]
<1>1. l \in Seq(Usable)
  BY DEF Proviso
<1>2. OfferOf(s) \in Seq(Usable)
  BY DEF CallInv, Types, Sound, OfferOf
<1> QED BY <1>1, <1>2, AnswerMirrors

(* The 2xx to a request of s carries the answer to its offer.               *)
LEMMA HearCall ==
    ASSUME tdata' = tdata, unsent' = unsent,
           IndInv, CallInv, Proviso, NEW s \in Side, NEW m \in net,
           m.type = "ok", m.from = Peer(s), m.sdp # NULL, neg[s].state = "LOCAL_OFFER",
           NegotiateAnswer(s, m), UNCHANGED local_cseq,
           IF m.method = "INVITE" THEN SetTsx(s, NULL) /\ Reply(m, "ACK", NULL)
           ELSE UNCHANGED invite_tsx /\ net' = net \ {m}
    PROVE  CallInv'
<1>1. PICK t : t = Peer(s)
  OBVIOUS
<1>2. /\ t \in Side /\ s # t /\ Side = {s, t} /\ MessageOK(m)
      /\ DOMAIN neg = Side /\ DOMAIN invite_tsx = Side /\ DOMAIN local_cseq = Side
      /\ local_cseq[s] \in Nat /\ (invite_tsx[s] = NULL \/ invite_tsx[s] \in TsxType)
  BY <1>1, Known
<1>3. IsAnswer(s, t, m.sdp)
  <2>1. OpenFor(s, t)
    BY <1>2, BothWays
  <2> QED BY <1>1, <1>2, <2>1 DEF OpenFor, Opens, Offers
<1>4. PICK n : /\ SetNeg(s, n) /\ Sound(n) /\ n.state = "DONE"
               /\ IF failed' THEN n.active_local_sdp = neg[s].active_local_sdp
                  ELSE n.active_local_sdp.media = process_answer(OfferOf(s), m.sdp).offer
  BY <1>2, <1>3, AnswerHeard
<1>5. neg'[s] = n /\ neg'[t] = neg[t] /\ DOMAIN neg' = Side
  BY <1>2, <1>4, NegSet
<1>6. PICK k : /\ k.type = "ACK" /\ k.from = s /\ k.method = m.method /\ k.cseq = m.cseq
               /\ k.sdp = NULL
               /\ IF m.method = "INVITE"
                  THEN net' = (net \ {m}) \union {k} /\ invite_tsx'[s] = NULL /\ MessageOK(k)
                  ELSE net' = net \ {m} /\ invite_tsx'[s] = invite_tsx[s]
               /\ invite_tsx'[t] = invite_tsx[t] /\ DOMAIN invite_tsx' = Side
  <2>1. CASE m.method = "INVITE"
    <3>1. invite_tsx'[s] = NULL /\ invite_tsx'[t] = invite_tsx[t] /\ DOMAIN invite_tsx' = Side
      BY <1>2, <2>1, TsxSet
    <3>2. \E k : /\ net' = (net \ {m}) \union {k} /\ MessageOK(k)
                 /\ k.type = "ACK" /\ k.method = m.method /\ k.from = s
                 /\ k.cseq = m.cseq /\ k.sdp = NULL
      BY <1>2, <2>1, Replied
    <3> QED BY <2>1, <3>1, <3>2
  <2>2. CASE m.method # "INVITE"
    <3> DEFINE k == Message("ACK", m.method, s, m.cseq, NULL)
    <3>1. /\ k.type = "ACK" /\ k.from = s /\ k.method = m.method /\ k.cseq = m.cseq
          /\ k.sdp = NULL
      BY MessageFields
    <3> HIDE DEF k
    <3> QED BY <1>2, <2>2, <3>1
  <2> QED BY <2>1, <2>2
<1>7. Moves(s, t)
  BY <1>2, <1>4, <1>5, <1>6 DEF Moves
<1>8. /\ neg'[s].state = "DONE"
      /\ IF failed' THEN Active(s)' = Active(s)
         ELSE Active(s)' = process_answer(OfferOf(s), m.sdp).offer
  BY <1>4, <1>5 DEF Active
<1>9. \A l \in Local[t] : LET a == create_answer(l, OfferOf(s)).media
                              p == process_answer(OfferOf(s), a).offer
                          IN  Mirrored(p, a) /\ Mirrored(a, p)
  BY <1>2, AnswersMirror
<1> QED BY <1>1, <1>2, <1>6, <1>7, <1>8, <1>9, HearStep DEF Offers

(* A request of s failed: an offer of s is cancelled.                       *)
LEMMA CancelLocalFields ==
    ASSUME IndInv, CallInv, NEW s \in Side
    PROVE  LET n == CancelLocal(neg[s])
           IN  /\ Sound(n) /\ n.active_local_sdp = neg[s].active_local_sdp
               /\ IF neg[s].state = "LOCAL_OFFER" THEN n.state = "DONE" ELSE n = neg[s]
<1>1. Sound(neg[s])
  BY Known
<1>2. CASE neg[s].state = "LOCAL_OFFER"
  <2>1. Offering(neg[s], {0, 3 - prov(s)}, {prov(s)})
    BY <1>2 DEF IndInv, Tidy, Resting, Invited, prov
  <2>2. CancelLocal(neg[s]) = cancel_offer(neg[s])
    BY <1>2 DEF CancelLocal
  <2>3. LET n == cancel_offer(neg[s])
        IN  /\ Sound(n) /\ n.state = "DONE"
            /\ n.active_local_sdp = neg[s].active_local_sdp
    BY <1>1, <2>1, CancelledFields
  <2> QED BY <1>2, <2>2, <2>3
<1>3. CASE neg[s].state # "LOCAL_OFFER"
  BY <1>1, <1>3 DEF CancelLocal
<1> QED BY <1>2, <1>3

LEMMA FailedCall ==
    ASSUME tdata' = tdata, unsent' = unsent,
           IndInv, CallInv, NEW s \in Side, NEW m \in net,
           m.type = "fail", m.from = Peer(s), Keep(s, CancelLocal(neg[s])),
           UNCHANGED local_cseq,
           IF m.method = "INVITE" THEN SetTsx(s, NULL) /\ Reply(m, "ACK", NULL)
           ELSE UNCHANGED invite_tsx /\ net' = net \ {m}
    PROVE  CallInv'
<1>1. PICK t : t = Peer(s)
  OBVIOUS
<1>2. /\ t \in Side /\ s # t /\ Side = {s, t} /\ MessageOK(m)
      /\ DOMAIN neg = Side /\ DOMAIN invite_tsx = Side /\ DOMAIN local_cseq = Side
      /\ local_cseq[s] \in Nat /\ (invite_tsx[s] = NULL \/ invite_tsx[s] \in TsxType)
  BY <1>1, Known
<1> DEFINE n == CancelLocal(neg[s])
<1>4. /\ Sound(n) /\ n.active_local_sdp = neg[s].active_local_sdp
      /\ IF neg[s].state = "LOCAL_OFFER" THEN n.state = "DONE" ELSE n = neg[s]
  BY CancelLocalFields
<1>5. neg'[s] = n /\ neg'[t] = neg[t] /\ DOMAIN neg' = Side /\ failed' = failed
  BY <1>2, NegSet DEF Keep
<1> HIDE DEF n
<1>6. PICK k : /\ k.type = "ACK" /\ k.from = s /\ k.method = m.method /\ k.cseq = m.cseq
               /\ k.sdp = NULL
               /\ IF m.method = "INVITE"
                  THEN net' = (net \ {m}) \union {k} /\ invite_tsx'[s] = NULL /\ MessageOK(k)
                  ELSE net' = net \ {m} /\ invite_tsx'[s] = invite_tsx[s]
               /\ invite_tsx'[t] = invite_tsx[t] /\ DOMAIN invite_tsx' = Side
  <2>1. CASE m.method = "INVITE"
    <3>1. invite_tsx'[s] = NULL /\ invite_tsx'[t] = invite_tsx[t] /\ DOMAIN invite_tsx' = Side
      BY <1>2, <2>1, TsxSet
    <3>2. \E k : /\ net' = (net \ {m}) \union {k} /\ MessageOK(k)
                 /\ k.type = "ACK" /\ k.method = m.method /\ k.from = s
                 /\ k.cseq = m.cseq /\ k.sdp = NULL
      BY <1>2, <2>1, Replied
    <3> QED BY <2>1, <3>1, <3>2
  <2>2. CASE m.method # "INVITE"
    <3> DEFINE k == Message("ACK", m.method, s, m.cseq, NULL)
    <3>1. /\ k.type = "ACK" /\ k.from = s /\ k.method = m.method /\ k.cseq = m.cseq
          /\ k.sdp = NULL
      BY MessageFields
    <3> HIDE DEF k
    <3> QED BY <1>2, <2>2, <3>1
  <2> QED BY <2>1, <2>2
<1>7. Moves(s, t)
  BY <1>2, <1>4, <1>5, <1>6 DEF Moves
<1>8. /\ Active(s)' = Active(s)
      /\ IF Offers(s) THEN neg'[s].state = "DONE" ELSE neg'[s] = neg[s]
  BY <1>4, <1>5 DEF Active, Offers
<1> QED BY <1>1, <1>2, <1>5, <1>6, <1>7, <1>8, FailedStep

(* s answers the offer in the 2xx m with its ACK.                           *)
LEMMA AckAnswerCall ==
    ASSUME tdata' = tdata, unsent' = unsent,
           IndInv, CallInv, Proviso, NEW s \in Side, AnswerInAck(s)
    PROVE  CallInv'
<1>1. PICK m \in Incoming(s, "ok", "INVITE") :
        /\ m.sdp # NULL /\ neg[s].state = "DONE"
        /\ \E r \in OurAnswers(s, Offered(s, m)) :
              Negotiated(s, r) /\ Acknowledge(s, m, AnswerOf(r))
        /\ UNCHANGED failed
  BY DEF AnswerInAck
<1>2. PICK r \in OurAnswers(s, Offered(s, m)) :
        Negotiated(s, r) /\ Acknowledge(s, m, AnswerOf(r))
  BY <1>1
<1>3. PICK t : t = Peer(s)
  OBVIOUS
<1>4. /\ t \in Side /\ s # t /\ Side = {s, t} /\ m \in net /\ MessageOK(m)
      /\ DOMAIN neg = Side /\ DOMAIN invite_tsx = Side /\ DOMAIN local_cseq = Side
      /\ local_cseq[s] \in Nat /\ m.type = "ok" /\ m.from = t /\ m.method = "INVITE"
  BY <1>3, Known DEF Incoming
<1>5. m.sdp \in Seq(Usable)
  BY <1>1, <1>4 DEF MessageOK
<1>6. /\ Sound(r.neg) /\ r.neg.state = "DONE"
      /\ r.ok => /\ AnswerOf(r) = r.neg.active_local_sdp.media
                 /\ AnswerOf(r) \in Seq(Usable) /\ AnswerOf(r) # NULL
                 /\ \E l \in Local[s] : AnswerOf(r) = create_answer(l, m.sdp).media
      /\ ~r.ok => /\ AnswerOf(r) = NULL
                  /\ r.neg.active_local_sdp = neg[s].active_local_sdp
  BY <1>1, <1>5, OfferAnswered
<1>7. /\ SetNeg(s, r.neg) /\ SetTsx(s, NULL) /\ Reply(m, "ACK", AnswerOf(r))
      /\ local_cseq' = local_cseq
  BY <1>2 DEF Negotiated, Acknowledge
<1> DEFINE n == r.neg
<1>8. neg'[s] = n /\ neg'[t] = neg[t] /\ DOMAIN neg' = Side
  BY <1>4, <1>7, NegSet
<1>9. invite_tsx'[s] = NULL /\ invite_tsx'[t] = invite_tsx[t] /\ DOMAIN invite_tsx' = Side
  BY <1>4, <1>7, TsxSet
<1>10. AnswerOf(r) = NULL \/ AnswerOf(r) \in Seq(Usable)
  BY <1>6
<1>11. PICK k : /\ net' = (net \ {m}) \union {k} /\ MessageOK(k)
                /\ k.type = "ACK" /\ k.method = m.method /\ k.from = s
                /\ k.cseq = m.cseq /\ k.sdp = AnswerOf(r)
  BY <1>3, <1>4, <1>7, <1>10, Replied
<1>12. Moves(s, t)
  BY <1>4, <1>6, <1>7, <1>8, <1>9, <1>11 DEF Moves
<1>13. /\ neg'[s].state = "DONE"
       /\ IF k.sdp = NULL THEN Active(s)' = Active(s)
          ELSE /\ Active(s)' = k.sdp
               /\ \E l \in Local[s] : k.sdp = create_answer(l, m.sdp).media
  <2>1. CASE r.ok
    BY <1>6, <1>8, <1>11, <2>1 DEF Active
  <2>2. CASE ~r.ok
    BY <1>6, <1>8, <1>11, <2>2 DEF Active
  <2> QED BY <2>1, <2>2
<1> QED BY <1>1, <1>4, <1>7, <1>9, <1>11, <1>12, <1>13, AckAnswerStep

(* s receives an ACK.                                                       *)
LEMMA AckCall ==
    ASSUME tdata' = tdata, unsent' = unsent,
           IndInv, CallInv, Proviso, NEW s \in Side, RecvAck(s)
    PROVE  CallInv'
<1>1. PICK m \in Incoming(s, "ACK", "INVITE") :
        /\ IF Acked(s, m) /\ invite_tsx[s].state = "accepted"
              /\ neg[s].state = "LOCAL_OFFER" /\ m.sdp # NULL
           THEN NegotiateAnswer(s, m)
           ELSE Keep(s, IF Acked(s, m) /\ invite_tsx[s].state = "accepted"
                        THEN CancelLocal(neg[s]) ELSE neg[s])
        /\ IF Acked(s, m) THEN SetTsx(s, NULL) ELSE UNCHANGED invite_tsx
        /\ Receive(m)
        /\ UNCHANGED local_cseq
  BY DEF RecvAck
<1>2. PICK t : t = Peer(s)
  OBVIOUS
<1>3. /\ t \in Side /\ s # t /\ Side = {s, t} /\ m \in net /\ MessageOK(m)
      /\ DOMAIN neg = Side /\ DOMAIN invite_tsx = Side /\ DOMAIN local_cseq = Side
      /\ local_cseq[s] \in Nat /\ (invite_tsx[s] = NULL \/ invite_tsx[s] \in TsxType)
      /\ m.type = "ACK" /\ m.from = t /\ Sound(neg[s])
  BY <1>2, Known DEF Incoming
<1>4. net' = net \ {m}
  BY <1>1 DEF Receive
<1>5. AckFor(t, s)
  BY <1>3, BothWays
<1>6. m.sdp # NULL => /\ Acked(s, m) /\ invite_tsx[s].state = "accepted"
                      /\ neg[s].state = "LOCAL_OFFER" /\ IsAnswer(s, t, m.sdp)
  BY <1>3, <1>5 DEF AckFor, WaitsForAck, Serving, Offers, Acked
<1>7. /\ DOMAIN invite_tsx' = Side /\ invite_tsx'[t] = invite_tsx[t]
      /\ IF Acked(s, m) THEN invite_tsx'[s] = NULL ELSE invite_tsx'[s] = invite_tsx[s]
  <2>1. CASE Acked(s, m)
    BY <1>1, <1>3, <2>1, TsxSet
  <2>2. CASE ~Acked(s, m)
    BY <1>1, <1>3, <2>2
  <2> QED BY <2>1, <2>2
<1>8. CASE m.sdp # NULL
  <2>1. NegotiateAnswer(s, m)
    BY <1>1, <1>6, <1>8
  <2>2. PICK n : /\ SetNeg(s, n) /\ Sound(n) /\ n.state = "DONE"
                 /\ IF failed' THEN n.active_local_sdp = neg[s].active_local_sdp
                    ELSE n.active_local_sdp.media = process_answer(OfferOf(s), m.sdp).offer
    BY <1>3, <1>6, <1>8, <2>1, AnswerHeard
  <2>3. neg'[s] = n /\ neg'[t] = neg[t] /\ DOMAIN neg' = Side
    BY <1>3, <2>2, NegSet
  <2>4. Moves(s, t)
    BY <1>1, <1>3, <1>4, <1>7, <2>2, <2>3 DEF Moves
  <2>5. /\ neg'[s].state = "DONE"
        /\ IF failed' THEN Active(s)' = Active(s)
           ELSE Active(s)' = process_answer(OfferOf(s), m.sdp).offer
    BY <2>2, <2>3 DEF Active
  <2>6. \A l \in Local[t] : LET a == create_answer(l, OfferOf(s)).media
                                p == process_answer(OfferOf(s), a).offer
                            IN  Mirrored(p, a) /\ Mirrored(a, p)
    BY <1>3, <1>6, <1>8, AnswersMirror
  <2> QED BY <1>1, <1>3, <1>4, <1>6, <1>7, <1>8, <2>4, <2>5, <2>6, HearAckStep
<1>9. CASE m.sdp = NULL
  <2> DEFINE n == IF Acked(s, m) /\ invite_tsx[s].state = "accepted"
                  THEN CancelLocal(neg[s]) ELSE neg[s]
  <2>1. SetNeg(s, n) /\ failed' = failed
    BY <1>1, <1>9 DEF Keep
  <2>2. /\ Sound(n) /\ n.active_local_sdp = neg[s].active_local_sdp
        /\ \/ n = neg[s]
           \/ Acked(s, m) /\ invite_tsx[s].state = "accepted" /\ n.state = "DONE"
        /\ Acked(s, m) /\ invite_tsx[s].state = "accepted" => n.state # "LOCAL_OFFER"
    BY <1>3, CancelLocalFields
  <2> HIDE DEF n
  <2>3. neg'[s] = n /\ neg'[t] = neg[t] /\ DOMAIN neg' = Side
    BY <1>3, <2>1, NegSet
  <2>4. Moves(s, t)
    BY <1>1, <1>3, <1>4, <1>7, <2>2, <2>3 DEF Moves
  <2>5. /\ Active(s)' = Active(s)
        /\ \/ neg'[s] = neg[s]
           \/ Acked(s, m) /\ Serving(s, "accepted") /\ neg'[s].state = "DONE"
        /\ Acked(s, m) /\ Serving(s, "accepted") => neg'[s].state # "LOCAL_OFFER"
    BY <2>2, <2>3 DEF Active, Acked, Serving
  <2> QED BY <1>1, <1>3, <1>4, <1>7, <1>9, <2>1, <2>4, <2>5, AckStep
<1> QED BY <1>8, <1>9

(* All responses.                                                           *)
LEMMA ResponseCall ==
    ASSUME tdata' = tdata, unsent' = unsent,
           IndInv, CallInv, Proviso, NEW s \in Side,
           \/ InviteAnswered(s) \/ InviteFailed(s) \/ UpdateAnswered(s) \/ UpdateFailed(s)
    PROVE  CallInv'
<1>1. CASE InviteAnswered(s)
  <2>1. PICK m \in Incoming(s, "ok", "INVITE") :
          /\ m.sdp # NULL /\ neg[s].state = "LOCAL_OFFER"
          /\ NegotiateAnswer(s, m) /\ Acknowledge(s, m, NULL)
    BY <1>1 DEF InviteAnswered
  <2> QED BY <2>1, HearCall DEF Incoming, Acknowledge
<1>2. CASE InviteFailed(s)
  <2>1. PICK m \in Incoming(s, "fail", "INVITE") :
          Keep(s, CancelLocal(neg[s])) /\ Acknowledge(s, m, NULL)
    BY <1>2 DEF InviteFailed
  <2> QED BY <2>1, FailedCall DEF Incoming, Acknowledge
<1>3. CASE UpdateAnswered(s)
  <2>1. PICK m \in Incoming(s, "ok", "UPDATE") :
          /\ IF neg[s].state = "LOCAL_OFFER" THEN NegotiateAnswer(s, m)
             ELSE Keep(s, neg[s])
          /\ Receive(m)
          /\ UNCHANGED << invite_tsx, local_cseq >>
    BY <1>3 DEF UpdateAnswered
  <2>2. m \in net /\ m.type = "ok" /\ m.from = Peer(s) /\ m.method = "UPDATE"
    BY DEF Incoming
  <2>3. neg[s].state = "LOCAL_OFFER" /\ m.sdp # NULL
    <3>1. PICK t : t = Peer(s)
      OBVIOUS
    <3>2. t \in Side /\ s # t /\ Side = {s, t}
      BY <3>1, Known
    <3>3. OpenFor(s, t)
      BY <3>2, BothWays
    <3> QED BY <2>2, <3>1, <3>2, <3>3 DEF OpenFor, Opens, Offers
  <2> QED BY <2>1, <2>2, <2>3, HearCall DEF Receive
<1>4. CASE UpdateFailed(s)
  <2>1. PICK m \in Incoming(s, "fail", "UPDATE") :
          /\ Keep(s, CancelLocal(neg[s])) /\ Receive(m)
          /\ UNCHANGED << invite_tsx, local_cseq >>
    BY <1>4 DEF UpdateFailed
  <2> QED BY <2>1, FailedCall DEF Incoming, Receive
<1> QED BY <1>1, <1>2, <1>3, <1>4

-----------------------------------------------------------------------------
(* The deferred re-INVITE of s.                                             *)
LEMMA DeferredKnown ==
    ASSUME IndInv, CallInv, NEW s \in Side, Deferred(s),
           NEW state \in {"trying", "accepted", "completed"}
    PROVE  /\ Serving(s, "trying") /\ invite_tsx[s].cseq \in Nat
           /\ LET x == [invite_tsx[s] EXCEPT !.state = state]
              IN  x \in TsxType /\ x # NULL /\ x.role = "UAS" /\ x.state = state
<1> DEFINE y == invite_tsx[s]
           x == [y EXCEPT !.state = state]
<1>1. y \in TsxType /\ y.state = "trying" /\ y # NULL
  BY Known DEF Deferred
<1> HIDE DEF y
<1>2. y.role = "UAS" /\ y.cseq \in Nat
  BY <1>1 DEF TsxType
<1>3. x = [role |-> "UAS", cseq |-> y.cseq, state |-> state]
  BY <1>1 DEF TsxType
<1> HIDE DEF x
<1>4. x \in TsxType /\ x.role = "UAS" /\ x.state = state
  BY <1>2, <1>3 DEF TsxType
<1>5. x \in [role : {"UAC", "UAS"}, cseq : Nat,
              state : {"calling", "trying", "accepted", "completed"}]
  BY <1>2, <1>3
<1>6. x # NULL
  BY <1>5, NullAssumption
<1> QED BY <1>1, <1>2, <1>4, <1>6 DEF Serving, x, y

(* s sends the final response to its deferred re-INVITE.                    *)
LEMMA Responded ==
    ASSUME IndInv, CallInv, NEW s \in Side, NEW t \in Side, s # t, Deferred(s),
           NEW ok \in BOOLEAN, NEW sdp, sdp = NULL \/ sdp \in Seq(Usable), Respond(s, ok, sdp)
    PROVE  /\ \E k : /\ net' = net \union {k} /\ MessageOK(k)
                     /\ k.type = FinalType(ok) /\ k.method = "INVITE" /\ k.from = s
                     /\ k.cseq = invite_tsx[s].cseq /\ k.sdp = sdp
           /\ invite_tsx'[s] \in TsxType /\ Serving(s, ServerState(ok))'
           /\ invite_tsx'[t] = invite_tsx[t] /\ DOMAIN invite_tsx' = Side
<1> DEFINE state == ServerState(ok)
           type == FinalType(ok)
           x == [invite_tsx[s] EXCEPT !.state = state]
           k == Message(type, "INVITE", s, invite_tsx[s].cseq, sdp)
<1>1. state \in {"trying", "accepted", "completed"} /\ type \in {"ok", "fail"}
  BY DEF ServerState, FinalType
<1>2. net' = net \union {k} /\ SetTsx(s, x)
  BY DEF Respond, Send
<1> HIDE DEF state, type
<1>3. x \in TsxType /\ x # NULL /\ x.role = "UAS" /\ x.state = state
  BY <1>1, DeferredKnown
<1>4. invite_tsx[s].cseq \in Nat
  BY <1>1, DeferredKnown
<1> HIDE DEF x
<1>5. DOMAIN invite_tsx = Side
  BY Known
<1>6. invite_tsx'[s] = x /\ invite_tsx'[t] = invite_tsx[t] /\ DOMAIN invite_tsx' = Side
  BY <1>2, <1>5, TsxSet
<1>7. /\ k.type = type /\ k.method = "INVITE" /\ k.from = s
      /\ k.cseq = invite_tsx[s].cseq /\ k.sdp = sdp
  BY MessageFields
<1> HIDE DEF k
<1>8. MessageOK(k)
  BY <1>1, <1>4, <1>7 DEF MessageOK
<1>9. Serving(s, state)'
  BY <1>3, <1>6 DEF Serving
<1>10. \E k1 : /\ net' = net \union {k1} /\ MessageOK(k1)
               /\ k1.type = FinalType(ok) /\ k1.method = "INVITE" /\ k1.from = s
               /\ k1.cseq = invite_tsx[s].cseq /\ k1.sdp = sdp
  BY <1>2, <1>7, <1>8 DEF type
<1>11. Serving(s, ServerState(ok))'
  BY <1>9 DEF state
<1> QED BY <1>3, <1>6, <1>10, <1>11

(* It accepts or rejects it.                                                *)
LEMMA AnswerLaterCall ==
    ASSUME tdata' = tdata, unsent' = unsent,
           IndInv, CallInv, Proviso, NEW s \in Side, AnswerLater(s)
    PROVE  CallInv'
<1>1. /\ Deferred(s) /\ neg[s].state = "REMOTE_OFFER"
      /\ UNCHANGED << local_cseq, failed >>
  BY DEF AnswerLater
<1>2. PICK r \in OurAnswers(s, neg[s]) :
        /\ Negotiated(s, r)
        /\ IF r.ok THEN Respond(s, TRUE, AnswerOf(r)) ELSE UNCHANGED << invite_tsx, net >>
  BY DEF AnswerLater
<1>3. PICK t : t = Peer(s)
  OBVIOUS
<1>4. /\ t \in Side /\ s # t /\ Side = {s, t} /\ prov(s) \in {1, 2}
      /\ Sound(neg[s]) /\ Sound(neg[t])
      /\ DOMAIN neg = Side /\ DOMAIN invite_tsx = Side /\ DOMAIN local_cseq = Side
      /\ local_cseq[s] \in Nat /\ (invite_tsx[s] = NULL \/ invite_tsx[s] \in TsxType)
  BY <1>3, Known
<1>5. Serving(s, "trying")
  BY <1>1, DeferredKnown
<1>6. neg[s].neg_remote_sdp.media \in Seq(Usable)
  <2>1. DeferredFor(t, s)
    BY <1>4, BothWays
  <2>2. Offers(t) /\ neg[s].neg_remote_sdp.media = OfferOf(t)
    BY <1>1, <1>5, <2>1 DEF DeferredFor
  <2> QED BY <1>4, <2>2 DEF Sound, Offers, OfferOf
<1>7. Invited(neg[s], {0, 3 - prov(s)}, {prov(s)}) /\ Local[s] \subseteq Seq(Usable)
  BY <1>1 DEF IndInv, Tidy, Resting, Offering, prov, Proviso
<1>8. /\ Sound(r.neg) /\ r.neg.state = "DONE"
      /\ r.ok => /\ AnswerOf(r) = r.neg.active_local_sdp.media
                 /\ \E l \in Local[s] :
                       AnswerOf(r) = create_answer(l, neg[s].neg_remote_sdp.media).media
      /\ ~r.ok => AnswerOf(r) = NULL /\ r.neg.active_local_sdp = neg[s].active_local_sdp
  BY <1>4, <1>6, <1>7, OurAnswerFields
<1> DEFINE n == r.neg
<1>9. neg'[s] = n /\ neg'[t] = neg[t] /\ DOMAIN neg' = Side
  BY <1>2, <1>4, NegSet DEF Negotiated
<1>10. CASE r.ok
  <2>1. AnswerOf(r) \in Seq(Usable) /\ AnswerOf(r) # NULL
    BY <1>8, <1>10, UsableNotNull DEF Sound
  <2>2. Respond(s, TRUE, AnswerOf(r))
    BY <1>2, <1>10
  <2>3. /\ \E k : /\ net' = net \union {k} /\ MessageOK(k)
                  /\ k.type = FinalType(TRUE) /\ k.method = "INVITE" /\ k.from = s
                  /\ k.cseq = invite_tsx[s].cseq /\ k.sdp = AnswerOf(r)
        /\ invite_tsx'[s] \in TsxType /\ Serving(s, ServerState(TRUE))'
        /\ invite_tsx'[t] = invite_tsx[t] /\ DOMAIN invite_tsx' = Side
    BY <1>1, <1>4, <2>1, <2>2, Responded
  <2>4. PICK k : /\ net' = net \union {k} /\ MessageOK(k)
                 /\ k.type = "ok" /\ k.method = "INVITE" /\ k.from = s
                 /\ k.cseq = invite_tsx[s].cseq /\ k.sdp = AnswerOf(r)
    BY <2>3 DEF FinalType
  <2>5. Serving(s, "accepted")'
    BY <2>3 DEF ServerState
  <2>6. Moves(s, t)
    BY <1>1, <1>4, <1>8, <1>9, <2>3, <2>4 DEF Moves
  <2>7. neg'[s].state = "DONE" /\ Active(s)' = k.sdp
    BY <1>8, <1>9, <1>10, <2>4 DEF Active
  <2>8. /\ k.sdp # NULL
        /\ \E l \in Local[s] : k.sdp = create_answer(l, neg[s].neg_remote_sdp.media).media
    BY <1>8, <1>10, <2>1, <2>4
  <2> QED BY <1>1, <1>4, <1>5, <2>4, <2>5, <2>6, <2>7, <2>8, AnswerLaterStep
<1>11. CASE ~r.ok
  <2>1. invite_tsx' = invite_tsx /\ net' = net
    BY <1>2, <1>11
  <2>2. Moves(s, t)
    BY <1>1, <1>4, <1>8, <1>9, <2>1 DEF Moves
  <2>3. neg'[s].state = "DONE" /\ Active(s)' = Active(s)
    BY <1>8, <1>9, <1>11 DEF Active
  <2> QED BY <1>1, <1>4, <1>5, <2>1, <2>2, <2>3, AnswerFailsStep
<1> QED BY <1>10, <1>11

LEMMA RejectLaterCall ==
    ASSUME tdata' = tdata, unsent' = unsent,
           IndInv, CallInv, NEW s \in Side, RejectLater(s)
    PROVE  CallInv'
<1>1. /\ Deferred(s) /\ Respond(s, FALSE, NULL) /\ local_cseq' = local_cseq
      /\ Keep(s, IF neg[s].state = "REMOTE_OFFER" THEN cancel_offer(neg[s]) ELSE neg[s])
  BY DEF RejectLater
<1>2. PICK t : t = Peer(s)
  OBVIOUS
<1>3. /\ t \in Side /\ s # t /\ Side = {s, t} /\ Sound(neg[s])
      /\ DOMAIN neg = Side /\ DOMAIN invite_tsx = Side /\ DOMAIN local_cseq = Side
      /\ local_cseq[s] \in Nat
  BY <1>2, Known
<1>4. Serving(s, "trying")
  BY <1>1, DeferredKnown
<1>5. neg[s].state \in {"DONE", "REMOTE_OFFER"}
  BY <1>3, <1>4, BothWays DEF DeferredFor
<1> DEFINE n == IF neg[s].state = "REMOTE_OFFER" THEN cancel_offer(neg[s]) ELSE neg[s]
<1>6. Sound(n) /\ n.state = "DONE" /\ n.active_local_sdp = neg[s].active_local_sdp
  <2>1. CASE neg[s].state = "REMOTE_OFFER"
    <3>1. Invited(neg[s], {0, 3 - prov(s)}, {prov(s)})
      BY <2>1 DEF IndInv, Tidy, Resting, Offering, prov
    <3>2. n = cancel_offer(neg[s])
      BY <2>1
    <3> HIDE DEF n
    <3> QED BY <1>3, <3>1, <3>2, CancelledFields
  <2>2. CASE neg[s].state = "DONE"
    BY <1>3, <2>2
  <2> QED BY <1>5, <2>1, <2>2
<1>7. SetNeg(s, n) /\ failed' = failed
  BY <1>1 DEF Keep
<1> HIDE DEF n
<1>8. neg'[s] = n /\ neg'[t] = neg[t] /\ DOMAIN neg' = Side
  BY <1>3, <1>7, NegSet
<1>9. /\ \E k : /\ net' = net \union {k} /\ MessageOK(k)
                /\ k.type = FinalType(FALSE) /\ k.method = "INVITE" /\ k.from = s
                /\ k.cseq = invite_tsx[s].cseq /\ k.sdp = NULL
      /\ invite_tsx'[s] \in TsxType /\ Serving(s, ServerState(FALSE))'
      /\ invite_tsx'[t] = invite_tsx[t] /\ DOMAIN invite_tsx' = Side
  BY <1>1, <1>3, Responded
<1>10. PICK k : /\ net' = net \union {k} /\ MessageOK(k)
                /\ k.type = "fail" /\ k.method = "INVITE" /\ k.from = s
                /\ k.cseq = invite_tsx[s].cseq /\ k.sdp = NULL
  BY <1>9 DEF FinalType
<1>11. Serving(s, "completed")'
  BY <1>9 DEF ServerState
<1>12. Moves(s, t)
  BY <1>1, <1>3, <1>6, <1>8, <1>9, <1>10 DEF Moves
<1>13. neg'[s].state = "DONE" /\ Active(s)' = Active(s)
  BY <1>6, <1>8 DEF Active
<1> QED BY <1>1, <1>3, <1>4, <1>7, <1>10, <1>11, <1>12, <1>13, RejectLaterStep

(* The invariant is inductive, together with the one about the pools.       *)
LEMMA CallStep ==
    Proviso /\ IndInv /\ CallInv /\ [Next]_vars => CallInv'
<1> SUFFICES ASSUME Proviso, IndInv, CallInv, [Next]_vars PROVE CallInv'
  OBVIOUS
<1>1. CASE UNCHANGED vars
  BY <1>1, CallUnchanged DEF vars, sending
<1>2. CASE Next
  <2>1. PICK s \in Side : Request(s) \/ Dispatch(s) \/ Handle(s) \/ AnswerDeferred(s)
    BY <1>2 DEF Next
  <2>2. Handle(s) \/ AnswerDeferred(s) => tdata' = tdata /\ unsent' = unsent
    BY DEF Handle, AnswerDeferred, AnswerLater, RejectLater, sending
  <2>3. CASE Handle(s)
    BY <2>2, <2>3, RejectInviteCall, AnswerInviteCall, RefuseInviteCall, DeferCall,
       OfferInOkCall, RejectUpdateCall, AnswerUpdateCall, RefuseUpdateCall, ResponseCall,
       AckAnswerCall, AckCall DEF Handle, Handler
  <2>4. CASE AnswerDeferred(s)
    BY <2>2, <2>4, AnswerLaterCall, RejectLaterCall DEF AnswerDeferred
  <2> QED BY <2>1, <2>3, <2>4, RequestCall, DispatchCall
<1> QED BY <1>1, <1>2

(* The first exchange.                                                      *)
LEMMA CalleeBegins ==
    ASSUME Proviso, NEW initial \in {NULL, FirstAnswer}
    PROVE  /\ Sound(Callee(initial)) /\ Callee(initial).state = "DONE"
           /\ Callee(initial).active_local_sdp.media =
                 create_answer(FirstAnswer, FirstOffer).media
<1>1. PICK a : /\ Callee(initial) = NegotiatedIn(1, a)
               /\ Ready(a, {0, 1}, {0, 1}) /\ a.has_remote_answer = FALSE
               /\ a.neg_local_sdp.media = FirstAnswer
               /\ a.neg_remote_sdp = In(0, FirstOffer) /\ a.active_local_sdp = NULL
  BY CalleeReady
<1> DEFINE o == Outcome(a, 1)
           c == create_answer(FirstAnswer, FirstOffer)
           e == c.media
           u == Callee(initial)
<1>2. u = negotiate(a, o)
  BY <1>1 DEF NegotiatedIn
<1>3. FirstOffer \in Seq(Usable) /\ FirstAnswer \in Seq(Usable)
  <2>1. First \in Side /\ Peer(First) \in Side
    BY SessionAssumption, Ends
  <2> QED BY <2>1, SessionAssumption DEF Proviso, FirstOffer, FirstAnswer
<1>4. u.active_local_sdp # NULL
  BY ConfirmedAssumption
<1>5. In(0, FirstOffer).media = FirstOffer
  BY InFields
<1>6. o.ok = c.ok /\ o.local = In(1, c.media)
  BY <1>1, <1>5 DEF Outcome
<1> HIDE DEF o, u
<1>7. /\ u.state = "DONE" /\ u.has_remote_answer = FALSE
      /\ u.active_local_sdp = IF o.ok THEN o.local ELSE a.active_local_sdp
  BY <1>1, <1>2, NegotiatedFields
<1>8. e \in Seq(Usable)
  BY <1>3, CreateAnswers
<1>9. o.local = In(1, e)
  BY <1>6
<1> HIDE DEF e, c
<1>10. u.active_local_sdp = In(1, e)
  BY <1>1, <1>4, <1>7, <1>9
<1>11. In(1, e).media = e /\ In(1, e) # NULL
  BY <1>8, InFields, UsableNotNull
<1>12. Sound(u) /\ u.state = "DONE"
  BY <1>7, <1>8, <1>10, <1>11 DEF Sound
<1> QED BY <1>10, <1>11, <1>12 DEF e, c, u

LEMMA CallerBegins ==
    ASSUME Proviso, NEW initial \in {NULL, FirstAnswer}
    PROVE  LET callee == Callee(initial)
               caller == Caller(callee)
           IN  /\ Sound(caller) /\ caller.state = "DONE"
               /\ Mirrored(caller.active_local_sdp.media, callee.active_local_sdp.media)
               /\ Mirrored(callee.active_local_sdp.media, caller.active_local_sdp.media)
<1> DEFINE callee == Callee(initial)
           u == Caller(callee)
           x == Body(callee.active_local_sdp)
           f == create_w_local_offer(0, FirstOffer)
           l == FirstAnswer
           a == set_remote_answer(f, 1, x)
           o == Outcome(a, 1)
           c == process_answer(FirstOffer, x)
           e == c.offer
<1>1. /\ Offering(f, {0, 1}, {0, 1})
      /\ f.active_local_sdp = NULL /\ f.neg_local_sdp = In(0, FirstOffer)
  <2>1. Sdp(In(0, FirstOffer), {0, 1})
    BY InAny
  <2> QED BY <2>1, CreatedOffering DEF create_w_local_offer
<1>2. u = negotiate(a, o)
  BY DEF Caller, NegotiatedIn
<1>3. FirstOffer \in Seq(Usable) /\ l \in Seq(Usable)
  <2>1. First \in Side /\ Peer(First) \in Side
    BY SessionAssumption, Ends
  <2> QED BY <2>1, SessionAssumption DEF Proviso, FirstOffer, FirstAnswer
<1>4. /\ x = callee.active_local_sdp.media
      /\ x = create_answer(l, FirstOffer).media
  BY CalleeBegins, ConfirmedAssumption DEF Body
<1>0. u.active_local_sdp # NULL
  BY ConfirmedAssumption
<1> HIDE DEF f, l, x, callee, u
<1>5. IsNeg(f)
  BY <1>1 DEF Offering
<1>6. /\ a.has_remote_answer = TRUE /\ a.neg_local_sdp = In(0, FirstOffer)
      /\ a.neg_remote_sdp = In(1, x) /\ a.active_local_sdp = NULL
  <2> DEFINE y == In(1, x)
  <2>1. a = [f EXCEPT !.state = "WAIT_NEGO", !.has_remote_answer = TRUE,
                    !.neg_remote_sdp = y]
    BY DEF set_remote_answer
  <2> HIDE DEF a, y
  <2>2. /\ a.has_remote_answer = TRUE /\ a.neg_local_sdp = f.neg_local_sdp
        /\ a.neg_remote_sdp = y /\ a.active_local_sdp = f.active_local_sdp
    BY <1>5, <2>1 DEF IsNeg
  <2> QED BY <1>1, <2>2 DEF y
<1>7. Ready(a, {0, 1}, {0, 1})
  BY <1>1, RemoteAnswers
<1> HIDE DEF a
<1>8. In(1, x).media = x /\ In(0, FirstOffer).media = FirstOffer
  BY InFields
<1>9. o.ok = c.ok /\ o.local = [In(0, FirstOffer) EXCEPT !.media = c.offer]
  BY <1>6, <1>8 DEF Outcome
<1> HIDE DEF o
<1>10. /\ u.state = "DONE" /\ u.has_remote_answer = FALSE
       /\ u.active_local_sdp = IF o.ok THEN o.local ELSE a.active_local_sdp
  BY <1>2, <1>7, NegotiatedFields
<1>11. e \in Seq(Usable) /\ Mirrored(e, x) /\ Mirrored(x, e)
  BY <1>3, <1>4, AnswerMirrors
<1>12. o.local = [In(0, FirstOffer) EXCEPT !.media = e]
  BY <1>9
<1> HIDE DEF e, c
<1>13. o.local = In(0, e)
  BY <1>12 DEF In
<1>14. u.active_local_sdp = In(0, e)
  BY <1>0, <1>6, <1>10, <1>13
<1>15. In(0, e).media = e /\ In(0, e) # NULL
  BY <1>11, InFields, UsableNotNull
<1>16. Sound(u) /\ u.state = "DONE"
  BY <1>10, <1>11, <1>14, <1>15 DEF Sound
<1> QED BY <1>4, <1>11, <1>14, <1>15, <1>16 DEF u, callee

(* It holds when the call is confirmed, and implies agreement.              *)
LEMMA CallBegins == Proviso /\ Init => CallInv
<1> SUFFICES ASSUME Proviso, Init PROVE CallInv
  OBVIOUS
<1>1. PICK t : t = Peer(First)
  OBVIOUS
<1>2. First \in Side /\ t \in Side /\ t # First /\ Side = {First, t}
  BY <1>1, SessionAssumption, Ends
<1>0. PICK initial \in {NULL, FirstAnswer} :
        neg = [s \in Side |-> IF s = First THEN Caller(Callee(initial)) ELSE Callee(initial)]
  BY DEF Init
<1> DEFINE callee == Callee(initial)
           caller == Caller(callee)
<1>8. /\ Sound(callee) /\ callee.state = "DONE" /\ Sound(caller) /\ caller.state = "DONE"
      /\ Mirrored(caller.active_local_sdp.media, callee.active_local_sdp.media)
      /\ Mirrored(callee.active_local_sdp.media, caller.active_local_sdp.media)
  BY CalleeBegins, CallerBegins
<1>9. neg = [s \in Side |-> IF s = First THEN caller ELSE callee]
  BY <1>0
<1> HIDE DEF caller, callee
<1>3. /\ neg[First] = caller /\ neg[t] = callee /\ DOMAIN neg = Side
      /\ \A s \in Side : invite_tsx[s] = NULL /\ local_cseq[s] = 0 /\ tdata[s] = NULL
      /\ DOMAIN invite_tsx = Side /\ DOMAIN local_cseq = Side /\ DOMAIN tdata = Side
      /\ net = {} /\ unsent = {}
  BY <1>2, <1>9 DEF Init
<1>4. Types
  BY <1>2, <1>3, <1>8 DEF Types
<1>5. \A p, q \in Side : Half(p, q)
  BY <1>3 DEF Half, OpenOnce, OpenFor, AckOnce, AckFor, DeferredFor, Serving, Held
<1>6. AnswerOnce
  BY <1>3 DEF AnswerOnce
<1>7. Matched
  BY <1>2, <1>3, <1>8 DEF Matched, Active
<1> QED BY <1>3, <1>4, <1>5, <1>6, <1>7 DEF CallInv

LEMMA CallAgrees == CallInv => Agreement
BY DEF CallInv, Matched, Agreement, Quiet, Mirrored, Active

(* Two ends at rest agree: after any exchanges by re-INVITE and UPDATE,     *)
(* crossing, refused, deferred, or with the offer in the 2xx, when all      *)
(* messages have arrived and no transaction is open, both ends use the same *)
(* media lines with the same formats, and one sends what the other receives *)
(* (unless inv_negotiate_sdp() failed at the offerer). Each active line     *)
(* must name a codec, and no UPDATE be sent between a 2xx and its ACK.      *)
THEOREM AgreementInvariance ==
    ASSUME Proviso
    PROVE  Spec => []Agreement
<1>1. Init => IndInv /\ CallInv
  BY InitTidy, CallBegins
<1>2. IndInv /\ CallInv /\ [Next]_vars => (IndInv /\ CallInv)'
  BY Inductive, CallStep
<1>3. IndInv /\ CallInv => Agreement
  BY CallAgrees
<1> QED BY <1>1, <1>2, <1>3, PTL DEF Spec
=============================================================================
