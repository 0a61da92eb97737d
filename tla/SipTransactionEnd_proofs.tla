---------------------- MODULE SipTransactionEnd_proofs ----------------------
(***************************************************************************)
(* How a transaction ends, for any kinds, any outcomes of sending and any  *)
(* finite set of threads that poll.                                        *)
(*                                                                         *)
(* EndInv, the inductive part beside IndInv, relates the transaction to    *)
(* the places of the pollers.  The functions called in a step are followed *)
(* one by one, as in SipTransaction_proofs: most are Still, sending may    *)
(* end a transaction (Led), and what answers the user or the network may   *)
(* also move it on (Ahead).                                                *)
(***************************************************************************)
EXTENDS SipTransaction_proofs

(* What ending needs of a transaction is that it has its fields: the rest   *)
(* of its type is in SipTransaction_proofs.  One that goes on was not       *)
(* destroyed in the middle of a send.                                       *)
Names == {"kind", "state", "status", "reliable", "transport", "res_transport",
          "resolved", "pending", "pending_send", "pending_resched",
          "pending_destroy", "pending_tx", "sends", "last_tx", "null_tx",
          "running", "id", "registered", "terminating", "told", "refs"}
Record(t) == DOMAIN t = Names /\ t.state \in Null..Destroyed
Fit(t) == Record(t) /\ (t.state < Terminated => ~ t.pending_destroy)

(* A function leaves the state alone, or may end the transaction, or may    *)
(* also move it on.  One that ends it tells the user, and only one that has *)
(* ended is shut down.                                                      *)
Still(t, u) ==
    /\ Record(u) /\ u.state = t.state
    /\ u.told <=> t.told
    /\ u.terminating <=> t.terminating
    /\ u.pending <=> t.pending
    /\ u.pending_destroy <=> t.pending_destroy
Final(s, r) == r >= IF s = Destroyed THEN Terminated ELSE s
Ahead(t, u) ==
    /\ Fit(u) /\ Final(t.state, u.state)
    /\ u.terminating => t.terminating \/ u.state >= Terminated
    /\ u.told \/ (~ t.told /\ (u.state >= Terminated => t.state >= Terminated))
Led(t, u) == Ahead(t, u) /\ u.state \in {t.state, Terminated}

(* No send is started.                                                      *)
Settled(t, u) ==
    /\ u.pending => t.pending
    /\ u.pending_destroy => t.pending_destroy \/ t.pending

LEMMA TsxRecord == \A t \in Tsx : Record(t)
BY DEF Tsx, Record, Names

LEMMA ScheduleStill ==
    ASSUME NEW t, Record(t), NEW x, NEW id
    PROVE  Still(t, tsx_schedule_timer(t, x, id))
BY DEF tsx_schedule_timer, Still, Record, Names

LEMMA CancelStill ==
    ASSUME NEW t, Record(t), NEW x
    PROVE  Still(t, tsx_cancel_timer(t, x))
BY DEF tsx_cancel_timer, Still, Record, Names

LEMMA StillTrans ==
    ASSUME NEW t, NEW u, NEW v, Still(t, u), Still(u, v)
    PROVE  Still(t, v)
BY DEF Still

LEMMA StillSelf ==
    ASSUME NEW t, Record(t)
    PROVE  Still(t, t)
BY DEF Still

LEMMA StillFit ==
    ASSUME NEW t, NEW u, Still(t, u), Fit(t)
    PROVE  Fit(u)
BY DEF Still, Fit

LEMMA StillLed ==
    ASSUME NEW t, NEW u, Fit(t), Still(t, u)
    PROVE  Led(t, u)
<1>1. Fit(u) /\ t.state \in Null..Destroyed
  BY StillFit DEF Fit, Record
<1>2. Final(t.state, u.state)
  BY <1>1 DEF Still, Final, Null, Terminated, Destroyed
<1> QED BY <1>1, <1>2 DEF Still, Led, Ahead

LEMMA LedTrans ==
    ASSUME NEW t, NEW u, NEW v, Record(t), Led(t, u), Led(u, v)
    PROVE  Led(t, v)
<1>1. /\ t.state \in Null..Destroyed /\ u.state \in Null..Destroyed
      /\ v.state \in Null..Destroyed
  BY DEF Led, Ahead, Fit, Record
<1>2. Final(t.state, v.state) /\ (u.state >= Terminated => v.state >= Terminated)
  BY <1>1 DEF Led, Ahead, Final, Null, Terminated, Destroyed
<1> QED BY <1>2 DEF Led, Ahead

LEMMA AheadTrans ==
    ASSUME NEW t, NEW u, NEW v, Record(t), Ahead(t, u), Ahead(u, v)
    PROVE  Ahead(t, v)
<1>1. /\ t.state \in Null..Destroyed /\ u.state \in Null..Destroyed
      /\ v.state \in Null..Destroyed
  BY DEF Ahead, Fit, Record
<1>2. Final(t.state, v.state) /\ (u.state >= Terminated => v.state >= Terminated)
  BY <1>1 DEF Ahead, Final, Null, Terminated, Destroyed
<1> QED BY <1>2 DEF Ahead

LEMMA StartTimeoutStill ==
    ASSUME NEW t, Record(t)
    PROVE  Still(t, StartTimeout(t))
<1> DEFINE u == tsx_cancel_timer(t, "timeout")
<1>1. Still(t, u)
  BY CancelStill
<1> HIDE DEF u
<1>2. Still(u, tsx_schedule_timer(u, "timeout", "TIMEOUT"))
  BY <1>1, ScheduleStill DEF Still
<1>3. Still(t, tsx_schedule_timer(u, "timeout", "TIMEOUT"))
  BY <1>1, <1>2, StillTrans
<1> QED BY <1>3 DEF StartTimeout, u

LEMMA ReschedStill ==
    ASSUME NEW t, Record(t), NEW b
    PROVE  Still(t, [t EXCEPT !.pending_resched = b])
BY DEF Still, Record, Names

LEMMA StartRetransmitStill ==
    ASSUME NEW t, Record(t)
    PROVE  Still(t, StartRetransmit(t))
BY ScheduleStill, ReschedStill DEF StartRetransmit

LEMMA DropStill ==
    ASSUME NEW t, Record(t), NEW k
    PROVE  Still(t, [t EXCEPT !.refs = k])
BY DEF Still, Record, Names

(* Any fields but those above may be written.                               *)
LEMMA SendsStill ==
    ASSUME NEW t, Record(t), NEW s, NEW k
    PROVE  Still(t, [t EXCEPT !.sends = s, !.refs = k])
BY DEF Still, Record, Names

LEMMA LastStill ==
    ASSUME NEW t, Record(t), NEW b
    PROVE  Still(t, [t EXCEPT !.last_tx = b])
BY DEF Still, Record, Names

LEMMA StatusStill ==
    ASSUME NEW t, Record(t), NEW code
    PROVE  Still(t, [t EXCEPT !.status = code])
BY DEF Still, Record, Names

-----------------------------------------------------------------------------
(* The end of a transaction.                                                *)

LEMMA ShutdownEnds ==
    ASSUME NEW t, Fit(t), t.state >= Terminated
    PROVE  LET u == tsx_shutdown(t)
           IN  Ahead(t, u) /\ u.state = t.state /\ Settled(t, u)
<1> DEFINE a == tsx_cancel_timer(t, "timeout")
           b == tsx_cancel_timer(a, "retransmit")
           d == b.pending_destroy \/ t.pending
           k == IF t.terminating THEN b.refs ELSE b.refs - 1
           u == [b EXCEPT !.transport = FALSE, !.last_tx = FALSE,
                          !.pending_send = FALSE, !.pending_resched = FALSE,
                          !.pending_destroy = d,
                          !.terminating = TRUE, !.refs = k]
<1>1. Still(t, a)
  BY CancelStill DEF Fit
<1>2. Still(a, b)
  <2> HIDE DEF a
  <2> QED BY <1>1, CancelStill DEF Still
<1>3. Still(t, b)
  BY <1>1, <1>2, StillTrans
<1>4. tsx_shutdown(t) = u
  BY DEF tsx_shutdown
<1> HIDE DEF a, b
<1>5. d => t.pending_destroy \/ t.pending
  BY <1>3 DEF Still
<1> HIDE DEF d, k
<1>6. /\ Record(u) /\ u.state = b.state /\ u.told = b.told
      /\ u.pending = b.pending /\ u.pending_destroy = d
  BY <1>3 DEF Still, Record, Names
<1> HIDE DEF u
<1>7. Record(u) /\ u.state = t.state /\ (u.told <=> t.told) /\ Settled(t, u)
  BY <1>3, <1>5, <1>6 DEF Still, Settled
<1>8. t.state \in Null..Destroyed
  BY DEF Fit, Record
<1>9. Final(t.state, u.state) /\ Fit(u)
  BY <1>7, <1>8 DEF Final, Fit, Null, Terminated, Destroyed
<1>10. Ahead(t, u)
  BY <1>7, <1>9 DEF Ahead
<1> QED BY <1>4, <1>7, <1>10

LEMMA AfterDestroyedEnds ==
    ASSUME NEW t, Fit(t), t.state >= Terminated
    PROVE  LET u == AfterDestroyed(t)
           IN  Ahead(t, u) /\ u.state = t.state /\ Settled(t, u)
<1> DEFINE a == [t EXCEPT !.registered = FALSE]
<1>1. Still(t, a)
  BY DEF Still, Fit, Record, Names
<1> HIDE DEF a
<1>2. Fit(a) /\ Led(t, a) /\ a.state >= Terminated
  BY <1>1, StillFit, StillLed DEF Still
<1> DEFINE u == tsx_shutdown(a)
<1>3. Ahead(a, u) /\ u.state = a.state /\ Settled(a, u)
  BY <1>2, ShutdownEnds
<1> HIDE DEF u
<1>4. Ahead(t, u)
  BY <1>2, <1>3, AheadTrans DEF Led, Fit
<1>5. u.state = t.state /\ Settled(t, u)
  BY <1>1, <1>3 DEF Still, Settled
<1> QED BY <1>4, <1>5 DEF AfterDestroyed, a, u

LEMMA SetDestroyedEnds ==
    ASSUME NEW t, Fit(t), t.state >= Terminated
    PROVE  LET u == SetDestroyed(t) IN Ahead(t, u) /\ Settled(t, u)
<1> DEFINE a == [t EXCEPT !.state = Destroyed]
<1>1. /\ DOMAIN a = Names /\ a.state = Destroyed /\ a.told = t.told
      /\ a.terminating = t.terminating /\ a.pending = t.pending
      /\ a.pending_destroy = t.pending_destroy
  BY DEF Fit, Record, Names
<1> HIDE DEF a
<1>2. Fit(a) /\ a.state >= Terminated /\ t.state \in Null..Destroyed
  BY <1>1 DEF Fit, Record, Null, Terminated, Destroyed
<1>3. Final(t.state, a.state)
  BY <1>1, <1>2 DEF Final, Null, Terminated, Destroyed
<1>4. Ahead(t, a)
  BY <1>1, <1>2, <1>3 DEF Ahead
<1> DEFINE u == AfterDestroyed(a)
<1>5. Ahead(a, u) /\ Settled(a, u)
  BY <1>2, AfterDestroyedEnds
<1> HIDE DEF u
<1>6. Ahead(t, u)
  BY <1>4, <1>5, AheadTrans DEF Fit
<1>7. Settled(t, u)
  BY <1>1, <1>5 DEF Settled
<1> QED BY <1>6, <1>7 DEF SetDestroyed, a, u

LEMMA AfterTerminatedEnds ==
    ASSUME NEW t, Fit(t), t.state >= Terminated
    PROVE  LET u == AfterTerminated(t)
           IN  Led(t, u) /\ u.state = t.state /\ ~ u.pending /\ (u.told <=> t.told)
               /\ (u.pending_destroy <=> t.pending_destroy)
<1> DEFINE a == Disassociated(t)
<1>1. /\ Record(a) /\ a.state = t.state /\ (a.told <=> t.told) /\ ~ a.pending
      /\ (a.terminating <=> t.terminating)
      /\ (a.pending_destroy <=> t.pending_destroy)
  BY DEF Disassociated, Fit, Record, Names
<1> HIDE DEF a
<1>2. Fit(a) /\ t.state \in Null..Destroyed
  BY <1>1 DEF Fit, Record
<1>3. Final(t.state, a.state)
  BY <1>1, <1>2 DEF Final, Null, Terminated, Destroyed
<1>4. Led(t, a)
  BY <1>1, <1>2, <1>3 DEF Led, Ahead
<1>5. Still(a, StartTimeout(a))
  BY <1>1, StartTimeoutStill
<1>6. Led(t, StartTimeout(a))
  BY <1>2, <1>4, <1>5, StillLed, LedTrans DEF Fit
<1>7. /\ StartTimeout(a).state = t.state /\ ~ StartTimeout(a).pending
      /\ (StartTimeout(a).told <=> t.told)
      /\ (StartTimeout(a).pending_destroy <=> t.pending_destroy)
  BY <1>1, <1>5 DEF Still
<1> QED BY <1>6, <1>7 DEF AfterTerminated, a

LEMMA SetTerminatedEnds ==
    ASSUME NEW t, Fit(t), NEW code
    PROVE  LET u == SetTerminated(t, code) IN Led(t, u) /\ u.state = Terminated /\ u.told
<1> DEFINE a == [t EXCEPT !.state = Terminated, !.status = code, !.told = TRUE]
<1>1. /\ DOMAIN a = Names /\ a.state = Terminated /\ a.told
      /\ (a.terminating <=> t.terminating)
  BY DEF Fit, Record, Names
<1> HIDE DEF a
<1>2. Fit(a) /\ a.state >= Terminated /\ t.state \in Null..Destroyed
  BY <1>1 DEF Fit, Record, Null, Terminated, Destroyed
<1>3. Final(t.state, a.state)
  BY <1>1, <1>2 DEF Final, Null, Terminated, Destroyed
<1>4. Led(t, a)
  BY <1>1, <1>2, <1>3 DEF Led, Ahead
<1> DEFINE u == AfterTerminated(a)
<1>5. Led(a, u) /\ u.state = a.state /\ (u.told <=> a.told)
  BY <1>2, AfterTerminatedEnds
<1> HIDE DEF u
<1>6. Led(t, u)
  BY <1>4, <1>5, LedTrans DEF Fit
<1> QED BY <1>1, <1>5, <1>6 DEF SetTerminated, a, u

-----------------------------------------------------------------------------
(* Sending.                                                                 *)

(* Fields that have nothing to do with the end may be written.              *)
LEMMA FitLed ==
    ASSUME NEW t, NEW u, Fit(t), DOMAIN u = Names, u.state = t.state,
           u.told = t.told, u.terminating = t.terminating,
           u.pending_destroy = t.pending_destroy
    PROVE  Fit(u) /\ Led(t, u)
<1>1. Fit(u) /\ t.state \in Null..Destroyed
  BY DEF Fit, Record
<1>2. Final(t.state, u.state)
  BY <1>1 DEF Final, Null, Terminated, Destroyed
<1> QED BY <1>1, <1>2 DEF Led, Ahead

LEMMA RefusedLed ==
    ASSUME NEW t, Fit(t), NEW r \in Refused(t)
    PROVE  Led(t, r.t)
<1> DEFINE a == [t EXCEPT !.transport = FALSE, !.res_transport = FALSE]
<1>1. /\ DOMAIN a = Names /\ a.state = t.state /\ a.told = t.told
      /\ a.terminating = t.terminating /\ a.pending_destroy = t.pending_destroy
  BY DEF Fit, Record, Names
<1>2. r.t = SetTerminated(a, 503)
  BY DEF Refused, Result
<1> HIDE DEF a
<1>3. Fit(a) /\ Led(t, a)
  BY <1>1, FitLed
<1>4. Led(a, r.t)
  BY <1>2, <1>3, SetTerminatedEnds
<1> QED BY <1>3, <1>4, LedTrans DEF Fit

LEMMA SendByTransportLed ==
    ASSUME NEW t, Fit(t), NEW r \in SendByTransport(t)
    PROVE  Led(t, r.t) /\ r.t.state = t.state
<1> DEFINE a == [t EXCEPT !.pending = TRUE, !.sends = t.sends \cup {"transport"},
                          !.refs = t.refs + 1]
<1>1. /\ DOMAIN a = Names /\ a.state = t.state /\ a.told = t.told
      /\ a.terminating = t.terminating /\ a.pending_destroy = t.pending_destroy
  BY DEF Fit, Record, Names
<1>2. r.t = t \/ r.t = a
  BY DEF SendByTransport, Result
<1> HIDE DEF a
<1>3. Led(t, a)
  BY <1>1, FitLed
<1>4. Led(t, t)
  BY StillSelf, StillLed DEF Fit
<1> QED BY <1>1, <1>2, <1>3, <1>4

LEMMA DeferredLed ==
    ASSUME NEW t, Fit(t), NEW v \in Deferred(t)
    PROVE  Led(t, v)
<1> DEFINE u == [t EXCEPT !.pending_send = FALSE]
           w == [u EXCEPT !.null_tx = TRUE]
<1>1. /\ DOMAIN u = Names /\ u.state = t.state /\ u.told = t.told
      /\ u.terminating = t.terminating /\ u.pending_destroy = t.pending_destroy
  BY DEF Fit, Record, Names
<1>2. \/ v = u \/ v = w
      \/ \E r \in SendByTransport(u) \cup Refused(u) : v = r.t
  <2> SUFFICES ASSUME v \in IF ~ t.pending_send THEN {u}
                            ELSE IF ~ t.last_tx THEN {w}
                            ELSE {r.t : r \in SendByTransport(u) \cup
                                   (IF "error" \in Outcome THEN Refused(u) ELSE {})}
               PROVE  \/ v = u \/ v = w
                      \/ \E r \in SendByTransport(u) \cup Refused(u) : v = r.t
    BY DEF Deferred
  <2> HIDE DEF u, w
  <2> QED OBVIOUS
<1> HIDE DEF u
<1>3. Fit(u) /\ Led(t, u)
  BY <1>1, FitLed
<1>4. CASE v = w
  <2>1. /\ DOMAIN w = Names /\ w.state = u.state /\ w.told = u.told
        /\ w.terminating = u.terminating /\ w.pending_destroy = u.pending_destroy
    BY <1>3 DEF Fit, Record, Names
  <2> HIDE DEF w
  <2>2. Led(u, w)
    BY <1>3, <2>1, FitLed
  <2> QED BY <1>3, <1>4, <2>2, LedTrans DEF Fit
<1>5. CASE \E r \in SendByTransport(u) \cup Refused(u) : v = r.t
  <2>1. PICK r \in SendByTransport(u) \cup Refused(u) : v = r.t
    BY <1>5
  <2>2. Led(u, v)
    BY <1>3, <2>1, SendByTransportLed, RefusedLed
  <2> QED BY <1>3, <2>2, LedTrans DEF Fit
<1> QED BY <1>2, <1>3, <1>4, <1>5

LEMMA RescheduledStill ==
    ASSUME NEW t, Record(t)
    PROVE  Still(t, Rescheduled(t))
<1> DEFINE u == [t EXCEPT !.pending_resched = FALSE]
<1>1. Still(t, u)
  BY ReschedStill
<1>2. Rescheduled(t) \in {t, u, tsx_resched_retransmission(u)}
  BY DEF Rescheduled
<1> HIDE DEF u
<1>3. Still(t, tsx_resched_retransmission(u))
  <2>1. Still(u, tsx_schedule_timer(u, "retransmit", "RETRANSMIT"))
    BY <1>1, ScheduleStill DEF Still
  <2> QED BY <1>1, <2>1, StillTrans DEF tsx_resched_retransmission
<1> QED BY <1>1, <1>2, <1>3, StillSelf

(* The callback of a send in a transaction that may have ended already.     *)
LEMMA SentAhead ==
    ASSUME NEW t, Fit(t), NEW v \in send_msg_callback_sent(t)
    PROVE  Ahead(t, v) /\ (t.state < Terminated => Led(t, v))
<1>1. ASSUME NEW b
      PROVE  LET u == Found(t, b)
             IN  Fit(u) /\ Led(t, u) /\ u.state = t.state
  <2> DEFINE u == Found(t, b)
  <2>1. /\ DOMAIN u = Names /\ u.state = t.state /\ u.told = t.told
        /\ u.terminating = t.terminating /\ u.pending_destroy = t.pending_destroy
    BY DEF Found, Fit, Record, Names
  <2> HIDE DEF u
  <2>2. Fit(u) /\ Led(t, u)
    BY <2>1, FitLed
  <2> QED BY <2>1, <2>2 DEF u
<1>2. CASE t.pending_destroy
  <2>1. PICK b \in BOOLEAN : v = SetDestroyed(Found(t, b))
    BY <1>2 DEF send_msg_callback_sent
  <2> DEFINE u == Found(t, b)
  <2>2. Fit(u) /\ Led(t, u) /\ u.state = t.state
    BY <1>1
  <2>3. v = SetDestroyed(u)
    BY <2>1
  <2> HIDE DEF u
  <2>4. ~ (t.state < Terminated) /\ u.state >= Terminated
    BY <1>2, <2>2 DEF Fit, Record, Null, Terminated, Destroyed
  <2>5. Ahead(u, v)
    BY <2>2, <2>3, <2>4, SetDestroyedEnds
  <2>6. Ahead(t, v)
    BY <2>2, <2>5, AheadTrans DEF Fit, Led
  <2> QED BY <2>4, <2>6
<1>3. CASE ~ t.pending_destroy
  <2>1. PICK b \in BOOLEAN : \E d \in Deferred(Found(t, b)) : v = Rescheduled(d)
    BY <1>3 DEF send_msg_callback_sent
  <2> DEFINE u == Found(t, b)
  <2>2. PICK d \in Deferred(u) : v = Rescheduled(d)
    BY <2>1
  <2>3. Fit(u) /\ Led(t, u)
    BY <1>1
  <2> HIDE DEF u
  <2>4. Led(u, d)
    BY <2>3, DeferredLed
  <2>5. Fit(d) /\ Record(d)
    BY <2>4 DEF Led, Ahead, Fit
  <2>6. Still(d, v)
    BY <2>2, <2>5, RescheduledStill
  <2>7. Led(d, v)
    BY <2>5, <2>6, StillLed
  <2>8. Led(t, d)
    BY <2>3, <2>4, LedTrans DEF Fit
  <2>9. Led(t, v)
    BY <2>7, <2>8, LedTrans DEF Fit
  <2> QED BY <2>9 DEF Led
<1> QED BY <1>2, <1>3

LEMMA FailedAhead ==
    ASSUME NEW t, Fit(t)
    PROVE  LET v == send_msg_callback_failed(t)
           IN  Ahead(t, v) /\ (t.state < Terminated => Led(t, v))
<1> DEFINE u == [t EXCEPT !.refs = t.refs - 1, !.sends = t.sends \ {"resolve"},
                          !.pending_tx = FALSE, !.pending = FALSE,
                          !.transport = FALSE, !.resolved = TRUE, !.status = 503]
           v == send_msg_callback_failed(t)
<1>1. /\ DOMAIN u = Names /\ u.state = t.state /\ u.told = t.told
      /\ u.terminating = t.terminating /\ u.pending_destroy = t.pending_destroy
  BY DEF Fit, Record, Names
<1>2. v = IF t.state < Terminated THEN SetTerminated(u, 503)
          ELSE IF t.pending_destroy THEN SetDestroyed(u) ELSE u
  BY DEF send_msg_callback_failed
<1> HIDE DEF u
<1>3. Fit(u) /\ Led(t, u)
  BY <1>1, FitLed
<1>4. CASE t.state < Terminated
  <2>1. v = SetTerminated(u, 503)
    BY <1>2, <1>4
  <2>2. Led(u, SetTerminated(u, 503))
    BY <1>3, SetTerminatedEnds
  <2>3. Led(t, v)
    BY <1>3, <2>1, <2>2, LedTrans DEF Fit
  <2> QED BY <2>3 DEF Led
<1>5. CASE ~ (t.state < Terminated)
  <2>1. u.state >= Terminated
    BY <1>1, <1>3, <1>5 DEF Fit, Record, Null, Terminated, Destroyed
  <2>2. v = u \/ v = SetDestroyed(u)
    BY <1>2, <1>5
  <2>3. Ahead(u, SetDestroyed(u))
    BY <1>3, <2>1, SetDestroyedEnds
  <2>4. Ahead(t, SetDestroyed(u)) /\ Ahead(t, u)
    BY <1>3, <2>3, AheadTrans DEF Led, Fit
  <2> HIDE DEF v
  <2>5. Ahead(t, v)
    BY <2>2, <2>4
  <2> QED BY <1>5, <2>5 DEF v
<1> QED BY <1>4, <1>5

LEMMA SendByResolverLed ==
    ASSUME NEW t, Fit(t), t.state < Terminated, NEW r \in SendByResolver(t)
    PROVE  Led(t, r.t) /\ (r.ok => r.t.state = t.state)
<1> DEFINE u == [t EXCEPT !.pending_tx = TRUE, !.pending = TRUE,
                          !.sends = t.sends \cup {"resolve"}, !.refs = t.refs + 1]
           w == NotStarted(t)
<1>1. /\ DOMAIN u = Names /\ u.state = t.state /\ u.told = t.told
      /\ u.terminating = t.terminating /\ u.pending_destroy = t.pending_destroy
  BY DEF Fit, Record, Names
<1>2. \/ \E v \in send_msg_callback_sent(u) : r = Result(v, v.state # Terminated)
      \/ r = Result(u, TRUE)
      \/ r = Result(send_msg_callback_failed(u), FALSE)
      \/ r = Result(w, FALSE)
  <2> SUFFICES ASSUME NEW direct,
                      r \in {Result(v, v.state # Terminated) :
            v \in UNION {send_msg_callback_sent(u) : o \in Outcome \cap {"sent"}}} \cup
        {Result(u, TRUE) : o \in Outcome \cap {"pending"}} \cup
        {Result(send_msg_callback_failed(u), FALSE) :
            o \in {x \in Outcome \cap {"error"} : ~ direct}} \cup
        {Result(w, FALSE) :
            o \in {x \in Outcome \cap {"error"} : direct \/ UAC(t)}}
      PROVE \/ \E v \in send_msg_callback_sent(u) : r = Result(v, v.state # Terminated)
            \/ r = Result(u, TRUE)
            \/ r = Result(send_msg_callback_failed(u), FALSE)
            \/ r = Result(w, FALSE)
    BY DEF SendByResolver
  <2> HIDE DEF u, w
  <2> QED BY Zenon
<1>3. /\ DOMAIN w = Names /\ w.state = t.state /\ w.told = t.told
      /\ w.terminating = t.terminating /\ w.pending_destroy = t.pending_destroy
  BY DEF NotStarted, Fit, Record, Names
<1> HIDE DEF u, w
<1>4. Fit(u) /\ Led(t, u) /\ u.state < Terminated
  BY <1>1, FitLed
<1>5. CASE \E v \in send_msg_callback_sent(u) : r = Result(v, v.state # Terminated)
  <2>1. PICK v \in send_msg_callback_sent(u) : r = Result(v, v.state # Terminated)
    BY <1>5
  <2>2. r.t = v /\ r.ok = (v.state # Terminated)
    BY <2>1 DEF Result
  <2>3. Led(u, v)
    BY <1>4, SentAhead
  <2>4. Led(t, v)
    BY <1>4, <2>3, LedTrans DEF Fit
  <2> QED BY <2>2, <2>4 DEF Led
<1>6. CASE r = Result(u, TRUE)
  BY <1>1, <1>4, <1>6 DEF Result
<1>7. CASE r = Result(send_msg_callback_failed(u), FALSE)
  <2>1. r.t = send_msg_callback_failed(u) /\ r.ok = FALSE
    BY <1>7 DEF Result
  <2>2. Led(u, r.t)
    BY <1>4, <2>1, FailedAhead
  <2> QED BY <1>4, <2>1, <2>2, LedTrans DEF Fit
<1>8. CASE r = Result(w, FALSE)
  <2>1. r.t = w /\ r.ok = FALSE
    BY <1>8 DEF Result
  <2> QED BY <1>3, <2>1, FitLed
<1> QED BY <1>2, <1>5, <1>6, <1>7, <1>8

LEMMA SendMsgLed ==
    ASSUME NEW t, Fit(t), t.state < Terminated, NEW r \in tsx_send_msg(t)
    PROVE  Led(t, r.t) /\ (r.ok => r.t.state = t.state)
<1> DEFINE f == IF t.transport THEN FALSE ELSE t.res_transport
           a == [t EXCEPT !.transport = FALSE, !.res_transport = f]
           b == [t EXCEPT !.pending_send = TRUE]
<1>1. /\ DOMAIN b = Names /\ b.state = t.state /\ b.told = t.told
      /\ b.terminating = t.terminating /\ b.pending_destroy = t.pending_destroy
  BY DEF Fit, Record, Names
<1>2. r \in {Result(b, TRUE)} \cup Refused(a) \cup SendByTransport(t) \cup SendByResolver(a)
  BY DEF tsx_send_msg
<1> HIDE DEF f
<1>3. /\ DOMAIN a = Names /\ a.state = t.state /\ a.told = t.told
      /\ a.terminating = t.terminating /\ a.pending_destroy = t.pending_destroy
  BY DEF Fit, Record, Names
<1> HIDE DEF a, b
<1>4. Fit(a) /\ Led(t, a) /\ a.state < Terminated
  BY <1>3, FitLed
<1>5. CASE r \in {Result(b, TRUE)}
  BY <1>1, <1>5, FitLed DEF Result
<1>6. CASE r \in Refused(a)
  <2>1. Led(a, r.t)
    BY <1>4, <1>6, RefusedLed
  <2>2. r.ok = FALSE
    BY <1>6 DEF Refused, Result
  <2> QED BY <1>4, <2>1, <2>2, LedTrans DEF Fit
<1>7. CASE r \in SendByTransport(t)
  BY <1>7, SendByTransportLed
<1>8. CASE r \in SendByResolver(a)
  <2>1. Led(a, r.t) /\ (r.ok => r.t.state = a.state)
    BY <1>4, <1>8, SendByResolverLed
  <2> QED BY <1>3, <1>4, <2>1, LedTrans DEF Fit
<1> QED BY <1>2, <1>5, <1>6, <1>7, <1>8

LEMMA RetransmitLed ==
    ASSUME NEW t, Fit(t), t.state < Terminated, NEW resched,
           NEW v \in tsx_retransmit(t, resched)
    PROVE  Led(t, v)
<1> DEFINE a == [t EXCEPT !.pending_resched = TRUE]
           b == tsx_resched_retransmission(t)
<1>1. Still(t, t) /\ Still(t, a) /\ Still(t, b)
  BY StillSelf, ReschedStill, ScheduleStill DEF tsx_resched_retransmission, Fit
<1>2. \/ v = t
      \/ \E u \in {t, a, b} : \E r \in tsx_send_msg(u) : v = r.t
  BY DEF tsx_retransmit
<1> HIDE DEF a, b
<1>3. CASE v = t
  BY <1>1, <1>3, StillLed
<1>4. CASE \E u \in {t, a, b} : \E r \in tsx_send_msg(u) : v = r.t
  <2>1. PICK u \in {t, a, b} : \E r \in tsx_send_msg(u) : v = r.t
    BY <1>4
  <2>2. PICK r \in tsx_send_msg(u) : v = r.t
    BY <2>1
  <2>3. Still(t, u)
    BY <1>1, <2>1
  <2>4. Fit(u) /\ Led(t, u) /\ u.state < Terminated
    BY <2>3, StillFit, StillLed DEF Still
  <2>5. Led(u, v)
    BY <2>2, <2>4, SendMsgLed
  <2> QED BY <2>4, <2>5, LedTrans DEF Fit
<1> QED BY <1>2, <1>3, <1>4

-----------------------------------------------------------------------------
(* The functions that answer the user and the network.                      *)

(* Once it is known what a function sends, it sets the state and timers.    *)
LEMMA SetAhead ==
    ASSUME NEW t, NEW u, Record(t), Ahead(t, u), u.state = t.state, NEW s \in Int,
           t.state <= s, s < Terminated
    PROVE  LET v == [u EXCEPT !.state = s] IN Ahead(t, v) /\ v.state = s
<1> DEFINE v == [u EXCEPT !.state = s]
<1>1. /\ DOMAIN v = Names /\ v.state = s /\ v.told = u.told
      /\ v.terminating = u.terminating /\ v.pending_destroy = u.pending_destroy
  BY DEF Ahead, Fit, Record, Names
<1> HIDE DEF v
<1>2. t.state \in Null..Destroyed /\ t.state < Terminated /\ ~ (t.state >= Terminated)
  BY DEF Record, Null, Destroyed, Terminated
<1>3. Fit(v) /\ Final(t.state, v.state)
  BY <1>1, <1>2 DEF Ahead, Fit, Record, Final, Null, Terminated, Destroyed
<1>4. ~ (v.state >= Terminated)
  BY <1>1 DEF Terminated
<1>5. Ahead(t, v)
  BY <1>1, <1>2, <1>3, <1>4 DEF Ahead
<1> QED BY <1>1, <1>5 DEF v

LEMMA CalledAhead ==
    ASSUME NEW t, Fit(t), t.state = Null, NEW r \in tsx_send_msg(t)
    PROVE  Ahead(t, Called(r))
<1>0. t.state < Terminated /\ Record(t)
  BY DEF Null, Terminated, Fit
<1>1. Led(t, r.t) /\ (r.ok => r.t.state = t.state)
  BY <1>0, SendMsgLed
<1>2. CASE ~ r.ok
  BY <1>1, <1>2 DEF Called, Led
<1>3. CASE r.ok
  <2> DEFINE u == StartTimeout(r.t)
             v == IF Reliable(u) THEN u ELSE StartRetransmit(u)
  <2>0. Record(r.t) /\ Fit(r.t)
    BY <1>1 DEF Led, Ahead, Fit
  <2>1. Still(r.t, u)
    BY <2>0, StartTimeoutStill
  <2> HIDE DEF u
  <2>2. Still(u, v)
    BY <2>1, StartRetransmitStill, StillSelf DEF Still
  <2>4. Called(r) = [v EXCEPT !.state = Calling]
    BY <1>3 DEF Called, u
  <2> HIDE DEF v
  <2>5. Still(r.t, v)
    BY <2>1, <2>2, StillTrans
  <2>6. Led(t, v) /\ v.state = t.state
    BY <1>0, <1>1, <1>3, <2>0, <2>5, StillLed, LedTrans DEF Still
  <2>7. Calling \in Int /\ t.state <= Calling /\ Calling < Terminated
    BY DEF Null, Calling, Terminated
  <2> QED BY <1>0, <2>4, <2>6, <2>7, SetAhead DEF Led
<1> QED BY <1>2, <1>3

LEMMA AnsweredAhead ==
    ASSUME NEW t, Fit(t), t.state \in {Trying, Proceeding}, NEW code \in Response,
           NEW r \in tsx_send_msg(t)
    PROVE  Ahead(t, Answered(r, code))
<1>0. t.state < Terminated /\ Record(t)
  BY DEF Trying, Proceeding, Terminated, Fit
<1>1. Led(t, r.t) /\ (r.ok => r.t.state = t.state)
  BY <1>0, SendMsgLed
<1>2. CASE ~ r.ok
  BY <1>1, <1>2 DEF Answered, Led
<1>3. CASE r.ok
  <2> DEFINE u == IF code = 100 \/ (code < 200 /\ ~ Invite(r.t)) THEN r.t
                  ELSE tsx_cancel_timer(r.t, "retransmit")
             v == [u EXCEPT !.last_tx = TRUE]
             w == IF Invite(v) /\ (code \in {180, 200} \/ ~ Reliable(v)) /\ code > 100
                  THEN StartRetransmit(v) ELSE v
             x == StartTimeout(w)
  <2>0. Record(r.t) /\ Fit(r.t)
    BY <1>1 DEF Led, Ahead, Fit
  <2>1. Answered(r, code) = IF code < 200 THEN [w EXCEPT !.state = Proceeding]
                                          ELSE [x EXCEPT !.state = Completed]
    BY <1>3 DEF Answered
  <2>2. Still(r.t, u)
    BY <2>0, CancelStill, StillSelf
  <2> HIDE DEF u
  <2>3. Still(u, v)
    BY <2>2, LastStill DEF Still
  <2> HIDE DEF v
  <2>4. Still(v, w)
    BY <2>3, StartRetransmitStill, StillSelf DEF Still
  <2> HIDE DEF w
  <2>5. Still(w, x)
    BY <2>4, StartTimeoutStill DEF Still
  <2> HIDE DEF x
  <2>6. Still(r.t, w) /\ Still(r.t, x)
    BY <2>2, <2>3, <2>4, <2>5, StillTrans
  <2>7. Ahead(t, w) /\ w.state = t.state /\ Ahead(t, x) /\ x.state = t.state
    BY <1>0, <1>1, <1>3, <2>0, <2>6, StillLed, LedTrans DEF Still, Led
  <2>8. /\ Proceeding \in Int /\ t.state <= Proceeding /\ Proceeding < Terminated
        /\ Completed \in Int /\ t.state <= Completed /\ Completed < Terminated
    BY DEF Trying, Proceeding, Completed, Terminated
  <2>9. /\ Ahead(t, [w EXCEPT !.state = Proceeding])
        /\ Ahead(t, [x EXCEPT !.state = Completed])
    BY <1>0, <2>7, <2>8, SetAhead
  <2> QED BY <2>1, <2>9
<1> QED BY <1>2, <1>3

LEMMA CompletedAhead ==
    ASSUME NEW t, Fit(t), t.state \in {Calling, Proceeding},
           NEW u, Ahead(t, u), u.state = t.state
    PROVE  Ahead(t, StartTimeout([u EXCEPT !.state = Completed]))
<1> DEFINE v == [u EXCEPT !.state = Completed]
<1>0. Completed \in Int /\ t.state <= Completed /\ Completed < Terminated /\ Record(t)
  BY DEF Calling, Proceeding, Completed, Terminated, Fit
<1>1. Ahead(t, v)
  BY <1>0, SetAhead
<1> HIDE DEF v
<1>2. Fit(v) /\ Record(v)
  BY <1>1 DEF Ahead, Fit
<1>3. Still(v, StartTimeout(v))
  BY <1>2, StartTimeoutStill
<1>4. Ahead(t, StartTimeout(v))
  BY <1>0, <1>1, <1>2, <1>3, StillLed, AheadTrans DEF Led
<1> QED BY <1>4 DEF v

LEMMA RejectedAhead ==
    ASSUME NEW t, Fit(t), t.state \in {Calling, Proceeding}, NEW v \in Rejected(t)
    PROVE  Ahead(t, v)
<1> DEFINE a == tsx_cancel_timer(t, "retransmit")
           u == tsx_cancel_timer(a, "timeout")
           done(w) == StartTimeout([w EXCEPT !.state = Completed])
<1>0. t.state < Terminated /\ Record(t)
  BY DEF Calling, Proceeding, Terminated, Fit
<1>1. Still(t, a)
  BY <1>0, CancelStill
<1>2. Still(a, u)
  <2> HIDE DEF a
  <2> QED BY <1>1, CancelStill DEF Still
<1>3. Still(t, u) /\ Fit(u)
  BY <1>1, <1>2, StillTrans, StillFit
<1>4. \/ v = done(u)
      \/ \E r \in tsx_send_msg(u) : v = IF r.ok THEN done(r.t) ELSE r.t
  <2> HIDE DEF a
  <2> SUFFICES ASSUME v \in IF Invite(u)
                            THEN {IF r.ok THEN done(r.t) ELSE r.t : r \in tsx_send_msg(u)}
                            ELSE {done(u)}
               PROVE  \/ v = done(u)
                      \/ \E r \in tsx_send_msg(u) : v = IF r.ok THEN done(r.t) ELSE r.t
    BY DEF Rejected, a
  <2> HIDE DEF u, done
  <2> QED OBVIOUS
<1> HIDE DEF a, u
<1>5. \A w : Ahead(t, w) /\ w.state = t.state => Ahead(t, done(w))
  BY CompletedAhead
<1> HIDE DEF done
<1>6. Led(t, u) /\ u.state = t.state
  BY <1>3, StillLed DEF Still
<1>7. CASE v = done(u)
  BY <1>5, <1>6, <1>7 DEF Led
<1>8. CASE \E r \in tsx_send_msg(u) : v = IF r.ok THEN done(r.t) ELSE r.t
  <2>1. PICK r \in tsx_send_msg(u) : v = IF r.ok THEN done(r.t) ELSE r.t
    BY <1>8
  <2>2. Led(u, r.t) /\ (r.ok => r.t.state = u.state)
    BY <1>0, <1>3, <1>6, SendMsgLed
  <2>3. Led(t, r.t)
    BY <1>0, <1>6, <2>2, LedTrans
  <2> QED BY <1>5, <1>6, <2>1, <2>2, <2>3 DEF Led
<1> QED BY <1>4, <1>7, <1>8

LEMMA AcceptedAhead ==
    ASSUME NEW t, Fit(t), t.state \in {Calling, Proceeding}
    PROVE  Ahead(t, Accepted(t))
<1> DEFINE u == tsx_cancel_timer(t, "timeout")
           v == tsx_schedule_timer(u, "timeout", "TIMEOUT")
           w == tsx_cancel_timer(v, "retransmit")
<1>0. Completed \in Int /\ t.state <= Completed /\ Completed < Terminated /\ Record(t)
  BY DEF Calling, Proceeding, Completed, Terminated, Fit
<1>1. Still(t, u)
  BY <1>0, CancelStill
<1>2. Accepted(t) = IF Invite(t) THEN SetTerminated(u, 200)
                    ELSE [w EXCEPT !.state = Completed]
  BY DEF Accepted
<1> HIDE DEF u
<1>3. Still(u, v)
  BY <1>1, ScheduleStill DEF Still
<1> HIDE DEF v
<1>4. Still(v, w)
  BY <1>3, CancelStill DEF Still
<1> HIDE DEF w
<1>5. Still(t, w)
  BY <1>1, <1>3, <1>4, StillTrans
<1>6. Fit(u) /\ Led(t, u) /\ Ahead(t, w) /\ w.state = t.state
  BY <1>1, <1>5, StillFit, StillLed DEF Still, Led
<1>7. Led(u, SetTerminated(u, 200))
  BY <1>6, SetTerminatedEnds
<1>8. Ahead(t, SetTerminated(u, 200))
  BY <1>0, <1>6, <1>7, LedTrans DEF Led
<1>9. Ahead(t, [w EXCEPT !.state = Completed])
  BY <1>0, <1>6, SetAhead
<1> QED BY <1>2, <1>8, <1>9

LEMMA ProceedingUacAhead ==
    ASSUME NEW t, Fit(t), t.state \in {Calling, Proceeding}, NEW code \in Response,
           NEW v \in ProceedingUac(t, code)
    PROVE  Ahead(t, v)
<1> DEFINE u == [t EXCEPT !.status = code]
<1>0. /\ Proceeding \in Int /\ t.state <= Proceeding /\ Proceeding < Terminated
      /\ Record(t)
  BY DEF Calling, Proceeding, Terminated, Fit
<1>1. Still(t, u) /\ Fit(u)
  BY <1>0, StatusStill, StillFit
<1>2. v \in {[u EXCEPT !.state = Proceeding]} \cup {Accepted(u)} \cup Rejected(u)
  BY DEF ProceedingUac
<1> HIDE DEF u
<1>3. Ahead(t, u) /\ u.state = t.state
  BY <1>1, StillLed DEF Still, Led
<1>4. Ahead(t, [u EXCEPT !.state = Proceeding])
  BY <1>0, <1>3, SetAhead
<1>5. v = [u EXCEPT !.state = Proceeding] \/ Ahead(u, v)
  BY <1>1, <1>2, <1>3, AcceptedAhead, RejectedAhead
<1>6. Ahead(u, v) => Ahead(t, v)
  BY <1>0, <1>3, AheadTrans
<1> QED BY <1>4, <1>5, <1>6

LEMMA FirstResponseStill ==
    ASSUME NEW t, Record(t), NEW code
    PROVE  Still(t, FirstResponse(t, code))
<1> DEFINE u == tsx_cancel_timer(t, "retransmit")
           a == tsx_cancel_timer(u, "timeout")
           b == tsx_schedule_timer(u, "retransmit", "RETRANSMIT")
<1>1. Still(t, u)
  BY CancelStill
<1>2. \E v \in {u, a, b} : FirstResponse(t, code) = [v EXCEPT !.pending_resched = FALSE]
  BY DEF FirstResponse
<1> HIDE DEF u
<1>3. Still(u, u) /\ Still(u, a) /\ Still(u, b)
  BY <1>1, StillSelf, CancelStill, ScheduleStill DEF Still
<1> HIDE DEF a, b
<1>4. PICK v \in {u, a, b} : FirstResponse(t, code) = [v EXCEPT !.pending_resched = FALSE]
  BY <1>2
<1>5. Still(u, v)
  BY <1>3, <1>4
<1>6. Still(v, FirstResponse(t, code))
  BY <1>4, <1>5, ReschedStill DEF Still
<1> QED BY <1>1, <1>5, <1>6, StillTrans

LEMMA OnResponseAhead ==
    ASSUME NEW t, Fit(t), NEW code \in Response, NEW x \in OnResponse(t, code)
    PROVE  x = t \/ (t.state < Terminated /\ Ahead(t, x))
<1>1. CASE t.state = Calling
  <2> DEFINE u == FirstResponse(t, code)
  <2>1. x \in ProceedingUac(u, code)
    <3>1. ~ (t.state = Proceeding) /\ ~ (t.state = Completed)
      BY <1>1 DEF Calling, Proceeding, Completed
    <3> QED BY <1>1, <3>1, Zenon DEF OnResponse
  <2>2. Still(t, u) /\ Fit(u)
    BY FirstResponseStill, StillFit DEF Fit
  <2> HIDE DEF u
  <2>3. u.state = t.state /\ Ahead(t, u)
    BY <2>2, StillLed DEF Still, Led
  <2>4. Ahead(u, x)
    BY <1>1, <2>1, <2>2, <2>3, ProceedingUacAhead
  <2>5. Ahead(t, x)
    BY <2>3, <2>4, AheadTrans DEF Fit
  <2> QED BY <1>1, <2>5 DEF Calling, Terminated
<1>2. CASE t.state = Proceeding
  <2>1. x \in ProceedingUac(t, code)
    <3>1. ~ (t.state = Calling) /\ ~ (t.state = Completed)
      BY <1>2 DEF Calling, Proceeding, Completed
    <3> QED BY <1>2, <3>1, Zenon DEF OnResponse
  <2>2. Ahead(t, x)
    BY <1>2, <2>1, ProceedingUacAhead
  <2> QED BY <1>2, <2>2 DEF Proceeding, Terminated
<1>3. CASE t.state = Completed /\ Invite(t) /\ code >= 200
  <2>1. x \in tsx_retransmit(t, FALSE)
    <3>1. ~ (t.state = Calling) /\ ~ (t.state = Proceeding)
      BY <1>3 DEF Calling, Proceeding, Completed
    <3> QED BY <1>3, <3>1, Zenon DEF OnResponse
  <2>2. t.state < Terminated
    BY <1>3 DEF Completed, Terminated
  <2> QED BY <2>1, <2>2, RetransmitLed DEF Led
<1>4. CASE ~ (t.state = Calling \/ t.state = Proceeding
             \/ (t.state = Completed /\ Invite(t) /\ code >= 200))
  BY <1>4, Zenon DEF OnResponse
<1> QED BY <1>1, <1>2, <1>3, <1>4

LEMMA OnRequestAhead ==
    ASSUME NEW t, Fit(t), NEW x \in OnRequest(t)
    PROVE  x = t \/ (t.state < Terminated /\ Ahead(t, x))
<1>1. CASE t.state = Null
  <2>1. x = [t EXCEPT !.state = Trying]
    <3>1. ~ (t.state = Proceeding) /\ ~ (t.state = Completed)
      BY <1>1 DEF Null, Proceeding, Completed
    <3> QED BY <1>1, <3>1, Zenon DEF OnRequest
  <2>2. Record(t) /\ Ahead(t, t)
    BY StillSelf, StillLed DEF Fit, Led
  <2>3. /\ Trying \in Int /\ t.state <= Trying /\ Trying < Terminated
        /\ t.state < Terminated
    BY <1>1 DEF Null, Trying, Terminated
  <2> QED BY <2>1, <2>2, <2>3, SetAhead
<1>2. CASE t.state = Proceeding
  <2>1. \E r \in tsx_send_msg(t) : x = r.t
    <3>1. ~ (t.state = Null) /\ ~ (t.state = Completed)
      BY <1>2 DEF Null, Proceeding, Completed
    <3> QED BY <1>2, <3>1, Zenon DEF OnRequest
  <2>2. t.state < Terminated
    BY <1>2 DEF Proceeding, Terminated
  <2>3. PICK r \in tsx_send_msg(t) : x = r.t
    BY <2>1
  <2> QED BY <2>2, <2>3, SendMsgLed DEF Led
<1>3. CASE t.state = Completed
  <2>1. x \in tsx_retransmit(t, FALSE)
    <3>1. ~ (t.state = Null) /\ ~ (t.state = Proceeding)
      BY <1>3 DEF Null, Proceeding, Completed
    <3> QED BY <1>3, <3>1, Zenon DEF OnRequest
  <2>2. t.state < Terminated
    BY <1>3 DEF Completed, Terminated
  <2> QED BY <2>1, <2>2, RetransmitLed DEF Led
<1>4. CASE t.state \notin {Null, Proceeding, Completed}
  BY <1>4, Zenon DEF OnRequest
<1> QED BY <1>1, <1>2, <1>3, <1>4

LEMMA PostErrorStill ==
    ASSUME NEW t, Record(t)
    PROVE  Still(t, PostError(t))
<1> DEFINE u == tsx_cancel_timer(t, "timeout")
           v == tsx_schedule_timer(u, "timeout", "TRANSPORT_ERR")
<1>1. Still(t, u)
  BY CancelStill
<1>2. Still(u, v)
  <2> HIDE DEF u
  <2> QED BY <1>1, ScheduleStill DEF Still
<1>3. PostError(t) \in {t, v}
  BY DEF PostError
<1> HIDE DEF u, v
<1> QED BY <1>1, <1>2, <1>3, StillTrans, StillSelf

-----------------------------------------------------------------------------
(* Who still has to be told.                                                *)

(* The thread that tells the TU of a timeout does so whatever has happened, *)
(* the one that tells of a transport error only when the transaction was    *)
(* not shut down in the middle of a send.                                   *)
TellsTimeout == \E p \in Poller : thread[p].pc = "tell_timeout"
TellsError == \E p \in Poller : thread[p].pc = "tell_error"

(* Only a transaction that has ended is shut down, and one that has ended   *)
(* has told its user or is about to.                                        *)
EndAt(t, timeout, error) ==
    /\ t.terminating => t.state >= Terminated
    /\ t.state >= Terminated => t.told \/ timeout \/ (error /\ ~ t.pending_destroy)
    /\ t.state >= Terminated /\ t.pending => t.told \/ timeout
EndInv == EndAt(tsx, TellsTimeout, TellsError)

LEMMA AheadEnd ==
    ASSUME NEW t, NEW u, NEW a, NEW b, Record(t), EndAt(t, a, b), Ahead(t, u),
           t.state < Terminated \/ t.pending \/ Settled(t, u)
    PROVE  EndAt(u, a, b) /\ Final(t.state, u.state)
<1>1. t.state \in Null..Destroyed /\ u.state \in Null..Destroyed
  BY DEF Ahead, Fit, Record
<1>2. /\ t.state >= Terminated => u.state >= Terminated
      /\ t.state < Terminated \/ t.state >= Terminated
      /\ ~ (t.state < Terminated /\ t.state >= Terminated)
  BY <1>1 DEF Ahead, Final, Null, Terminated, Destroyed
<1> QED BY <1>2 DEF EndAt, Ahead, Settled

LEMMA StillEnd ==
    ASSUME NEW t, NEW u, NEW a, NEW b, Still(t, u), Record(t), EndAt(t, a, b)
    PROVE  EndAt(u, a, b) /\ Final(t.state, u.state)
<1>1. t.state \in Null..Destroyed
  BY DEF Record
<1>2. Final(t.state, u.state)
  BY <1>1 DEF Still, Final, Null, Terminated, Destroyed
<1> QED BY <1>2 DEF Still, EndAt

LEMMA MoreEnd ==
    ASSUME NEW t, NEW a, NEW b, NEW c, NEW d, EndAt(t, a, b), a => c, b => d
    PROVE  EndAt(t, c, d)
BY DEF EndAt

LEMMA TsxFacts ==
    ASSUME IndInv
    PROVE  Record(tsx) /\ Fit(tsx) /\ OneSend(tsx)
BY TsxRecord, Fields DEF IndInv, Good, Sound, Core, Going, Fit

(* Threads that do not move, or move from elsewhere, tell what they told.   *)
LEMMA MovedTells ==
    ASSUME IndInv, NEW p \in Poller,
           thread[p].pc \notin {"tell_timeout", "tell_error"},
           (\E d : Goto(p, d)) \/ (\E v : thread' = [thread EXCEPT ![p] = v])
    PROVE  (TellsTimeout => TellsTimeout') /\ (TellsError => TellsError')
<1>1. thread \in [Poller -> [pc : Place, timer : Timer]]
  BY DEF IndInv
<1>2. \A q \in Poller : q # p => thread'[q] = thread[q]
  BY <1>1 DEF Goto
<1> QED BY <1>2 DEF TellsTimeout, TellsError

LEMMA UserEnd ==
    ASSUME IndInv, EndInv,
           \/ SendRequest \/ pjsip_tsx_terminate \/ pjsip_tsx_stop_retransmit
           \/ pjsip_tsx_set_timeout \/ pjsip_tsx_retransmit_no_state \/ LayerStops
           \/ \E code \in Response : SendResponse(code)
    PROVE  EndAt(tsx', TellsTimeout, TellsError) /\ Final(tsx.state, tsx'.state)
<1>0. Record(tsx) /\ Fit(tsx)
  BY TsxFacts
<1>a. ASSUME tsx.state < Terminated \/ Settled(tsx, tsx'), Ahead(tsx, tsx')
      PROVE  EndAt(tsx', TellsTimeout, TellsError) /\ Final(tsx.state, tsx'.state)
  BY <1>0, <1>a, AheadEnd DEF EndInv
<1>s. ASSUME Still(tsx, tsx')
      PROVE  EndAt(tsx', TellsTimeout, TellsError) /\ Final(tsx.state, tsx'.state)
  BY <1>0, <1>s, StillEnd DEF EndInv
<1>1. CASE SendRequest
  <2>1. PICK r \in tsx_send_msg(tsx) : tsx' = Called(r)
    BY <1>1 DEF SendRequest
  <2>2. tsx.state = Null /\ tsx.state < Terminated
    BY <1>1 DEF SendRequest, Null, Terminated
  <2>3. Ahead(tsx, tsx')
    BY <1>0, <2>1, <2>2, CalledAhead
  <2> QED BY <1>a, <2>2, <2>3
<1>2. CASE pjsip_tsx_terminate
  <2>1. Ahead(tsx, tsx')
    BY <1>0, <1>2, SetTerminatedEnds DEF pjsip_tsx_terminate, Led
  <2> QED BY <1>2, <1>a, <2>1 DEF pjsip_tsx_terminate
<1>3. CASE pjsip_tsx_stop_retransmit
  BY <1>0, <1>3, <1>s, CancelStill DEF pjsip_tsx_stop_retransmit
<1>4. CASE pjsip_tsx_set_timeout
  BY <1>0, <1>4, <1>s, StartTimeoutStill DEF pjsip_tsx_set_timeout
<1>5. CASE pjsip_tsx_retransmit_no_state
  <2>1. PICK r \in tsx_send_msg(tsx) : tsx' = r.t
    BY <1>5 DEF pjsip_tsx_retransmit_no_state
  <2>2. tsx.state < Terminated
    BY <1>5 DEF pjsip_tsx_retransmit_no_state, Calling, Confirmed, Terminated
  <2>3. Ahead(tsx, tsx')
    BY <1>0, <2>1, <2>2, SendMsgLed DEF Led
  <2> QED BY <1>a, <2>2, <2>3
<1>6. CASE LayerStops
  <2> DEFINE v == SetTerminated(tsx, 503)
             u == IF tsx.state < Terminated THEN v ELSE tsx
  <2>1. tsx' = AfterDestroyed(u)
    BY <1>6 DEF LayerStops
  <2>2. CASE tsx.state < Terminated
    <3>1. Led(tsx, v) /\ v.state = Terminated /\ u = v
      BY <1>0, <2>2, SetTerminatedEnds
    <3> HIDE DEF u, v
    <3>2. Fit(v) /\ v.state >= Terminated
      BY <3>1 DEF Led, Ahead, Terminated
    <3>3. Ahead(v, tsx')
      BY <2>1, <3>1, <3>2, AfterDestroyedEnds
    <3>4. Ahead(tsx, tsx')
      BY <1>0, <3>1, <3>3, AheadTrans DEF Led
    <3> QED BY <1>a, <2>2, <3>4
  <2>3. CASE ~ (tsx.state < Terminated)
    <3>1. u = tsx
      BY <2>3
    <3>2. tsx.state >= Terminated
      BY <1>0, <2>3 DEF Record, Null, Terminated, Destroyed
    <3> HIDE DEF u
    <3>3. Ahead(tsx, tsx') /\ Settled(tsx, tsx')
      BY <1>0, <2>1, <3>1, <3>2, AfterDestroyedEnds
    <3> QED BY <1>a, <3>3
  <2> QED BY <2>2, <2>3
<1>7. CASE \E code \in Response : SendResponse(code)
  <2>1. PICK code \in Response : SendResponse(code)
    BY <1>7
  <2> DEFINE u == [tsx EXCEPT !.status = code, !.last_tx = FALSE]
  <2>2. PICK r \in tsx_send_msg(u) : tsx' = Answered(r, code)
    BY <2>1 DEF SendResponse
  <2>3. tsx.state \in {Trying, Proceeding}
    BY <2>1 DEF SendResponse
  <2>4. Still(tsx, u)
    BY <1>0 DEF Still, Record, Names
  <2> HIDE DEF u
  <2>5. Fit(u) /\ u.state = tsx.state /\ Ahead(tsx, u)
    BY <1>0, <2>4, StillFit, StillLed DEF Still, Led
  <2>6. Ahead(u, tsx')
    BY <2>2, <2>3, <2>5, AnsweredAhead
  <2>7. Ahead(tsx, tsx')
    BY <1>0, <2>5, <2>6, AheadTrans
  <2>8. tsx.state < Terminated
    BY <2>3 DEF Trying, Proceeding, Terminated
  <2> QED BY <1>a, <2>7, <2>8
<1> QED BY <1>1, <1>2, <1>3, <1>4, <1>5, <1>6, <1>7

LEMMA NetworkEnd ==
    ASSUME IndInv, EndInv,
           \/ \E code \in Response : RecvResponse(code)
           \/ RecvRequest \/ RecvAck
    PROVE  EndAt(tsx', TellsTimeout, TellsError) /\ Final(tsx.state, tsx'.state)
<1>0. Record(tsx) /\ Fit(tsx)
  BY TsxFacts
<1>a. ASSUME tsx.state < Terminated, Ahead(tsx, tsx')
      PROVE  EndAt(tsx', TellsTimeout, TellsError) /\ Final(tsx.state, tsx'.state)
  BY <1>0, <1>a, AheadEnd DEF EndInv
<1>s. ASSUME tsx' = tsx
      PROVE  EndAt(tsx', TellsTimeout, TellsError) /\ Final(tsx.state, tsx'.state)
  BY <1>0, <1>s, StillSelf, StillEnd DEF EndInv
<1>1. CASE \E code \in Response : RecvResponse(code)
  <2>1. PICK code \in Response : RecvResponse(code)
    BY <1>1
  <2>2. tsx' \in OnResponse(tsx, code)
    BY <2>1 DEF RecvResponse
  <2> QED BY <1>0, <1>a, <1>s, <2>2, OnResponseAhead
<1>2. CASE RecvRequest
  <2>1. tsx' \in OnRequest(tsx)
    BY <1>2 DEF RecvRequest
  <2> QED BY <1>0, <1>a, <1>s, <2>1, OnRequestAhead
<1>3. CASE RecvAck
  <2> DEFINE a == tsx_cancel_timer(tsx, "retransmit")
             u == [a EXCEPT !.pending_resched = FALSE]
             v == StartTimeout(u)
  <2>1. tsx' = [v EXCEPT !.state = Confirmed] /\ tsx.state = Completed
    BY <1>3 DEF RecvAck
  <2>2. Still(tsx, a)
    BY <1>0, CancelStill
  <2> HIDE DEF a
  <2>3. Still(a, u)
    BY <2>2, ReschedStill DEF Still
  <2> HIDE DEF u
  <2>4. Still(u, v)
    BY <2>3, StartTimeoutStill DEF Still
  <2> HIDE DEF v
  <2>5. Still(tsx, v)
    BY <2>2, <2>3, <2>4, StillTrans
  <2>6. Ahead(tsx, v) /\ v.state = tsx.state
    BY <1>0, <2>5, StillLed DEF Led, Still
  <2>7. Ahead(tsx, tsx')
    BY <1>0, <2>1, <2>6, SetAhead DEF Completed, Confirmed, Terminated
  <2> QED BY <1>a, <2>1, <2>7 DEF Completed, Terminated
<1> QED BY <1>1, <1>2, <1>3

LEMMA TransportEnd ==
    ASSUME IndInv, EndInv, SendCallback \/ SendRetry \/ TransportLost
    PROVE  EndAt(tsx', TellsTimeout, TellsError) /\ Final(tsx.state, tsx'.state)
<1>0. Record(tsx) /\ Fit(tsx) /\ OneSend(tsx)
  BY TsxFacts
<1>a. ASSUME tsx.pending \/ Settled(tsx, tsx'), Ahead(tsx, tsx')
      PROVE  EndAt(tsx', TellsTimeout, TellsError) /\ Final(tsx.state, tsx'.state)
  BY <1>0, <1>a, AheadEnd DEF EndInv
<1>s. ASSUME Still(tsx, tsx')
      PROVE  EndAt(tsx', TellsTimeout, TellsError) /\ Final(tsx.state, tsx'.state)
  BY <1>0, <1>s, StillEnd DEF EndInv
<1>d. ASSUME DOMAIN tsx' = Names, tsx'.state = tsx.state, tsx'.told = tsx.told,
             tsx'.terminating = tsx.terminating, ~ tsx'.pending,
             tsx'.pending_destroy = tsx.pending_destroy
      PROVE  EndAt(tsx', TellsTimeout, TellsError) /\ Final(tsx.state, tsx'.state)
  <2>1. Ahead(tsx, tsx')
    BY <1>0, <1>d, FitLed DEF Led
  <2>2. Settled(tsx, tsx')
    BY <1>d DEF Settled
  <2> QED BY <1>a, <2>1, <2>2
<1>1. CASE SendDone
  <2>1. CASE ~ tsx.pending_tx
    <3>1. tsx' = [tsx EXCEPT !.sends = tsx.sends \ {"resolve"}, !.refs = tsx.refs - 1]
      BY <1>1, <2>1 DEF SendDone
    <3> QED BY <1>0, <1>s, <3>1, SendsStill
  <2>2. CASE tsx.pending_tx
    <3>1. tsx' \in send_msg_callback_sent(tsx)
      BY <1>1, <2>2 DEF SendDone
    <3>2. Ahead(tsx, tsx')
      BY <1>0, <3>1, SentAhead
    <3> QED BY <1>0, <1>a, <2>2, <3>2 DEF OneSend
  <2> QED BY <2>1, <2>2
<1>2. CASE SendFailed
  <2>1. Ahead(tsx, tsx') /\ tsx.pending_tx
    BY <1>0, <1>2, FailedAhead DEF SendFailed
  <2> QED BY <1>0, <1>a, <2>1 DEF OneSend
<1>3. CASE TransportDone
  <2>1. tsx' = [tsx EXCEPT !.pending = FALSE, !.sends = tsx.sends \ {"transport"},
                           !.refs = tsx.refs - 1]
    BY <1>3 DEF TransportDone
  <2>2. /\ DOMAIN tsx' = Names /\ tsx'.state = tsx.state /\ tsx'.told = tsx.told
        /\ tsx'.terminating = tsx.terminating /\ ~ tsx'.pending
        /\ tsx'.pending_destroy = tsx.pending_destroy
    BY <1>0, <2>1 DEF Record, Names
  <2> QED BY <1>d, <2>2
<1>4. CASE TransportFailed
  <2>1. tsx' = [tsx EXCEPT !.pending = FALSE,
                           !.sends = (tsx.sends \ {"transport"}) \cup {"failed"}]
    BY <1>4 DEF TransportFailed
  <2>2. /\ DOMAIN tsx' = Names /\ tsx'.state = tsx.state /\ tsx'.told = tsx.told
        /\ tsx'.terminating = tsx.terminating /\ ~ tsx'.pending
        /\ tsx'.pending_destroy = tsx.pending_destroy
    BY <1>0, <2>1 DEF Record, Names
  <2> QED BY <1>d, <2>2
<1>5. CASE TransportFailurePosted
  <2> DEFINE u == PostError(tsx)
  <2>1. Still(tsx, u)
    BY <1>0, PostErrorStill
  <2>2. tsx' = [u EXCEPT !.sends = u.sends \ {"failed"}, !.refs = u.refs - 1]
    BY <1>5 DEF TransportFailurePosted
  <2> HIDE DEF u
  <2>3. Record(u)
    BY <2>1 DEF Still
  <2>4. Still(u, tsx')
    BY <2>2, <2>3, SendsStill
  <2> QED BY <1>s, <2>1, <2>4, StillTrans
<1>6. CASE SendRetry
  BY <1>0, <1>6, <1>s, StartTimeoutStill DEF SendRetry
<1>7. CASE TransportLost
  BY <1>0, <1>7, <1>s, PostErrorStill DEF TransportLost
<1> QED BY <1>1, <1>2, <1>3, <1>4, <1>5, <1>6, <1>7 DEF SendCallback

LEMMA TimedOutEnds ==
    ASSUME NEW t, Record(t), t.terminating => t.state >= Terminated
    PROVE  LET u == TimedOut(t)
           IN  u.state = Terminated /\ \A b : EndAt(u, TRUE, b)
<1> DEFINE a == tsx_cancel_timer(t, "retransmit")
           b == [a EXCEPT !.pending_resched = FALSE]
           silent == \/ t.state = Confirmed
                     \/ t.state = Completed /\ ~ (UAS(t) /\ Invite(t))
           k == IF silent THEN t.status ELSE 408
           m == IF silent THEN b.status ELSE 408
<1>1. Still(t, a)
  BY CancelStill
<1>2. TimedOut(t).state = Terminated
  <2>1. CASE t.state # Calling
    <3>1. TimedOut(t) = [t EXCEPT !.state = Terminated, !.status = k]
      BY <2>1 DEF TimedOut
    <3> HIDE DEF k
    <3> QED BY <3>1 DEF Record, Names
  <2>2. CASE t.state = Calling
    <3>1. TimedOut(t) = [b EXCEPT !.state = Terminated, !.status = m]
      BY <2>2 DEF TimedOut
    <3> HIDE DEF a, m
    <3>2. Record(b)
      BY <1>1, ReschedStill DEF Still
    <3> HIDE DEF b
    <3> QED BY <3>1, <3>2 DEF Record, Names
  <2> QED BY <2>1, <2>2
<1> QED BY <1>2 DEF EndAt, Terminated

LEMMA CallbackEnd ==
    ASSUME IndInv, EndInv, NEW p \in Poller, Callback(p)
    PROVE  EndInv' /\ Final(tsx.state, tsx'.state)
<1>0. Record(tsx) /\ Fit(tsx) /\ tsx.state \in Null..Destroyed
  BY TsxFacts DEF Record
<1>e. EndAt(tsx, TellsTimeout, TellsError)
  BY DEF EndInv
<1>t. thread \in [Poller -> [pc : Place, timer : Timer]]
  BY DEF IndInv
<1>o. thread[p].pc \in Over => tsx.state >= Terminated
  BY DEF IndInv
<1>g. ASSUME NEW d, Goto(p, d), thread[p].pc \notin {"tell_timeout", "tell_error"},
             EndAt(tsx', TellsTimeout, TellsError)
      PROVE  EndInv'
  <2>1. (TellsTimeout => TellsTimeout') /\ (TellsError => TellsError')
    BY <1>g, MovedTells
  <2> QED BY <1>g, <2>1, MoreEnd DEF EndInv
<1>r. ASSUME NEW t, Return(p, t), thread[p].pc \notin {"tell_timeout", "tell_error"},
             Record(t), EndAt(t, TellsTimeout, TellsError)
      PROVE  EndInv' /\ tsx'.state = t.state
  <2>1. (TellsTimeout => TellsTimeout') /\ (TellsError => TellsError')
    BY <1>r, MovedTells DEF Return
  <2>2. Still(t, tsx')
    BY <1>r, DropStill DEF Return
  <2>3. EndAt(tsx', TellsTimeout, TellsError)
    BY <1>r, <2>2, StillEnd
  <2> QED BY <2>1, <2>2, <2>3, MoreEnd DEF EndInv, Still
<1>f. Final(tsx.state, tsx.state)
  BY <1>0 DEF Final, Null, Terminated, Destroyed
<1>1. CASE CallbackBegin(p)
  <2> DEFINE isTimeout == thread[p].timer = "timeout"
             i == IF isTimeout THEN "INACTIVE" ELSE tsx.id
             u == [tsx EXCEPT !.id = i]
  <2>1. /\ thread[p].pc = "expired"
        /\ \/ Return(p, tsx) \/ Return(p, u)
           \/ tsx' = u /\ Goto(p, "dispatch")
           \/ tsx' = u /\ Goto(p, "transport_error")
    BY <1>1 DEF CallbackBegin
  <2> HIDE DEF i
  <2>2. Still(tsx, u)
    BY <1>0 DEF Still, Record, Names
  <2> HIDE DEF u
  <2>3. EndAt(u, TellsTimeout, TellsError) /\ u.state = tsx.state /\ Record(u)
    BY <1>0, <1>e, <2>2, StillEnd DEF Still
  <2>5. CASE Return(p, tsx)
    BY <1>0, <1>e, <1>f, <1>r, <2>1, <2>5
  <2>6. CASE Return(p, u)
    BY <1>f, <1>r, <2>1, <2>3, <2>6
  <2>7. CASE tsx' = u /\ Goto(p, "dispatch")
    BY <1>f, <1>g, <2>1, <2>3, <2>7
  <2>8. CASE tsx' = u /\ Goto(p, "transport_error")
    BY <1>f, <1>g, <2>1, <2>3, <2>8
  <2> QED BY <2>1, <2>5, <2>6, <2>7, <2>8
<1>2. CASE TransportError(p)
  <2> DEFINE s == IF tsx.status < 200 THEN 503 ELSE tsx.status
             a == [tsx EXCEPT !.transport = FALSE, !.state = Terminated, !.status = s]
             b == Disassociated(a)
  <2>1. /\ tsx' = tsx_cancel_timer(b, "timeout") /\ Goto(p, "tell_error")
        /\ thread[p].pc = "transport_error"
    BY <1>2 DEF TransportError
  <2> HIDE DEF s
  <2>2. /\ Record(a) /\ a.state = Terminated /\ a.told = tsx.told
        /\ a.pending_destroy = tsx.pending_destroy
    <3>1. /\ DOMAIN a = Names /\ a.state = Terminated /\ a.told = tsx.told
          /\ a.pending_destroy = tsx.pending_destroy
      BY <1>0 DEF Record, Names
    <3> HIDE DEF a
    <3> QED BY <3>1 DEF Record, Null, Terminated, Destroyed
  <2> HIDE DEF a
  <2>3. /\ Record(b) /\ b.state = Terminated /\ ~ b.pending /\ (b.told <=> tsx.told)
        /\ b.pending_destroy <=> tsx.pending_destroy
    BY <2>2 DEF Disassociated, Record, Names
  <2> HIDE DEF b
  <2>4. Still(b, tsx')
    BY <2>1, <2>3, CancelStill
  <2>5. /\ tsx'.state = Terminated /\ ~ tsx'.pending /\ (tsx'.told <=> tsx.told)
        /\ tsx'.pending_destroy <=> tsx.pending_destroy
    BY <2>3, <2>4 DEF Still
  <2>6. TellsTimeout => TellsTimeout'
    BY <2>1, MovedTells
  <2>7. TellsError'
    <3>1. thread'[p].pc = "tell_error"
      BY <1>t, <2>1 DEF Goto
    <3> QED BY <3>1 DEF TellsError
  <2>8. tsx.pending_destroy => tsx.told \/ TellsTimeout
    <3>1. tsx.pending_destroy => tsx.state >= Terminated
      BY <1>0 DEF Fit, Null, Terminated, Destroyed
    <3> QED BY <1>e, <3>1 DEF EndAt
  <2>9. EndInv'
    <3>1. tsx'.state >= Terminated
      BY <2>5 DEF Terminated
    <3> QED BY <2>5, <2>6, <2>7, <2>8, <3>1 DEF EndInv, EndAt
  <2>10. Final(tsx.state, tsx'.state)
    <3>1. tsx.state = Destroyed \/ tsx.state <= Terminated
      BY <1>0 DEF Null, Terminated, Destroyed
    <3> QED BY <2>5, <3>1 DEF Final, Terminated, Destroyed
  <2> QED BY <2>9, <2>10
<1>3. CASE DispatchTimeout(p)
  <2>1. /\ thread[p].pc = "dispatch"
        /\ \/ /\ tsx.state \in {Calling, Proceeding, Completed, Confirmed}
              /\ tsx' = TimedOut(tsx) /\ Goto(p, "tell_timeout")
           \/ /\ tsx.state = Terminated
              /\ tsx' = [tsx EXCEPT !.state = Destroyed] /\ Goto(p, "destroyed")
           \/ Return(p, tsx)
    BY <1>3 DEF DispatchTimeout
  <2>2. CASE /\ tsx.state \in {Calling, Proceeding, Completed, Confirmed}
             /\ tsx' = TimedOut(tsx) /\ Goto(p, "tell_timeout")
    <3>1. tsx'.state = Terminated /\ EndAt(tsx', TRUE, TellsError')
      BY <1>0, <1>e, <2>2, TimedOutEnds DEF EndAt
    <3>2. TellsTimeout' = TRUE
      <4>1. thread'[p].pc = "tell_timeout"
        BY <1>t, <2>2 DEF Goto
      <4> QED BY <4>1 DEF TellsTimeout
    <3>3. EndInv'
      BY <3>1, <3>2 DEF EndInv
    <3>4. Final(tsx.state, tsx'.state)
      BY <2>2, <3>1 DEF Final, Calling, Proceeding, Completed, Confirmed, Terminated,
           Destroyed
    <3> QED BY <3>3, <3>4
  <2>3. CASE /\ tsx.state = Terminated
             /\ tsx' = [tsx EXCEPT !.state = Destroyed] /\ Goto(p, "destroyed")
    <3>1. /\ tsx'.state = Destroyed /\ tsx'.told = tsx.told
          /\ tsx'.pending = tsx.pending /\ tsx'.pending_destroy = tsx.pending_destroy
      BY <1>0, <2>3 DEF Record, Names
    <3>2. tsx.state >= Terminated /\ tsx'.state >= Terminated
      BY <2>3, <3>1 DEF Terminated, Destroyed
    <3>3. EndAt(tsx', TellsTimeout, TellsError)
      BY <1>e, <3>1, <3>2 DEF EndAt
    <3>4. Final(tsx.state, tsx'.state)
      BY <2>3, <3>1 DEF Final, Terminated, Destroyed
    <3> QED BY <1>g, <2>1, <2>3, <3>3, <3>4
  <2>4. CASE Return(p, tsx)
    BY <1>0, <1>e, <1>f, <1>r, <2>1, <2>4
  <2> QED BY <2>1, <2>2, <2>3, <2>4
<1>4. CASE DispatchRetransmit(p)
  <2>1. /\ thread[p].pc = "dispatch"
        /\ \/ /\ tsx.state \in {Calling, Proceeding, Completed}
              /\ \E t \in tsx_retransmit(tsx, TRUE) : Return(p, t)
           \/ tsx.state = Terminated /\ Return(p, SetDestroyed(tsx))
           \/ Return(p, tsx)
    <3>1. thread[p].pc = "dispatch"
      BY <1>4 DEF DispatchRetransmit
    <3>2. CASE tsx.state \in {Calling, Proceeding} \/ (tsx.state = Completed /\ UAS(tsx))
      <4>1. tsx.state \in {Calling, Proceeding, Completed}
        BY <3>2
      <4> QED BY <1>4, <3>1, <3>2, <4>1, Zenon DEF DispatchRetransmit
    <3>3. CASE ~ (tsx.state \in {Calling, Proceeding}
                  \/ (tsx.state = Completed /\ UAS(tsx)))
      BY <1>4, <3>1, <3>3, Zenon DEF DispatchRetransmit
    <3> QED BY <3>2, <3>3
  <2>2. CASE /\ tsx.state \in {Calling, Proceeding, Completed}
             /\ \E t \in tsx_retransmit(tsx, TRUE) : Return(p, t)
    <3>1. PICK t \in tsx_retransmit(tsx, TRUE) : Return(p, t)
      BY <2>2
    <3>2. tsx.state < Terminated
      BY <2>2 DEF Calling, Proceeding, Completed, Terminated
    <3>3. Ahead(tsx, t) /\ Record(t)
      BY <1>0, <3>2, RetransmitLed DEF Led, Ahead, Fit
    <3>4. EndAt(t, TellsTimeout, TellsError) /\ Final(tsx.state, t.state)
      BY <1>0, <1>e, <3>2, <3>3, AheadEnd
    <3> QED BY <1>r, <2>1, <3>1, <3>3, <3>4
  <2>3. CASE tsx.state = Terminated /\ Return(p, SetDestroyed(tsx))
    <3> DEFINE u == SetDestroyed(tsx)
    <3>1. Ahead(tsx, u) /\ Settled(tsx, u)
      BY <1>0, <2>3, SetDestroyedEnds DEF Terminated
    <3> HIDE DEF u
    <3>2. Record(u) /\ EndAt(u, TellsTimeout, TellsError) /\ Final(tsx.state, u.state)
      BY <1>0, <1>e, <3>1, AheadEnd DEF Ahead, Fit
    <3>3. EndInv' /\ tsx'.state = u.state
      BY <1>r, <2>1, <2>3, <3>2 DEF u
    <3> QED BY <3>2, <3>3
  <2>4. CASE Return(p, tsx)
    BY <1>0, <1>e, <1>f, <1>r, <2>1, <2>4
  <2> QED BY <2>1, <2>2, <2>3, <2>4
<1>5. CASE TellUser(p)
  <2> DEFINE b == \/ tsx.told \/ ~ tsx.pending_destroy
                  \/ thread[p].pc = "tell_timeout"
             d == IF thread[p].pc = "tell_timeout" THEN "terminated" ELSE "error_told"
  <2>1. /\ thread[p].pc \in {"tell_timeout", "tell_error"}
        /\ tsx' = [tsx EXCEPT !.told = b] /\ Goto(p, d)
    BY <1>5 DEF TellUser
  <2>2. tsx.state >= Terminated
    BY <1>o, <2>1 DEF Over
  <2>3. b \/ TellsTimeout'
    <3>1. CASE b
      BY <3>1
    <3>2. CASE ~ b
      <4>1. TellsTimeout
        BY <1>e, <2>2, <3>2 DEF EndAt
      <4>2. PICK q \in Poller : thread[q].pc = "tell_timeout"
        BY <4>1 DEF TellsTimeout
      <4>3. thread'[q] = thread[q]
        BY <1>t, <2>1, <3>2, <4>2 DEF Goto
      <4> QED BY <4>2, <4>3 DEF TellsTimeout
    <3> QED BY <3>1, <3>2
  <2> HIDE DEF b
  <2>4. tsx'.state = tsx.state /\ tsx'.told = b
    BY <1>0, <2>1 DEF Record, Names
  <2> QED BY <1>f, <2>2, <2>3, <2>4 DEF EndInv, EndAt
<1>6. CASE FinishTerminated(p)
  <2> DEFINE u == AfterTerminated(tsx)
  <2>1. thread[p].pc = "terminated" /\ Return(p, u) /\ tsx.state >= Terminated
    BY <1>6, <1>o DEF FinishTerminated, Over
  <2>2. Ahead(tsx, u) /\ ~ u.pending /\ (u.pending_destroy <=> tsx.pending_destroy)
    BY <1>0, <2>1, AfterTerminatedEnds DEF Led
  <2> HIDE DEF u
  <2>3. Settled(tsx, u) /\ Record(u)
    BY <2>2 DEF Settled, Ahead, Fit
  <2>4. EndAt(u, TellsTimeout, TellsError) /\ Final(tsx.state, u.state)
    BY <1>0, <1>e, <2>2, <2>3, AheadEnd
  <2> QED BY <1>r, <2>1, <2>3, <2>4
<1>7. CASE FinishDestroyed(p)
  <2> DEFINE u == AfterDestroyed(tsx)
  <2>1. thread[p].pc = "destroyed" /\ Return(p, u) /\ tsx.state >= Terminated
    BY <1>7, <1>o DEF FinishDestroyed, Over
  <2>2. Ahead(tsx, u) /\ Settled(tsx, u)
    BY <1>0, <2>1, AfterDestroyedEnds
  <2> HIDE DEF u
  <2>3. /\ EndAt(u, TellsTimeout, TellsError) /\ Final(tsx.state, u.state)
        /\ Record(u)
    BY <1>0, <1>e, <2>2, AheadEnd DEF Ahead, Fit
  <2> QED BY <1>r, <2>1, <2>3
<1>8. CASE FinishError(p)
  <2> DEFINE u == tsx_schedule_timer(tsx, "timeout", "TIMEOUT")
  <2>1. thread[p].pc = "error_told" /\ Return(p, u)
    BY <1>8 DEF FinishError
  <2>2. Still(tsx, u)
    BY <1>0, ScheduleStill
  <2> HIDE DEF u
  <2>3. EndAt(u, TellsTimeout, TellsError) /\ Record(u) /\ u.state = tsx.state
    BY <1>0, <1>e, <2>2, StillEnd DEF Still
  <2> QED BY <1>f, <1>r, <2>1, <2>3
<1> QED BY <1>1, <1>2, <1>3, <1>4, <1>5, <1>6, <1>7, <1>8 DEF Callback

LEMMA ExpireEnd ==
    ASSUME IndInv, EndInv, NEW p \in Poller, NEW x \in Timer, Expire(p, x)
    PROVE  EndInv' /\ Final(tsx.state, tsx'.state)
<1>0. Record(tsx)
  BY TsxFacts
<1>1. thread[p].pc = "poll" /\ tsx' = [tsx EXCEPT !.running[x] = FALSE]
  BY DEF Expire
<1>2. (TellsTimeout => TellsTimeout') /\ (TellsError => TellsError')
  <2>1. thread[p].pc \notin {"tell_timeout", "tell_error"}
    BY <1>1
  <2> QED BY <2>1, MovedTells DEF Expire
<1>3. Still(tsx, tsx')
  BY <1>0, <1>1 DEF Still, Record, Names
<1>4. EndAt(tsx', TellsTimeout, TellsError) /\ Final(tsx.state, tsx'.state)
  BY <1>0, <1>3, StillEnd DEF EndInv
<1> QED BY <1>2, <1>4, MoreEnd DEF EndInv

LEMMA NextEnd ==
    ASSUME IndInv, EndInv, [Next]_vars
    PROVE  EndInv' /\ Final(tsx.state, tsx'.state)
<1>q. ASSUME UNCHANGED thread, EndAt(tsx', TellsTimeout, TellsError) PROVE EndInv'
  BY <1>q DEF EndInv, TellsTimeout, TellsError
<1>2. CASE UNCHANGED vars
  <2>1. EndAt(tsx', TellsTimeout, TellsError) /\ Final(tsx.state, tsx'.state)
    BY <1>2, TsxFacts, StillSelf, StillEnd DEF vars, EndInv
  <2> QED BY <1>2, <1>q, <2>1 DEF vars
<1>3. CASE \/ SendRequest \/ pjsip_tsx_terminate \/ pjsip_tsx_stop_retransmit
           \/ pjsip_tsx_set_timeout \/ pjsip_tsx_retransmit_no_state \/ LayerStops
           \/ \E code \in Response : SendResponse(code)
  <2>1. UNCHANGED thread
    BY <1>3 DEF SendRequest, pjsip_tsx_terminate, pjsip_tsx_stop_retransmit,
         pjsip_tsx_set_timeout, pjsip_tsx_retransmit_no_state, LayerStops, SendResponse
  <2> QED BY <1>3, <1>q, <2>1, UserEnd
<1>4. CASE \/ \E code \in Response : RecvResponse(code)
           \/ RecvRequest \/ RecvAck
  <2>1. UNCHANGED thread
    BY <1>4 DEF RecvResponse, RecvRequest, RecvAck
  <2> QED BY <1>4, <1>q, <2>1, NetworkEnd
<1>5. CASE SendCallback \/ SendRetry \/ TransportLost
  <2>1. UNCHANGED thread
    BY <1>5 DEF SendCallback, SendDone, SendFailed, TransportDone, TransportFailed,
         TransportFailurePosted, SendRetry, TransportLost
  <2> QED BY <1>5, <1>q, <2>1, TransportEnd
<1>6. ASSUME NEW p \in Poller, Callback(p)
      PROVE  EndInv' /\ Final(tsx.state, tsx'.state)
  BY <1>6, CallbackEnd
<1>7. ASSUME NEW p \in Poller, NEW x \in Timer, Expire(p, x)
      PROVE  EndInv' /\ Final(tsx.state, tsx'.state)
  BY <1>7, ExpireEnd
<1> QED BY <1>2, <1>3, <1>4, <1>5, <1>6, <1>7 DEF Next

LEMMA InitEnd == Init => EndInv
<1> SUFFICES ASSUME Init PROVE EndInv
  OBVIOUS
<1>1. ~ tsx.terminating /\ tsx.state = Null
  BY DEF Init
<1> QED BY <1>1 DEF EndInv, EndAt, Null, Terminated

(* A freed transaction was shut down and no thread is in a callback of it.  *)
LEMMA FreedIsTold == IndInv /\ EndInv => ToldBeforeFreed
<1> SUFFICES ASSUME IndInv, EndInv, tsx.refs = 0 PROVE tsx.told
  BY DEF ToldBeforeFreed
<1> DEFINE n == Cardinality(InCallback)
<1>1. tsx.refs = n + Held(tsx) /\ n \in Nat /\ IsFiniteSet(InCallback)
  BY Counts DEF IndInv, Good, Sound, Core, Counted
<1>2. Held(tsx) \in Nat /\ Held(tsx) >= Bit(~ tsx.terminating)
  BY DEF Held, Bit
<1>3. n = 0 /\ tsx.terminating
  BY <1>1, <1>2 DEF Bit
<1>4. InCallback = {}
  BY <1>1, <1>3, FS_EmptySet
<1>5. ~ TellsTimeout /\ ~ TellsError
  BY <1>4 DEF InCallback, TellsTimeout, TellsError
<1> QED BY <1>3, <1>5 DEF EndInv, EndAt

(* Any number of threads may poll: no transaction is freed without its user *)
(* having been told of the end, whichever of the timeout, the transport     *)
(* error, the final response and pjsip_tsx_terminate() comes first and      *)
(* however they fall into the gaps in which tsx_timer_callback() has left   *)
(* the group lock.                                                          *)
THEOREM UserToldBeforeFreed == Spec => []ToldBeforeFreed
<1>1. IndInv /\ EndInv /\ [Next]_vars => IndInv' /\ EndInv'
  BY Inductive, NextEnd
<1> QED BY InitGood, InitEnd, <1>1, FreedIsTold, PTL DEF Spec

(* Any number of threads may poll: no late response, timer, failure of a    *)
(* send or call of the user takes a transaction back, other than from       *)
(* DESTROYED to TERMINATED.                                                 *)
THEOREM EndStaysFinal == Spec => EndIsFinal
<1>1. IndInv /\ EndInv /\ [Next]_vars => IndInv' /\ EndInv'
  BY Inductive, NextEnd
<1>2. IndInv /\ EndInv /\ [Next]_vars
      => [tsx'.state >= IF tsx.state = Destroyed THEN Terminated ELSE tsx.state]_vars
  BY NextEnd DEF Final
<1> QED BY InitGood, InitEnd, <1>1, <1>2, PTL DEF Spec, EndIsFinal
=============================================================================
