--------------------------- MODULE SdpNegotiator ---------------------------
(***************************************************************************)
(* The offer/answer negotiator of pjmedia/src/pjmedia/sdp_neg.c, as        *)
(* operators on the structure pjmedia_sdp_neg.                             *)
(*                                                                         *)
(* A session description is its media lines (the version in its origin is  *)
(* left out); a media line its type, whether its port is nonzero, its      *)
(* direction and its formats in the order of preference.  A format stands  *)
(* for an encoding name with its clock rate: payload numbers, which the    *)
(* answerer rewrites to those of the offer, are left out.  The formats of  *)
(* a line are distinct, no custom matching callback is registered, and     *)
(* PJMEDIA_SDP_NEG_ALLOW_MEDIA_CHANGE is not set.                          *)
(*                                                                         *)
(* A stored description also carries the pool it was allocated from; the   *)
(* owner of the negotiator decides when a pool is reset (InviteSession).   *)
(***************************************************************************)
EXTENDS Naturals, Sequences, FiniteSets, FiniteSetsExt, SequencesExt

CONSTANTS Format,          \* encodings, each with its clock rate
          TelephoneEvent,  \* those of them that are telephone-event
          ClockRate,       \* clock rate of a format
          prefer_remote_codec_order,
          answer_with_multiple_codecs,
          NULL             \* no description

ASSUME FormatAssumption ==
    /\ TelephoneEvent \subseteq Format
    /\ ClockRate \in [Format -> Nat]
    /\ {prefer_remote_codec_order, answer_with_multiple_codecs} \subseteq BOOLEAN

Direction == {"sendrecv", "sendonly", "recvonly", "inactive"}

MediaLine == [type : STRING, port : BOOLEAN, fmt : Seq(Format), dir : Direction]

\* pjmedia_sdp_media_deactivate(): the direction is one of the attributes.
Deactivated(m) == [m EXCEPT !.port = FALSE, !.dir = "sendrecv"]

HasActive(media) == \E i \in DOMAIN media : media[i].port

\* The elements of s at the positions I, and those that are in S, in their order.
At(s, I) ==
    [k \in 1..Cardinality(I) |->
        s[CHOOSE i \in I : Cardinality({j \in I : j <= i}) = k]]
Among(s, S) == At(s, {i \in DOMAIN s : s[i] \in S})

Common(s, t) == Among(s, ToSet(t))

\* For each line i of a description the first of the lines fits[i] of another one
\* that no earlier line took, or 0.
FirstUnused(fits) ==
    LET used[i \in DOMAIN fits] ==
            LET free == {j \in fits[i] : \A k \in 1..(i - 1) : used[k] # j}
            IN  IF free = {} THEN 0 ELSE Min(free)
    IN  used
-----------------------------------------------------------------------------
(* Matching two media lines                                                *)

update_media_direction(remote, local) ==
    CASE remote = "inactive" -> "inactive"
      [] remote = "sendonly" ->
            IF local \in {"sendrecv", "recvonly"} THEN "recvonly" ELSE "inactive"
      [] remote = "recvonly" ->
            IF local \in {"sendrecv", "sendonly"} THEN "sendonly" ELSE "inactive"
      [] OTHER -> local

Codec == Format \ TelephoneEvent

\* The codecs of the answer: the first common one, or all of them.
CodecsChosen(common) ==
    LET codecs == Among(common, Codec)
    IN  IF answer_with_multiple_codecs \/ codecs = << >>
        THEN ToSet(codecs) ELSE {Head(codecs)}

\* The formats of the answer.  A telephone-event stays if a chosen codec has its
\* clock rate; if none stays the first one is put back at the end.
FormatsChosen(common) ==
    LET codecs == CodecsChosen(common)
        rates  == {ClockRate[f] : f \in codecs}
        events == Among(common, TelephoneEvent)
        kept   == Among(common,
                        codecs \union {f \in TelephoneEvent : ClockRate[f] \in rates})
    IN  IF events # << >> /\ \A f \in ToSet(events) : ClockRate[f] \notin rates
        THEN Append(kept, Head(events))
        ELSE kept

\* The loop of match_offer() over the formats of the master found a codec, or
\* the master has none.
CodecsMatch(offer, preanswer) ==
    LET master == IF prefer_remote_codec_order THEN offer.fmt ELSE preanswer.fmt
    IN  ToSet(master) \intersect Codec # {} =>
            ToSet(offer.fmt) \intersect ToSet(preanswer.fmt) \intersect Codec # {}

CanMatch(offer, preanswer) ==
    ~offer.port \/ ~preanswer.port \/ CodecsMatch(offer, preanswer)

\* Mutant: the direction of the offer is not looked at.
match_offer_KeepsDirection(offer, preanswer) ==
    CASE ~offer.port -> Deactivated(offer)
      [] offer.port /\ ~preanswer.port -> preanswer
      [] OTHER -> [preanswer EXCEPT !.fmt = FormatsChosen(Common(offer.fmt, @))]

match_offer(offer, preanswer) ==
    CASE ~offer.port -> Deactivated(offer)
      [] offer.port /\ ~preanswer.port -> preanswer
      [] OTHER ->
            LET common == IF prefer_remote_codec_order
                          THEN Common(offer.fmt, preanswer.fmt)
                          ELSE Common(preanswer.fmt, offer.fmt)
            IN  [preanswer EXCEPT !.fmt = FormatsChosen(common),
                                  !.dir = update_media_direction(offer.dir, @)]
-----------------------------------------------------------------------------
(* The answer to a remote offer                                            *)

\* create_answer() answers each line of the offer with the first unused line of
\* the local description that has the same type and matches, or rejects it.  With
\* no active line it returns the status of the last line that did not match, which
\* is success if no line was even tried.
create_answer(initial, offer) ==
    LET used   == FirstUnused([i \in DOMAIN offer |->
                      {j \in DOMAIN initial : /\ offer[i].type = initial[j].type
                                              /\ CanMatch(offer[i], initial[j])}])
        media  == [i \in DOMAIN offer |-> IF used[i] = 0 THEN Deactivated(offer[i])
                                          ELSE match_offer(offer[i], initial[used[i]])]
        failed == \E i \in DOMAIN offer, j \in DOMAIN initial :
                      /\ offer[i].type = initial[j].type /\ ~CanMatch(offer[i], initial[j])
                      /\ used[i] = 0 \/ j < used[i]
                      /\ \A k \in 1..(i - 1) : used[k] # j
    IN  [media |-> media, ok |-> HasActive(media) \/ ~failed]
-----------------------------------------------------------------------------
(* The answer from remote                                                  *)

\* process_m_answer() and what process_answer() makes of its status, for lines
\* of the same type: the two lines as they are afterwards.
process_m_answer(om, am) ==
    LET common == Common(am.fmt, om.fmt)
    IN  CASE ~am.port -> << Deactivated(om), am >>
          [] am.port /\ ~om.port -> << om, am >>
          [] am.port /\ om.port /\ common = << >> ->
                << [Deactivated(om) EXCEPT !.fmt = << >>], Deactivated(am) >>
          [] OTHER ->
                << [om EXCEPT !.fmt = common,
                              !.dir = update_media_direction(am.dir, @)],
                   [am EXCEPT !.fmt = common] >>

\* The line of the answer that process_answer() holds against each line of the
\* offer: one of another type is left to the next line of the offer.
AnswerIndex(offer, answer) ==
    LET SameType(i, j) == j > Len(answer) \/ answer[j].type = offer[i].type
        ami[i \in DOMAIN offer] ==
            IF i = 1 THEN 1
            ELSE ami[i - 1] + (IF SameType(i - 1, ami[i - 1]) THEN 1 ELSE 0)
    IN  ami

\* The two descriptions after process_answer(): a line of the offer without an
\* answer is deactivated, and an answer that is too short is filled up.
process_answer(offer, answer) ==
    LET ami     == AnswerIndex(offer, answer)
        paired  == {i \in DOMAIN offer : /\ ami[i] <= Len(answer)
                                         /\ answer[ami[i]].type = offer[i].type}
        local   == [i \in DOMAIN offer |->
                       IF i \in paired THEN process_m_answer(offer[i], answer[ami[i]])[1]
                       ELSE Deactivated(offer[i])]
        remote  == [j \in DOMAIN answer |->
                       IF \E i \in paired : ami[i] = j
                       THEN LET i == CHOOSE i \in paired : ami[i] = j
                            IN  process_m_answer(offer[i], answer[j])[2]
                       ELSE answer[j]]
        missing == {i \in DOMAIN offer : ami[i] > Len(answer)}
        first   == Len(offer) - Cardinality(missing) + 1
    IN  [offer  |-> local,
         answer |-> remote \o SubSeq(local, first, Len(offer)),
         ok     |-> HasActive(local)]
-----------------------------------------------------------------------------
(* The negotiator                                                          *)

State == {"LOCAL_OFFER", "REMOTE_OFFER", "WAIT_NEGO", "DONE"}

\* The pools of a session: 0 lives as long as it, 1 and 2 are those of exchanges;
\* Freed marks a description in one that was reset.
Freed == 3

In(pool, media) == [media |-> media, pool |-> pool]

NewNegotiator ==
    [state |-> "DONE", has_remote_answer |-> FALSE,
     initial_sdp |-> NULL, initial_sdp_tmp |-> NULL,
     active_local_sdp |-> NULL, active_remote_sdp |-> NULL,
     neg_local_sdp |-> NULL, neg_remote_sdp |-> NULL]

create_w_local_offer(pool, local) ==
    [NewNegotiator EXCEPT !.state = "LOCAL_OFFER", !.initial_sdp = In(pool, local),
                          !.neg_local_sdp = In(pool, local)]

\* With an initial local description the negotiator is ready to negotiate.
create_w_remote_offer(pool, initial, remote) ==
    LET neg == [NewNegotiator EXCEPT !.neg_remote_sdp = In(pool, remote)]
    IN  IF initial = NULL THEN [neg EXCEPT !.state = "REMOTE_OFFER"]
        ELSE [neg EXCEPT !.state = "WAIT_NEGO", !.initial_sdp = In(pool, initial),
                         !.neg_local_sdp = In(pool, initial)]

\* The lines of a new offer, in the positions of the active description: a line
\* that is there no more is kept with a zero port, the new lines follow.
FixedOffer(old, local) ==
    LET used == FirstUnused([i \in DOMAIN old |->
                    {j \in DOMAIN local : old[i].type = local[j].type}])
    IN  [i \in DOMAIN old |-> IF used[i] = 0 THEN Deactivated(old[i]) ELSE local[used[i]]]
        \o At(local, DOMAIN local \ ToSet(used))

\* Requires state DONE.
modify_local_offer(neg, pool, local) ==
    LET old == neg.active_local_sdp
        new == In(pool, FixedOffer(old.media, local))
    IN  [neg EXCEPT !.state = "LOCAL_OFFER", !.initial_sdp_tmp = neg.initial_sdp,
                    !.initial_sdp = new, !.neg_local_sdp = new]

\* Requires state DONE: the active description is offered again.
send_local_offer(neg, pool) ==
    [neg EXCEPT !.state = "LOCAL_OFFER",
                !.initial_sdp_tmp =
                    IF neg.initial_sdp = NULL THEN @ ELSE neg.initial_sdp,
                !.initial_sdp =
                    IF neg.initial_sdp = NULL THEN NULL
                    ELSE In(pool, neg.initial_sdp.media),
                !.neg_local_sdp = In(pool, neg.active_local_sdp.media)]

\* Requires state LOCAL_OFFER.
set_remote_answer(neg, pool, remote) ==
    [neg EXCEPT !.state = "WAIT_NEGO", !.has_remote_answer = TRUE,
                !.neg_remote_sdp = In(pool, remote)]

\* Requires state DONE.
set_remote_offer(neg, pool, remote) ==
    [neg EXCEPT !.state = "REMOTE_OFFER", !.neg_remote_sdp = In(pool, remote)]

\* Requires state REMOTE_OFFER or WAIT_NEGO.
set_local_answer(neg, pool, local) ==
    [neg EXCEPT !.state = "WAIT_NEGO", !.neg_local_sdp = In(pool, local),
                !.initial_sdp_tmp =
                    IF neg.initial_sdp = NULL THEN @ ELSE neg.initial_sdp,
                !.initial_sdp =
                    In(pool, IF neg.initial_sdp = NULL THEN local
                             ELSE neg.initial_sdp.media)]

\* The fields that a finished or cancelled exchange leaves empty.
Cleared(neg) ==
    [neg EXCEPT !.state = "DONE", !.has_remote_answer = FALSE,
                !.initial_sdp_tmp = NULL, !.neg_local_sdp = NULL,
                !.neg_remote_sdp = NULL]

\* Requires state LOCAL_OFFER or REMOTE_OFFER.  The initial description is put
\* back after a local offer.
cancel_offer(neg) ==
    Cleared(IF neg.state = "LOCAL_OFFER"
            THEN [neg EXCEPT !.initial_sdp = neg.initial_sdp_tmp] ELSE neg)

\* The outcome of pjmedia_sdp_neg_negotiate() in state WAIT_NEGO, for an answer
\* of the remote and for our own: the new active pair, or failure.
Outcome(neg, pool) ==
    LET local  == neg.neg_local_sdp
        remote == neg.neg_remote_sdp
        theirs == process_answer(local.media, remote.media)
        ours   == create_answer(local.media, remote.media)
    IN  IF neg.has_remote_answer
        THEN [ok |-> theirs.ok,
              local  |-> [local EXCEPT !.media = theirs.offer],
              remote |-> [remote EXCEPT !.media = theirs.answer]]
        ELSE [ok |-> ours.ok,
              local  |-> In(pool, ours.media),
              remote |-> remote]

negotiate(neg, outcome) ==
    IF outcome.ok
    THEN Cleared([neg EXCEPT !.active_local_sdp = outcome.local,
                             !.active_remote_sdp = outcome.remote])
    ELSE Cleared([neg EXCEPT !.initial_sdp = neg.initial_sdp_tmp])

\* What is left of the negotiator's descriptions when a pool is reset.
AfterReset(neg, pool) ==
    LET Left(sdp) == IF sdp # NULL /\ sdp.pool = pool THEN [sdp EXCEPT !.pool = Freed]
                     ELSE sdp
    IN  [neg EXCEPT !.initial_sdp = Left(@), !.initial_sdp_tmp = Left(@),
                    !.active_local_sdp = Left(@), !.active_remote_sdp = Left(@),
                    !.neg_local_sdp = Left(@), !.neg_remote_sdp = Left(@)]
=============================================================================
