SPECIFICATION Spec
CONSTANTS
    Side = {"alice", "bob"}
    First = "alice"
    Format = {"pcmu", "opus", "event"}
    TelephoneEvent = {"event"}
    ClockRate <- Rates
    prefer_remote_codec_order = TRUE
    answer_with_multiple_codecs = FALSE
    NULL = NULL
    Local <- Locals
    Capable <- Begin
    Ops = {"INVITE", "offerless", "UPDATE", "refuse", "defer"}
    MaxCSeq = 2
INVARIANTS FieldsAlive Agreement
PROPERTIES NegotiationEnds
CHECK_DEADLOCK FALSE
