---------------------------- MODULE MCTransaction ----------------------------
(* The kinds of transactions for TLC: all four.                              *)
EXTENDS SipTransaction

AllKinds == [role : {"UAC", "UAS"}, invite : BOOLEAN]
=============================================================================
