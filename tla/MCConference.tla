---------------------------- MODULE MCConference ----------------------------
(***************************************************************************)
(* The bridge against what the text of the repository says of it: the      *)
(* variable remembers which of three statements a behaviour has            *)
(* contradicted.  Only port 1 transmits, which is enough to contradict     *)
(* each of them.                                                           *)
(***************************************************************************)
EXTENDS Conference

VARIABLE contradicted

Statement == {"level stays", "assertion", "all ports"}

Fails(s) ==
    CASE s = "level stays" -> ~ LevelStays
      [] s = "assertion" -> ~ DisconnectAssertion
      [] s = "all ports" -> ~ AllPortsServed

OneTransmits == \A p \in Used \ {1} : Listeners(p) = {}

ClaimsInit == Init /\ contradicted = {}

ClaimsNext ==
    /\ Next /\ OneTransmits'
    /\ contradicted' = contradicted \union {s \in Statement : Fails(s)'}

ClaimsSpec == ClaimsInit /\ [][ClaimsNext]_<< vars, contradicted >>

\* Of three statements, on the levels of connections, the state in which a
\* connection is broken and the ports that a tick serves, at least one holds as
\* long as the bridge runs.  A behaviour that violates this contradicts them all.
AStatementHolds == contradicted # Statement
=============================================================================
