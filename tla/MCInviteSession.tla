-------------------------- MODULE MCInviteSession --------------------------
EXTENDS InviteSession, TLC

\* Two codecs of different clock rates and a telephone-event of the first.
Rates == "pcmu" :> 8 @@ "opus" :> 48 @@ "event" :> 8

Line(type, port, fmt, dir) == [type |-> type, port |-> port, fmt |-> fmt, dir |-> dir]

\* The caller has audio only, and may put the call on hold with one codec or turn
\* the line off; the callee has audio and video, or another codec in another order.
Caller1 == << Line("audio", TRUE, << "opus", "pcmu", "event" >>, "sendrecv") >>
Caller2 == << Line("audio", TRUE, << "pcmu" >>, "sendonly") >>
Caller3 == << Line("audio", FALSE, << "pcmu" >>, "sendrecv") >>
Callee1 == << Line("audio", TRUE, << "pcmu", "event" >>, "sendrecv"),
              Line("video", TRUE, << "opus" >>, "sendrecv") >>
Callee2 == << Line("video", TRUE, << "opus" >>, "recvonly"),
              Line("audio", TRUE, << "opus" >>, "recvonly") >>

Locals == "alice" :> {Caller1, Caller2, Caller3} @@ "bob" :> {Callee1, Callee2}
Begin == "alice" :> Caller1 @@ "bob" :> Callee1
=============================================================================
