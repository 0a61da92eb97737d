---------------------------- MODULE FrameWindow ----------------------------
(***************************************************************************)
(* What PiAudioFrameBuffer promises to the recorder: a sliding window over *)
(* the frames pushed since the last clear(), oldest first, that keeps the  *)
(* Capacity most recent ones.                                              *)
(***************************************************************************)
EXTENDS Naturals, Sequences

CONSTANTS Frames,    \* the contents a frame can have
          Capacity   \* how many frames the window keeps

VARIABLE window

\* The n most recent elements of the sequence s.
Latest(s, n) == IF Len(s) <= n THEN s ELSE SubSeq(s, Len(s) - n + 1, Len(s))

Init == window = << >>

Push(f) == window' = Latest(Append(window, f), Capacity)

Clear == window' = << >>

Next == Clear \/ \E f \in Frames : Push(f)

Spec == Init /\ [][Next]_window
=============================================================================
