------------------------------ MODULE MCLogger -------------------------------
(* AsyncLogger instantiated for TLC. *)
EXTENDS AsyncLogger

CONSTANTS m1, m2, m3

MCMessages3 == {m1, m2, m3}

\* Messages of different sizes, so that the buffer and the mapping fill up
\* exactly as well as with a remainder.
MCSize == [m \in Messages |-> IF m = m1 THEN 1 ELSE 2]

Once == [w \in Modes |-> 1]

\* MMAP mode is not started twice.
TwiceUnmapped == [w \in Modes |-> IF w = "MMAP" THEN 1 ELSE 2]

=============================================================================
