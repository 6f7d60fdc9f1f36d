--------------------------- MODULE MCMessagePath -----------------------------
(* MessagePath instantiated for TLC. *)
EXTENDS MessagePath

\* Every set of blanks among the eight characters of a stock symbol.
AllPatterns == [0 .. 7 -> BOOLEAN]

NoPatterns == {}

=============================================================================
