--------------------------- MODULE MCSessionStart ---------------------------
(* SessionStart for TLC. *)
EXTENDS SessionStart, TLC

\* Workers and session ids are interchangeable; sound for the runs that check
\* safety only.
Symmetric == Permutations(Workers) \cup Permutations(Sessions)
=============================================================================
