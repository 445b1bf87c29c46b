------------------------- MODULE MCSubjectResolution -------------------------
(* SubjectResolution for TLC: participant p1 has an address that two accounts *)
(* share, as one address with a password and a Google login.                  *)
EXTENDS SubjectResolution, TLC
CONSTANTS p1, p2, u1, u2
MCParticipants == {p1, p2}
MCUsers == {u1, u2}
MCMailbox == [p \in MCParticipants |-> IF p = p1 THEN {u1, u2} ELSE {u1}]
Symmetric == Permutations(Requests) \cup Permutations(Browsers)
=============================================================================
