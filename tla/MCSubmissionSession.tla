------------------------ MODULE MCSubmissionSession ------------------------
(* SubmissionSession for TLC. *)
EXTENDS SubmissionSession
=============================================================================
