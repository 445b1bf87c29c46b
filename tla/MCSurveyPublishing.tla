-------------------------- MODULE MCSurveyPublishing --------------------------
(* SurveyPublishing for TLC. *)
EXTENDS SurveyPublishing
=============================================================================
