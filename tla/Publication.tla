---------------------------- MODULE Publication ----------------------------
(***************************************************************************)
(* What publishing promises, without row locks, triggers, indexes or       *)
(* requests that decide from stale reads: a publication takes effect at    *)
(* once.  It is of a version that was a draft at some moment while the     *)
(* publisher was served; that version is then the one the survey refers    *)
(* to, and whatever was published before is archived with the same step.   *)
(*                                                                         *)
(* SurveyPublishing and VersionContent look at publications from two       *)
(* sides; both implement this.                                             *)
(***************************************************************************)
CONSTANTS Publishers, Versions, NoVersion

VARIABLES
    status,     \* of each version
    active,     \* the version that the survey refers to
    claim       \* the version each publisher may still publish

vars == <<status, active, claim>>

Init ==
    /\ status \in [Versions -> {"none", "draft"}]
    /\ active = NoVersion
    /\ claim = [p \in Publishers |-> NoVersion]

Create(v) ==
    /\ status[v] = "none"
    /\ status' = [status EXCEPT ![v] = "draft"]
    /\ UNCHANGED <<active, claim>>

Claim(p, v) ==
    /\ claim[p] = NoVersion
    /\ status[v] = "draft"
    /\ claim' = [claim EXCEPT ![p] = v]
    /\ UNCHANGED <<status, active>>

Drop(p) == claim' = [claim EXCEPT ![p] = NoVersion]

Withdraw(p) ==
    /\ claim[p] # NoVersion
    /\ Drop(p)
    /\ UNCHANGED <<status, active>>

Publish(p) ==
    /\ claim[p] # NoVersion
    /\ status' = [v \in Versions |-> IF v = claim[p] THEN "published"
                                     ELSE IF status[v] = "published" THEN "archived"
                                     ELSE status[v]]
    /\ active' = claim[p]
    /\ Drop(p)

\* An archived version is not referred to.  The reference to another one may be lost.
Archive(v) ==
    /\ status[v] # "none"
    /\ status' = [status EXCEPT ![v] = "archived"]
    /\ active' \in {active, NoVersion} \ {v}
    /\ UNCHANGED claim

Next ==
    \/ \E v \in Versions : Create(v) \/ Archive(v)
    \/ \E p \in Publishers : Withdraw(p) \/ Publish(p) \/ \E v \in Versions : Claim(p, v)

Spec == Init /\ [][Next]_vars
=============================================================================
