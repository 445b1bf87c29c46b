---------------------------- MODULE OpenSession ----------------------------
(***************************************************************************)
(* What the session commands promise, without caches, identity maps, row   *)
(* locks or two databases: a save or a completion takes effect only if the *)
(* session was in progress at some moment while the command was served; no *)
(* answer is recorded once the answers were erased; sessions are abandoned *)
(* or deleted only after that.                                             *)
(***************************************************************************)
CONSTANTS Workers, Sessions, Requests, NoRequest

VARIABLES
    state,      \* of each session
    admitted,   \* the request each worker may still carry out
    answers,    \* pairs of session and question
    erased      \* sessions whose answers are gone for good

vars == <<state, admitted, answers, erased>>

Init ==
    /\ state = [s \in Sessions |-> "in_progress"]
    /\ admitted = [w \in Workers |-> NoRequest]
    /\ answers = {}
    /\ erased \in SUBSET Sessions

Admit(w, r) ==
    /\ admitted[w] = NoRequest
    /\ state[r.session] = "in_progress"
    /\ admitted' = [admitted EXCEPT ![w] = r]
    /\ UNCHANGED <<state, answers, erased>>

Done(w) == admitted' = [admitted EXCEPT ![w] = NoRequest]

Withdraw(w) ==
    /\ admitted[w] # NoRequest
    /\ Done(w)
    /\ UNCHANGED <<state, answers, erased>>

Save(w) ==
    /\ admitted[w] # NoRequest
    /\ admitted[w].kind = "save"
    /\ admitted[w].session \notin erased
    /\ answers' = answers \cup {<<admitted[w].session, admitted[w].question>>}
    /\ Done(w)
    /\ UNCHANGED <<state, erased>>

Complete(w) ==
    /\ admitted[w] # NoRequest
    /\ admitted[w].kind = "complete"
    /\ state[admitted[w].session] # "deleted"
    /\ state' = [state EXCEPT ![admitted[w].session] = "completed"]
    /\ Done(w)
    /\ UNCHANGED <<answers, erased>>

Erase(s) ==
    /\ s \notin erased
    /\ erased' = erased \cup {s}
    /\ answers' = {a \in answers : a[1] # s}
    /\ UNCHANGED <<state, admitted>>

Delete(s) ==
    /\ s \in erased
    /\ state' = [state EXCEPT ![s] = "deleted"]
    /\ UNCHANGED <<admitted, answers, erased>>

Abandon(S) ==
    /\ \A s \in S : s \in erased /\ state[s] = "in_progress"
    /\ state' = [s \in Sessions |-> IF s \in S THEN "abandoned" ELSE state[s]]
    /\ UNCHANGED <<admitted, answers, erased>>

Next ==
    \/ \E w \in Workers :
          \/ \E r \in Requests : Admit(w, r)
          \/ Withdraw(w)
          \/ Save(w)
          \/ Complete(w)
    \/ \E s \in Sessions : Erase(s) \/ Delete(s)
    \/ \E S \in SUBSET Sessions : Abandon(S)

Spec == Init /\ [][Next]_vars
=============================================================================
