--------------------------- MODULE Questionnaire ---------------------------
(***************************************************************************)
(* What the form promises of an orderly survey, without the walk, its      *)
(* rules or the progress that is derived anew on every change: the         *)
(* questions that were passed are a stack.  To continue hands the answer   *)
(* of the question that is asked over and puts the question on the stack;  *)
(* to go back takes the last one off and asks it again.  Only what is      *)
(* asked can be answered, and nothing on the stack is asked.               *)
(***************************************************************************)
EXTENDS Sequences, Naturals

CONSTANTS Nodes, Values, Absent

VARIABLES
    trail,      \* the questions that were passed
    asked,      \* the question that is asked, none when the survey has ended
    answers, handed, left

vars == <<trail, asked, answers, handed, left>>

Passed(q) == \E i \in DOMAIN trail : trail[i] = q

\* The survey asks some question next that was not passed, or ends.
Ask == asked = {} \/ \E q \in Nodes : ~Passed(q) /\ asked = {q}

Init ==
    /\ trail = <<>>
    /\ Ask
    /\ \A q \in DOMAIN answers : answers[q] = Absent
    /\ handed = answers
    /\ left = FALSE

Change(q, v) ==
    /\ ~left /\ asked = {q}
    /\ answers' = [answers EXCEPT ![q] = v]
    /\ UNCHANGED <<trail, asked, handed, left>>

Continue(q) ==
    /\ ~left /\ asked = {q}
    /\ handed' = [handed EXCEPT ![q] = IF answers[q] = Absent THEN @ ELSE answers[q]]
    /\ trail' = Append(trail, q)
    /\ Ask'
    /\ UNCHANGED <<answers, left>>

Back ==
    /\ ~left /\ trail # <<>>
    /\ asked' = {trail[Len(trail)]}
    /\ trail' = SubSeq(trail, 1, Len(trail) - 1)
    /\ UNCHANGED <<answers, handed, left>>

Restart ==
    /\ ~left /\ asked = {}
    /\ answers' = [q \in DOMAIN answers |-> Absent]
    /\ trail' = <<>>
    /\ Ask'
    /\ UNCHANGED <<handed, left>>

Leave ==
    /\ ~left /\ asked = {}
    /\ left' = TRUE
    /\ UNCHANGED <<trail, asked, answers, handed>>

Next ==
    \/ \E q \in Nodes : Continue(q) \/ \E v \in Values : Change(q, v)
    \/ Back \/ Restart \/ Leave

Spec == Init /\ [][Next]_vars
=============================================================================
