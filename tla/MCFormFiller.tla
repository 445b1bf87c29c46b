----------------------------- MODULE MCFormFiller -----------------------------
(* FormFiller for TLC: three questions with a rule after the first and one    *)
(* after the second, and three surveys that the builder's import refuses.     *)
EXTENDS FormFiller, TLC
CONSTANTS x, y, z, e

MCKeys == {"q1", "q2", "q3"}
MCNodeId == ("q1" :> "id1") @@ ("q2" :> "id2") @@ ("q3" :> "id3")

Q(k) == [type |-> "question", key |-> k]
If(k, vs) == [target |-> k, holds |-> vs]
Pass == [set |-> {}, do |-> "nothing", to |-> ""]
Do(a, k) == [set |-> {}, do |-> a, to |-> k]
SetTo(k, p, v) == [set |-> {[target |-> k, property |-> p, to |-> v]}, do |-> "nothing", to |-> ""]
Rule(m, cs, t, f) == [type |-> "rule", match |-> m, conditions |-> cs, then |-> t, else |-> f]

First ==
    {Rule("ALL", {If("q1", {x})}, t, f) :
        t \in {SetTo("q2", "visible", FALSE), SetTo("q2", "required", FALSE), SetTo("q3", "visible", FALSE),
               Do("skip_to", "q3"), Do("end_and_submit", ""), Do("end_and_discard", "")},
        f \in {Pass, SetTo("q3", "required", FALSE)}}

Second ==
    {Rule(c[1], c[2], t, Pass) :
        c \in {<<"ALL", {If("q2", {x})}>>, <<"ANY", {If("q1", {x}), If("q2", {y})}>>,
               <<"NONE", {If("q1", {x}), If("q2", {Absent, e})}>>},
        t \in {SetTo("q3", "visible", FALSE), SetTo("q3", "visible", TRUE), Do("end_and_submit", ""),
               Do("end_and_discard", "")}}

Refused ==
    {<<Q("q1"), Rule("ALL", {If("q1", {y})}, Do("skip_to", "q1"), Pass), Q("q2")>>,
     <<Q("q1"), Rule("ALL", {If("q2", {x}), If("q3", {x})}, Do("skip_to", "q2"), Pass), Q("q3"), Q("q2")>>,
     <<Q("q1"), Rule("ANY", {If("q1", {x})}, Do("skip_to", "none"), Pass), Q("q2")>>}

MCSurveys == {<<Q("q1"), r1, Q("q2"), r2, Q("q3")>> : r1 \in First, r2 \in Second} \cup Refused
=============================================================================
