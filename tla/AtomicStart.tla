---------------------------- MODULE AtomicStart ----------------------------
(***************************************************************************)
(* What SessionStarter.start promises, as if Core and Response were one    *)
(* database: an attempt takes effect at once or not at all.  The effect is *)
(* a usable session (one that can be resumed and answered) together with   *)
(* the consumption of the single-use link it came by, and the browser is   *)
(* only given tokens of usable sessions.                                   *)
(***************************************************************************)
CONSTANTS Sessions, Links, SingleUse, NoLink

VARIABLES
    usable,     \* sessions that can be resumed and answered
    consumed,   \* single-use links that were used
    via,        \* the link of each attempt
    told        \* what each attempt was told

vars == <<usable, consumed, via, told>>

Init ==
    /\ usable = {}
    /\ consumed = {}
    /\ via = [s \in Sessions |-> NoLink]
    /\ told = [s \in Sessions |-> "none"]

\* A link that was consumed admits nobody.
Admit(s, l) ==
    /\ told[s] = "none"
    /\ l \notin consumed
    /\ via' = [via EXCEPT ![s] = l]
    /\ told' = [told EXCEPT ![s] = "running"]
    /\ UNCHANGED <<usable, consumed>>

\* The one moment at which the start takes effect.
TakeEffect(s) ==
    /\ told[s] = "running"
    /\ s \notin usable
    /\ usable' = usable \cup {s}
    /\ consumed' = consumed \cup ({via[s]} \cap SingleUse)
    /\ UNCHANGED <<via, told>>

Return(s) ==
    /\ told[s] = "running"
    /\ s \in usable
    /\ told' = [told EXCEPT ![s] = "returned"]
    /\ UNCHANGED <<usable, consumed, via>>

\* A start that reports failure has had no effect.
Fail(s) ==
    /\ told[s] = "running"
    /\ s \notin usable
    /\ told' = [told EXCEPT ![s] = "failed"]
    /\ UNCHANGED <<usable, consumed, via>>

\* The worker died: the browser does not know.
Lose(s) ==
    /\ told[s] = "running"
    /\ told' = [told EXCEPT ![s] = "lost"]
    /\ UNCHANGED <<usable, consumed, via>>

Next ==
    \E s \in Sessions :
        \/ \E l \in Links \cup {NoLink} : Admit(s, l)
        \/ TakeEffect(s)
        \/ Return(s)
        \/ Fail(s)
        \/ Lose(s)

Spec == Init /\ [][Next]_vars
=============================================================================
