---------------------------- MODULE Recognition ----------------------------
(***************************************************************************)
(* Whose session it is, as a respondent may rely on it: every start, and   *)
(* every verification of a participant for an account, is one step of a    *)
(* register.                                                               *)
(*                                                                         *)
(* A visit is recorded for the subject of its evidence: of the participant *)
(* that the link is assigned to, of the account's identity, or of what     *)
(* these were merged into.  Without evidence, the visitor is recognised by *)
(* the earlier sessions of the same browser, or is somebody new.  When the *)
(* evidence and the browser disagree, the browser's subject is merged into *)
(* the one of the evidence, never the other way round.  The session of a   *)
(* visit comes with its record, or later, or never.                        *)
(***************************************************************************)
CONSTANTS
    Visits,        \* a visit without a past is given a subject of its own name
    Participants, Users, Browsers,
    Mailbox,       \* the accounts with the e-mail address of a participant
    NoSubject, NoUser

VARIABLES
    recorded,  \* the visits, who made them, and their subject
    sessions,  \* those that a session was started for
    merges,    \* every merge there has been, as <<subject, into>>
    alias,     \* the subject that a subject was last merged into
    identity,  \* the subject of an account
    ousted     \* accounts that lost their subject to another one

vars == <<recorded, sessions, merges, alias, identity, ousted>>

Subjects == Participants \cup Visits

Record == [visit : Visits, browser : Browsers, assignee : Participants \cup {NoSubject},
           user : Users \cup {NoUser}, subject : Subjects]

Init ==
    /\ recorded = {}
    /\ sessions = {}
    /\ merges = {}
    /\ alias = [s \in Subjects |-> NoSubject]
    /\ identity = [u \in Users |-> NoSubject]
    /\ ousted = {}

Follows(s, t) == t = s \/ <<s, t>> \in merges

\* Whom a browser can be taken for.
Recognised(b) == {t \in Subjects : \E y \in sessions : y.browser = b /\ Follows(y.subject, t)}

Authority(s) == s \in Participants \/ \E u \in Users : identity[u] = s

\* The browser's subject, when it is another one, becomes an alias.
Absorbed(b, s) ==
    \/ UNCHANGED <<merges, alias>>
    \/ \E w \in Recognised(b) \ {s} :
          /\ Authority(s)
          /\ merges' = merges \cup {<<w, s>>}
          /\ alias' = [alias EXCEPT ![w] = s]

\* By an assigned link.
Assigned(x) ==
    /\ x.assignee # NoSubject /\ x.user = NoUser
    /\ Follows(x.assignee, x.subject)
    /\ Absorbed(x.browser, x.subject)
    /\ UNCHANGED <<identity, ousted>>

\* By an account with an identity; one that has lost an identity may be taken
\* for somebody else who is known by now.
Identified(x) ==
    /\ x.assignee = NoSubject /\ x.user # NoUser
    /\ \E s \in Subjects : /\ s = identity[x.user] \/ (x.user \in ousted /\ Authority(s))
                           /\ Follows(s, x.subject)
    /\ Absorbed(x.browser, x.subject)
    /\ UNCHANGED <<identity, ousted>>

\* The first time of an account: it is whom the browser is taken for.
FirstIdentified(x) ==
    /\ x.assignee = NoSubject /\ x.user # NoUser
    /\ identity[x.user] = NoSubject
    /\ x.subject \in Recognised(x.browser) \cup {x.visit}
    /\ identity' = [identity EXCEPT ![x.user] = x.subject]
    /\ UNCHANGED <<merges, alias, ousted>>

Anonymous(x) ==
    /\ x.assignee = NoSubject /\ x.user = NoUser
    /\ x.subject \in Recognised(x.browser) \cup {x.visit}
    /\ UNCHANGED <<merges, alias, identity, ousted>>

\* x is the visit that the step records, at once with its session or not.
Recorded(x) ==
    /\ \A y \in recorded : y.visit # x.visit
    /\ recorded' = recorded \cup {x}
    /\ sessions' \in {sessions, sessions \cup {x}}
    /\ Assigned(x) \/ Identified(x) \/ FirstIdentified(x) \/ Anonymous(x)

\* The session of a visit that was recorded before.
Started(x) ==
    /\ x \in recorded \ sessions
    /\ sessions' = sessions \cup {x}
    /\ UNCHANGED <<recorded, merges, alias, identity, ousted>>

\* A participant turns out to be an account; other accounts of the same
\* mailbox may lose it.
Verified(p, u) ==
    \E losers \in SUBSET (Mailbox[p] \ {u}) :
        /\ u \in Mailbox[p] /\ identity[u] \in {NoSubject, p}
        /\ \A v \in losers : identity[v] = p
        /\ identity' = [v \in Users |-> IF v = u THEN p
                                        ELSE IF v \in losers THEN NoSubject ELSE identity[v]]
        /\ ousted' = ousted \cup losers
        /\ UNCHANGED <<recorded, sessions, merges, alias>>

Next ==
    \/ \E x \in (recorded' \ recorded) \cap Record : Recorded(x)
    \/ \E x \in recorded : Started(x)
    \/ \E p \in Participants, u \in Users : Verified(p, u)

Spec == Init /\ [][Next]_vars

-----------------------------------------------------------------------------
\* Who was never identified stays in the browser: two visits, or sessions, of a
\* subject that no account and no participant is known by are of the same browser.
AnonymousInOneBrowser ==
    \A x, y \in recorded : x.subject = y.subject /\ ~Authority(x.subject) => x.browser = y.browser
=============================================================================
