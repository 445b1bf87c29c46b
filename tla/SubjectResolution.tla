------------------------- MODULE SubjectResolution -------------------------
(***************************************************************************)
(* Which project subject a respondent is: identities of accounts, subjects *)
(* of participants, aliases of subjects, and the recognition tokens that   *)
(* browsers keep in a cookie.                                              *)
(*                                                                         *)
(* A request is the subject side of a session start, or the verification   *)
(* of a participant for an account.  It looks the cookie's token up,       *)
(* resolves the subject from plain reads, and then flushes its writes one  *)
(* by one in a READ COMMITTED transaction: a merge, an identity, a token.  *)
(* What it has flushed is kept in plan and victim until a commit publishes *)
(* it: that of the start, or the one that _ensure_version_row makes before *)
(* there is a session.  Row locks are a function of the step.              *)
(*                                                                         *)
(* A request creates at most one subject and one token; both bear its name.*)
(***************************************************************************)
EXTENDS FiniteSets

CONSTANTS
    Requests,      \* requests, each served once
    Participants,  \* subjects of enrolled participants
    Users,         \* accounts
    Mailbox,       \* the accounts with the e-mail address of a participant
    Browsers,
    NoSubject, NoUser, NoToken, NoInput

VARIABLES
    \* Core
    canonical,  \* project_subjects.canonical_subject_id
    identity,   \* the active authenticated_user identity of an account
    holder,     \* user_id of each participant's identity row
    token,      \* the subject of each committed token row
    revoked,    \* tokens with revoked_at set
    \* Browsers
    cookie,     \* the recognition cookie
    \* Requests
    pc, input,  \* step; how the request came in
    found,      \* the token's subject and what that is an alias of
    plan,       \* SubjectResolutionResult
    victim,     \* the existing token that the token action works on
    ousted      \* history: accounts that lost an identity to another one

coreVars == <<canonical, identity, holder, token, revoked, ousted>>
vars == <<coreVars, cookie, pc, input, found, plan, victim>>

Subjects == Participants \cup Requests

\* An open start is one by public slug or general link, an assigned start one
\* by a private or authenticated link; only the former looks at the account.
Entries ==
    [kind : {"open"}, assignee : {NoSubject}, user : Users \cup {NoUser}]
    \cup [kind : {"assigned"}, assignee : Participants, user : {NoUser}]
    \cup [kind : {"verify"}, assignee : Participants, user : Users]

Inputs == [entry : Entries, browser : Browsers, token : Requests \cup {NoToken}]

ASSUME SubjectAssumption ==
    /\ Requests \cap Participants = {}
    /\ NoSubject \notin Requests \cup Participants
    /\ NoUser \notin Users
    /\ NoToken \notin Requests
    /\ NoInput \notin Inputs
    /\ Mailbox \in [Participants -> SUBSET Users]

Candidates == [subject : Subjects \cup {NoSubject}, alias : Subjects \cup {NoSubject}]

Plans == [final : Subjects \cup {NoSubject}, weaker : Subjects \cup {NoSubject}, attach : BOOLEAN,
          action : {"issue", "rotate", "mark_used", "keep"}]

NoCandidate == [subject |-> NoSubject, alias |-> NoSubject]

NoPlan == [final |-> NoSubject, weaker |-> NoSubject, attach |-> FALSE, action |-> "keep"]

Steps == {"idle", "verifying", "linking", "arrived", "looked", "merging", "attaching",
          "token", "touching", "ready", "kept", "committed", "closed", "done", "left", "failed"}

Resolved == {"merging", "attaching", "token", "touching", "ready", "kept", "committed", "closed",
             "done", "left"}

TypeOK ==
    /\ canonical \in [Subjects -> Subjects \cup {NoSubject}]
    /\ identity \in [Users -> Subjects \cup {NoSubject}]
    /\ holder \in [Participants -> Users \cup {NoUser}]
    /\ token \in [Requests -> Subjects \cup {NoSubject}]
    /\ revoked \subseteq Requests
    /\ cookie \in [Browsers -> Requests \cup {NoToken}]
    /\ pc \in [Requests -> Steps]
    /\ input \in [Requests -> Inputs \cup {NoInput}]
    /\ found \in [Requests -> Candidates]
    /\ plan \in [Requests -> Plans]
    /\ victim \in [Requests -> Requests \cup {NoToken}]
    /\ ousted \subseteq Users
    /\ \A r \in Requests : pc[r] \in Resolved => plan[r].final \in Subjects

Init ==
    /\ canonical = [s \in Subjects |-> NoSubject]
    /\ identity = [u \in Users |-> NoSubject]
    /\ holder = [p \in Participants |-> NoUser]
    /\ token = [t \in Requests |-> NoSubject]
    /\ revoked = {}
    /\ cookie = [b \in Browsers |-> NoToken]
    /\ pc = [r \in Requests |-> "idle"]
    /\ input = [r \in Requests |-> NoInput]
    /\ found = [r \in Requests |-> NoCandidate]
    /\ plan = [r \in Requests |-> NoPlan]
    /\ victim = [r \in Requests |-> NoToken]
    /\ ousted = {}

Goto(r, step) == pc' = [pc EXCEPT ![r] = step]

Kind(r) == input[r].entry.kind
Assignee(r) == input[r].entry.assignee
Actor(r) == input[r].entry.user

-----------------------------------------------------------------------------
(* The resolver: what to do, from what was read.  A plan's weaker subject is *)
(* to become an alias of its final one.                                     *)

\* Mutant: the subject of the token survives, the assigned one becomes its alias.
MergeBackwards(strong, candidate, effective) ==
    [final |-> effective, weaker |-> strong, attach |-> FALSE, action |-> "rotate"]

\* The token's subject is another one than the assigned or identified one.
Merge(strong, candidate, effective) ==
    [final |-> strong, weaker |-> effective, attach |-> FALSE, action |-> "rotate"]

\* canonical_token_subject_id or token_subject_id
Effective(candidate) ==
    IF candidate.alias # NoSubject THEN candidate.alias ELSE candidate.subject

\* The token against the authoritative subject strong; same is what to do with
\* a token that already is one of strong.
Against(strong, candidate, same) ==
    IF candidate.subject = NoSubject
    THEN [final |-> strong, weaker |-> NoSubject, attach |-> FALSE, action |-> "issue"]
    ELSE IF Effective(candidate) # strong
    THEN Merge(strong, candidate, Effective(candidate))
    ELSE [final |-> strong, weaker |-> NoSubject, attach |-> FALSE,
          action |-> IF candidate.subject = strong THEN same ELSE "rotate"]

\* No assignment and no identity: the token's subject, or the new subject fresh.
Unidentified(candidate, fresh, attach) ==
    IF candidate.subject = NoSubject
    THEN [final |-> fresh, weaker |-> NoSubject, attach |-> attach, action |-> "issue"]
    ELSE [final |-> Effective(candidate), weaker |-> NoSubject, attach |-> attach,
          action |-> "mark_used"]

\* Mutant: what is no alias has no canonical subject.
HopBlindly(s) == canonical[s]

\* _resolve_to_canonical: one hop, no more.
OneHop(s) == IF canonical[s] # NoSubject THEN canonical[s] ELSE s

Resolution(r) ==
    IF Assignee(r) # NoSubject THEN Against(OneHop(Assignee(r)), found[r], "keep")
    ELSE IF Actor(r) = NoUser THEN Unidentified(found[r], r, FALSE)
    ELSE IF identity[Actor(r)] = NoSubject THEN Unidentified(found[r], r, TRUE)
    ELSE Against(OneHop(identity[Actor(r)]), found[r], "mark_used")

-----------------------------------------------------------------------------
(* Requests *)

\* A browser sends its cookie along, with each of several tabs.
Arrive(r, b, e) ==
    /\ pc[r] = "idle"
    /\ input' = [input EXCEPT ![r] = [entry |-> e, browser |-> b, token |-> cookie[b]]]
    /\ Goto(r, IF e.kind = "verify" THEN "verifying" ELSE "arrived")
    /\ UNCHANGED <<coreVars, cookie, found, plan, victim>>

\* Mutant: an error leaves the transaction open.
FlushedOrFailed == {"token", "touching", "ready", "failed"}

\* Steps at which the writes of a request are flushed and not committed.
Flushed == {"token", "touching", "ready"}

\* Has another request flushed an identity of u that is not yet committed?
IdentityLocked(r, u) ==
    \E q \in Requests \ {r} :
        pc[q] \in Flushed /\ plan[q].attach /\ Actor(q) = u

\* verify_participant_for_user: the identity row as read.
ReadParticipant(r) ==
    /\ pc[r] = "verifying"
    /\ \/ holder[Assignee(r)] = Actor(r) /\ Goto(r, "arrived")
       \/ /\ holder[Assignee(r)] = NoUser
          /\ Goto(r, IF Actor(r) \in Mailbox[Assignee(r)] THEN "linking" ELSE "failed")
       \/ holder[Assignee(r)] \notin {NoUser, Actor(r)} /\ Goto(r, "failed")
    /\ UNCHANGED <<coreVars, cookie, input, found, plan, victim>>

\* Mutant: no unique index, an account can hold a second identity.
FreeForAnyone(r) == TRUE

\* uq_project_subject_identities_active_user: one active identity for each account.
Unidentifiable(r) == identity[Actor(r)] = NoSubject

\* link_email_identity_to_user: flushed and committed, whatever the row holds by now.
LinkIdentity(r) ==
    LET p == Assignee(r)
        u == Actor(r)
    IN  /\ pc[r] = "linking" /\ ~IdentityLocked(r, u)
        /\ holder[p] = u \/ Unidentifiable(r)
        /\ identity' = [v \in Users |-> IF v = u THEN p
                                        ELSE IF v = holder[p] THEN NoSubject ELSE identity[v]]
        /\ holder' = [holder EXCEPT ![p] = u]
        /\ ousted' = ousted \cup (Users \cap ({holder[p]} \ {u}))
        /\ Goto(r, "arrived")
        /\ UNCHANGED <<canonical, token, revoked, cookie, input, found, plan, victim>>

\* SubjectTokenService.lookup of the cookie's token.
LookUpToken(r) ==
    LET t == input[r].token
        s == IF t \in Requests \ revoked THEN token[t] ELSE NoSubject
    IN  /\ pc[r] = "arrived"
        /\ found' = [found EXCEPT ![r] =
              [subject |-> s, alias |-> IF s = NoSubject THEN NoSubject ELSE canonical[s]]]
        /\ Goto(r, "looked")
        /\ UNCHANGED <<coreVars, cookie, input, plan, victim>>

Resolve(r) ==
    LET p == Resolution(r)
    IN  /\ pc[r] = "looked"
        /\ plan' = [plan EXCEPT ![r] = p]
        /\ Goto(r, IF p.weaker # NoSubject THEN "merging"
                   ELSE IF p.attach THEN "attaching" ELSE "token")
        /\ UNCHANGED <<coreVars, cookie, input, found, victim>>

\* set_canonical_subject: locks the weaker subject's row.
MergeSubject(r) ==
    /\ pc[r] = "merging"
    /\ canonical[plan[r].weaker] # plan[r].final
    /\ \A q \in Requests \ {r} : pc[q] \in Flushed => plan[q].weaker # plan[r].weaker
    /\ Goto(r, "token")
    /\ UNCHANGED <<coreVars, cookie, input, found, plan, victim>>

\* The attribute already has that value: SQLAlchemy sends no UPDATE.
AlreadyMerged(r) ==
    /\ pc[r] = "merging"
    /\ canonical[plan[r].weaker] = plan[r].final
    /\ plan' = [plan EXCEPT ![r].weaker = NoSubject]
    /\ Goto(r, "token")
    /\ UNCHANGED <<coreVars, cookie, input, found, victim>>

\* create_user_identity: the insert waits for one of the same account.
AttachIdentity(r) ==
    /\ pc[r] = "attaching" /\ ~IdentityLocked(r, Actor(r))
    /\ Unidentifiable(r)
    /\ Goto(r, "token")
    /\ UNCHANGED <<coreVars, cookie, input, found, plan, victim>>

\* The unique index refuses the identity, the request is rolled back.
IdentityConflict(r) ==
    /\ pc[r] \in {"attaching", "linking"} /\ ~IdentityLocked(r, Actor(r))
    /\ ~Unidentifiable(r) /\ (pc[r] = "linking" => holder[Assignee(r)] # Actor(r))
    /\ Goto(r, "failed")
    /\ UNCHANGED <<coreVars, cookie, input, found, plan, victim>>

\* Mutant: the new token is flushed before the existing one is looked for.
ActiveTokensAndNew(r) ==
    {t \in Requests \ revoked : token[t] = plan[r].final} \cup {r}

\* get_active_token_for_subject returns any of these.
ActiveTokens(r) == {t \in Requests \ revoked : token[t] = plan[r].final}

ChooseToken(r) ==
    /\ pc[r] = "token"
    /\ IF plan[r].action \in {"rotate", "mark_used"} /\ ActiveTokens(r) # {}
       THEN /\ \E t \in ActiveTokens(r) : victim' = [victim EXCEPT ![r] = t]
            /\ Goto(r, "touching")
       ELSE Goto(r, "ready") /\ UNCHANGED victim
    /\ UNCHANGED <<coreVars, cookie, input, found, plan>>

\* revoke_token and mark_used lock the row of the token.
TouchToken(r) ==
    /\ pc[r] = "touching"
    /\ \A q \in Requests \ {r} : pc[q] = "ready" => victim[q] # victim[r]
    /\ Goto(r, "ready")
    /\ UNCHANGED <<coreVars, cookie, input, found, plan, victim>>

\* Mutant: create_token is given the assigned subject, not what that is an alias of.
NewTokenOfAssignment(r) == IF Assignee(r) # NoSubject THEN Assignee(r) ELSE plan[r].final

\* create_token for the final subject.
NewTokenSubject(r) == plan[r].final

\* What the request has flushed: the merge, the identity, the new and the revoked token.
PublishSubject(r) ==
    LET p == plan[r]
    IN  /\ canonical' = IF p.weaker = NoSubject THEN canonical
                        ELSE [canonical EXCEPT ![p.weaker] = p.final]
        /\ identity' = IF p.attach THEN [identity EXCEPT ![Actor(r)] = p.final] ELSE identity
        /\ token' = IF p.action \in {"issue", "rotate"}
                    THEN [token EXCEPT ![r] = NewTokenSubject(r)] ELSE token
        /\ revoked' = IF p.action = "rotate" THEN revoked \cup (Requests \cap {victim[r]}) ELSE revoked

\* The start commits, with the session of the final subject.
CommitStart(r) ==
    /\ pc[r] = "ready" /\ Kind(r) # "verify"
    /\ PublishSubject(r)
    /\ Goto(r, "committed")
    /\ UNCHANGED <<holder, ousted, cookie, input, found, plan, victim>>

\* _ensure_version_row: a start that finds the current linkage key without its row
\* inserts that and commits, before it has a session.
CommitSubject(r) ==
    /\ pc[r] = "ready" /\ Kind(r) # "verify"
    /\ PublishSubject(r)
    /\ Goto(r, "kept")
    /\ UNCHANGED <<holder, ousted, cookie, input, found, plan, victim>>

\* The rest of such a start commits: the session.
CommitSession(r) ==
    /\ pc[r] = "kept"
    /\ Goto(r, "committed")
    /\ UNCHANGED <<coreVars, cookie, input, found, plan, victim>>

\* Nothing commits after the identity: merge and token are rolled back when the
\* session is closed, and the new token is returned all the same.
CloseVerification(r) ==
    /\ pc[r] = "ready" /\ Kind(r) = "verify"
    /\ Goto(r, "closed")
    /\ UNCHANGED <<coreVars, cookie, input, found, plan, victim>>

\* set_recognition_cookie: a new token, or for mark_used the one that came in.
Answer(r) ==
    LET b == input[r].browser
    IN  /\ pc[r] \in {"committed", "closed"}
        /\ cookie' = CASE plan[r].action \in {"issue", "rotate"} -> [cookie EXCEPT ![b] = r]
                       [] plan[r].action = "mark_used" -> [cookie EXCEPT ![b] = input[r].token]
                       [] plan[r].action = "keep" -> cookie
        /\ Goto(r, "done")
        /\ UNCHANGED <<coreVars, input, found, plan, victim>>

AnswerLost(r) ==
    /\ pc[r] \in {"committed", "closed"}
    /\ Goto(r, "done")
    /\ UNCHANGED <<coreVars, cookie, input, found, plan, victim>>

\* Any other error of the request, or the end of its worker: it is rolled back.
RequestFails(r) ==
    /\ pc[r] \notin {"idle", "kept", "committed", "closed", "done", "left", "failed"}
    /\ Goto(r, "failed")
    /\ UNCHANGED <<coreVars, cookie, input, found, plan, victim>>

\* The same of a start that has committed its subject: that stays, with no session,
\* and the browser is given no token.
StartFailsLate(r) ==
    /\ pc[r] = "kept"
    /\ Goto(r, "left")
    /\ UNCHANGED <<coreVars, cookie, input, found, plan, victim>>

Ended(r) == pc[r] \in {"done", "left", "failed"}

Proceed(r) ==
    \/ ReadParticipant(r) \/ LinkIdentity(r) \/ LookUpToken(r) \/ Resolve(r)
    \/ MergeSubject(r) \/ AlreadyMerged(r) \/ AttachIdentity(r) \/ IdentityConflict(r)
    \/ ChooseToken(r) \/ TouchToken(r) \/ CommitStart(r) \/ CommitSubject(r) \/ CommitSession(r)
    \/ CloseVerification(r) \/ Answer(r)

\* All requests have been served.
Rest == (\A r \in Requests : Ended(r)) /\ UNCHANGED vars

Next ==
    \/ \E r \in Requests :
          \/ \E b \in Browsers, e \in Entries : Arrive(r, b, e)
          \/ Proceed(r) \/ AnswerLost(r) \/ RequestFails(r) \/ StartFailsLate(r)
    \/ Rest

Spec == Init /\ [][Next]_vars

-----------------------------------------------------------------------------
(* Properties *)

\* Starts whose subject rows are committed, and those that have a session too.
Recorded(r) == pc[r] \in {"kept", "committed", "done", "left"} /\ Kind(r) # "verify"
Started(r) == pc[r] \in {"committed", "done"} /\ Kind(r) # "verify"

MergedInto(s, t) == \E q \in Requests : Recorded(q) /\ plan[q].weaker = s /\ plan[q].final = t

Row(r) == [visit |-> r, browser |-> input[r].browser, assignee |-> Assignee(r),
           user |-> Actor(r), subject |-> plan[r].final]

\* The register of subjects, sessions and merges that the starts make up.
Register == INSTANCE Recognition WITH
    Visits <- Requests,
    recorded <- {Row(r) : r \in {q \in Requests : Recorded(q)}},
    sessions <- {Row(r) : r \in {q \in Requests : Started(q)}},
    merges <- {<<plan[r].weaker, plan[r].final>> :
                  r \in {q \in Requests : Recorded(q) /\ plan[q].weaker # NoSubject}},
    alias <- canonical

\* With all their overlapping reads and writes, and with early commits and
\* failures after them, starts and verifications keep the register as if each
\* resolution were one step, and each session came with it, later or never: who
\* has no evidence is a person that the same browser had a session of, or new; a
\* merge takes only a person that the browser had a session of, and gives it to
\* one with evidence; an account is identified once, unless a verification takes
\* its participant away.
RegisterIsKept == Register!Spec

\* A respondent stays one subject: every session of an account belongs to the
\* subject of its identity, every session by an assigned link to the participant,
\* or to a subject that one was merged into -- however first starts, merges and
\* verifications of several devices overlap, and whatever a start that commits
\* early leaves when it fails.  Accounts that lost their identity to another with
\* the same address are exempt.
SessionsFollowEvidence ==
    \A r \in Requests : Recorded(r) =>
        LET e == IF Assignee(r) # NoSubject THEN Assignee(r)
                 ELSE IF Actor(r) \in Users \ ousted THEN identity[Actor(r)]
                 ELSE plan[r].final
        IN  plan[r].final = e \/ MergedInto(e, plan[r].final)

\* An anonymous subject never absorbs another: aliases point to participants
\* and to subjects that an account is identified with.
AliasesPointToAuthority ==
    \A s \in Subjects : canonical[s] # NoSubject =>
        canonical[s] \in Participants \/ \E u \in Users : identity[u] = canonical[s]

\* Rotations of several devices at once may revoke each other's tokens, but a
\* subject that has had a token keeps one that is valid.
SubjectKeepsToken ==
    \A t \in Requests : token[t] # NoSubject =>
        \E n \in Requests \ revoked : token[n] = token[t]

\* A browser recognises nobody else: the token in its cookie is one of the
\* subject of a session that the browser started, whatever order the answers
\* come in.  Tokens handed out by verifications are the exception.
CookieOfOwnSession ==
    \A b \in Browsers : cookie[b] # NoToken =>
        \/ Kind(cookie[b]) = "verify"
        \/ \E r \in Requests : /\ Started(r) /\ input[r].browser = b
                               /\ plan[r].final = token[cookie[b]]

\* An identity is never taken from an account except by the verification of a
\* participant for another account with the same address.
IdentitiesMoveOnlyByVerification ==
    [][\A u \in Users : identity[u] # NoSubject /\ identity'[u] # identity[u] =>
          /\ identity'[u] = NoSubject
          /\ identity[u] \in Participants
          /\ holder'[identity[u]] \in Mailbox[identity[u]] \ {u}]_vars

\* Requests never wait for each other in a circle: locks are taken in one order,
\* subject, identity, token, so one of the requests under way can always go on;
\* each has finitely many steps, hence they end.
SomeRequestProceeds ==
    (\E r \in Requests : pc[r] # "idle" /\ ~Ended(r)) => \E r \in Requests : ENABLED Proceed(r)

\* As the docstring of verify_authenticated_link_participant has it, the browser's
\* token is reconciled with the assigned subject: a token that a browser was
\* given is stored.
CookieTokenIsStored == \A b \in Browsers : cookie[b] # NoToken => token[cookie[b]] # NoSubject
=============================================================================
