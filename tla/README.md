# FlowForm: TLA+ specifications and proofs

FlowForm lets project members build and publish surveys and lets respondents
answer them. Its backend (Flask under gunicorn) keeps two PostgreSQL databases:
**Core** (projects, surveys, links, subjects, submission sessions, answer slots,
events) and **Response** (response envelopes and encrypted answers). A session
can be traced from one to the other only through a locator computed with a
linkage key from a secret manager. Nothing makes a commit of one database atomic
with a commit of the other, every worker process has caches of its own, and the
respondent's page sends calls without waiting for their answers. These modules
specify what that amounts to.

## 1. Inventory

Paths are relative to `src/`; `public_submissions/` stands for
`src/backend/app/services/public_submissions/`.

| Component | State | Operations | Hard behaviour | What makes it correct |
|---|---|---|---|---|
| Session start (`public_submissions/core/actions/session_starter.py`, `core/resolution/access_resolver.py`) | Core: `submission_sessions`, `used_at` of links, subject rows. Response: `response_envelopes` | `start` | two commits and a compensating delete; single-use check without a lock; commits reported as failed; worker killed | a returned session is usable; a failed start leaves no effect; a consumed link has a usable session |
| Linkage keys (`crypto/_internal/linkage_keys.py`) | secret manager, `linkage_key_versions`, one cached key per worker | get current, get by version | cache filled before the row exists; commits the caller's transaction | bounded leftovers of the early commit |
| Session commands (`core/session_loader.py`, `core/actions/answer_save.py`, `core/actions/completion.py`, `api/session_management.py`) | session row, slots, events (Core); answers (Response); write-context cache; SQLAlchemy identity map | save answer, complete, question viewed, resume | cache skips the state check; `FOR UPDATE` returns a stale object; answer written after the lock is released; a swallowed error rolls back | a command takes effect only on a session it found open; answers have slots; completion is final |
| Reconciliation job (`core/reconciliation.py`) | none of its own; marks in one long transaction | `reconcile_orphaned_sessions` | acts on a scan taken earlier, keeps row locks to the end of the batch | abandons only sessions that no browser was given; never a completed session |
| Administrative deletion (`services/admin_results/service.py`) | none of its own | `delete_session`, listing, export | two commits, response data first | nothing is left of a deleted session |
| Respondent page (`pages/RespondPage.tsx`) | set of saved questions, map of in-flight saves | resume, save, submit | calls overtake each other, fail, or succeed unseen; a reloaded page knows neither the stored answers nor the saves under way | what was answered is stored when the completion is asked for |
| Subjects and tokens (`core/resolution/session_subject_service.py`, `subject_resolver.py`, `subject_token.py`) | identities, `canonical_subject_id`, recognition tokens; the browser's cookie | resolve, merge, attach, rotate | concurrent first starts and merges, several devices, rows held over a whole start | sessions of one respondent belong to one subject; a subject keeps a valid token; a cookie is its browser's own |
| Survey publishing and content (`services/surveys.py`, `services/content.py`, `repositories/surveys_repo.py`, `repositories/content_repo.py`) | versions, `published_version_id`, nodes, scoring rules, compiled schemas | create, copy, edit, publish, archive | decisions from stale reads; two rows locked in opposite orders; edits against publication | the survey refers to a published version; requests end; a snapshot is the content of its version; versions are numbered densely |
| Survey keys (`crypto/survey_key.py`) | wrapped key rows, plaintext cache | create, load | cached before the row is committed; a cache hit taken for the row | what is published has its key row; every session key can be unwrapped |
| Caches (`cache/_locked_ttl.py`) | entries, per-key locks | get, put, get-or-load, evict | entries that outlive what they were read from | a stale entry does no harm (in the modules of the components that use it) |
| Participants (`services/participants.py`) | the e-mail identity of a participant, and the account that has verified it | create, update, delete, verify | two accounts with one address verify at once | an identity moves only by a verification |
| Links (administration), members, invitations | single Core rows | create, update, revoke, accept | check-then-act | no state is reached from two sides |
| Form rules (`form_filler/formFillerRuntime.ts`, `form_filler/FormFiller.tsx`) | the answers and the committed questions; everything else is derived anew on each change | change, continue, back, restart; derive progress | rules that read, hide, skip or end, evaluated on answers not yet committed; two names of a question | what is submitted was saved; typing does not change the path; respondents are led as the author was |
| Accounts and Auth0; access control; API, schemas, e-mail, rate limits, logging, infrastructure | — | — | I/O, role tables and conversion | out of scope |

How they interact: the page calls the API; each call is one request in one
gunicorn worker with one Core and one Response transaction opened for it; the
workers share nothing but the databases and the secret manager; the job and the
administrator work on the same rows. PostgreSQL row locks are the only
synchronisation.

## 2. Modules

| Module | Role |
|---|---|
| `AtomicStart` | abstract: a start takes effect at once or not at all |
| `SessionStart` | the start over two databases, with the reconciliation job; implements `AtomicStart` |
| `OpenSession` | abstract: commands on a session that was open when they were admitted |
| `SubmissionSession` | save, complete, delete, reconcile over two databases; implements `OpenSession` |
| `RespondPage` | the page, with its reloads, composed with `OpenSession` (one caller for each call) |
| `Publication` | abstract: a publication replaces the published version at once, by what was seen to be a draft |
| `SurveyPublishing` | publishing and archiving the versions of a survey, with its encryption key; implements `Publication` |
| `VersionContent` | creating, copying, publishing and archiving versions against the edits of their parts; implements `Publication` |
| `Recognition` | abstract: a start, or a verification, is one step of a register of visits, merges and identities; the session of a visit comes in the same step, later or never |
| `SubjectResolution` | the subject of a start, the verification of a participant, recognition tokens and cookies; implements `Recognition` |
| `Questionnaire` | abstract: the questions that were passed are a stack |
| `FormFiller` | the form: which question is next, and the handlers that answer, go on and go back; implements `Questionnaire` |
| `MCSessionStart`, `MCSubmissionSession`, `MCRespondPage`, `MCSurveyPublishing`, `MCVersionContent`, `MCSubjectResolution`, `MCFormFiller` | instances for TLC |
| `SessionStart_proofs`, `SubmissionSession_proofs`, `RespondPage_proofs`, `SurveyPublishing_proofs`, `VersionContent_proofs`, `Recognition_proofs`, `SubjectResolution_proofs`, `FormFiller_proofs` | theorems |

The composition goes through the abstract specifications. `SubmissionSession`
is shown to implement `OpenSession`, the page is checked against
`OpenSession`, which stands for the server, and `PageDrivesOpenSession` shows
that it asks nothing else of it. `SurveyPublishing` and `VersionContent` look at
the same handlers from two sides, one with the locks and the other with the
contents; both implement `Publication`. Three modules share what they do not
repeat: `SessionStart` takes the resolution of the subject as one step that
leaves rows, `SubjectResolution` is that step in detail; `RespondPage` takes the
order of the questions as given, `FormFiller` is the order; `VersionContent` lets
one publication at a time mark its version, `SurveyPublishing` is how they wait.

Operators whose comment begins with "Mutant" are not part of `Next`. Each is a
plausible wrong version of the definition after it, kept to show that the
properties tell the two apart.

### SessionStart

One worker is a synchronous process (gunicorn's default worker class), so `pc`
says which database effect of `SessionStarter.start` comes next. A member of
`Sessions` is one attempt, named by the id the session would get.

| State | Code |
|---|---|
| `status`, `used`, `subjects`, `versionRow` | *committed* Core rows; what a transaction holds uncommitted is a function of the worker's `pc`, and `EndRequest` discards it |
| `envelopes` | committed `response_envelopes` |
| `keyCached` | workers whose linkage-key cache is filled |
| `outcome` | what the browser was told |
| `job`, `todo`, `marks` | the reconciliation job: its scan and its uncommitted marks |

| Action | Code |
|---|---|
| `ResolveAccess` | `AccessResolver.resolve`, with `ensure_not_used` on a plain read |
| `ResolveSubject` | `resolve_for_session_start`, flushed rows |
| `CachedLinkageKey`, `FetchLinkageKey`, `EnsureVersionRow…`, `VersionRowConflict` | `get_current_linkage_key`, `_ensure_version_row` with its early commit |
| `CreateSession`, `CreateSessionRejected` | `create_session`; the version row is its foreign key |
| `ConsumeLink` | `mark_used`: takes the row lock of the link, looks at nothing |
| `CreateEnvelope`, `EnvelopeAckLost` | the response commit |
| `CommitCore`, `CommitCoreFails`, `CommitCoreAckLost`, `CleanUpEnvelope`, `CleanUpFails`, `ReportFailure` | `_commit_core_or_cleanup_envelope` |
| `StartFails`, `WorkerDies`, `LinkageKeyExpires` | any other exception, a killed worker, the cache's TTL |
| `Reconcile…` | the job |

The commit of the compensating delete and the report of the failure are two steps:
in between the worker may die, and the job may find a core row whose envelope is
gone while its start is still running. `OnlyUndoneStartsAbandoned` therefore speaks of
starts that no browser was given *or will be* (`NeverReturned`), and not of starts
that have been reported as failed.

`LostAcks` says whether a COMMIT may take effect and still be reported as
failed, as PostgreSQL clients must expect when the connection breaks. Without
it the start is atomic; with it the compensation is not sound
(`ConsumedLinkHasUsableSession` fails: a commit that took effect is compensated by
deleting the envelope, which leaves a consumed link without a usable session,
against `respondent-access-and-continuity.md`, line 95), although what the browser was
*given* stays usable. That property is checked and proved for acknowledged commits only.

`_ensure_version_row` commits in the middle of the start, so Core may hold
subject and token rows before the envelope exists. `AtMostOneSubjectWithoutSession`
bounds what this can leave behind.

### SubmissionSession

| State | Code |
|---|---|
| `status`, `slots`, `completions` | committed Core rows of established sessions; a completion is its `session_completed` event |
| `envelopes`, `answers` | committed Response rows; an answer is only present or absent |
| `held` | status of the session's row object in the request's identity map, "nothing" when it is not there |
| `contexts` | the write-context cache of each worker |
| `erasing` | deletions between their two commits |
| `marks` | rows the job has updated but not committed, hence locked |

Two facts about SQLAlchemy carry much of the module. A query returns the object
that the identity map already holds without refreshing it, so `lock_for_update`
may return the status read before the lock (`LockedStatus`). The map is weak:
whether the object is still there depends on whether the lazy key resolver in
the cached context keeps it, so `ReadEnvelope` chooses (`held'`).

`SaveSlot` commits Core and so releases the row; `SaveUpsert` follows with no
lock. `CompleteEventFails` is the swallowed error: the helper has rolled back
the mark as well. `DeleteDies` is the failure between the two commits of a
deletion. `ReconcileMarkViolates` is the CHECK on `completed_at`.

### RespondPage

The page resumes whenever it is loaded: it posts
`submission-sessions/current/resolve`, and starts a session only if there is none.
`Init` is the page that has just started one. `Reload` may come at any moment and
leaves the form, `savedAnswersRef` and `inflightSavesRef` empty over a session that
may hold answers; the calls of the page before it go on, and what they are answered
goes to nobody (`heard` is "gone"). `Resume` goes on with a session in progress,
without its answers; `ResumeFails` is a completed session, or a failed call. Each
visit may ask for a completion of its own.

A call is a save, named by its question and the number of the commit that sent
it, counted over all visits, or the completion that a visit asks for. An answer is
known by the commit it came from; that is enough to tell old from new. `ConnectionFails` lets a fetch reject while the
server may still carry the call out. The `finally` of a save removes the map
entry of its *question* (`Hear`). The resend loop of `handleComplete` is the
guard `Unsaved = {}`: the theorem `ResendIsDead` shows that the loop never has
anything to send. `LoseCompletion` is the swallowed error of
`SubmissionSession`.

What a reload costs is stated by the properties. `UneditedAnswersStored` speaks of
questions committed once on the session, not once on the visit: a save of the page
before may overwrite the answer to a question that the present page has committed
again. `LateSavesExplained` names the saves of an earlier visit as late ones, and a
completion that an earlier visit asked for as one that may come under the present page.

### SurveyPublishing

| State | Code |
|---|---|
| `status`, `active`, `keyRow` | *committed* `survey_versions.status`, `surveys.published_version_id`, existence of the survey's `survey_encryption_keys` row |
| `publications` | how often each version has been published, a history |
| `surveyLock`, `versionLock` | row locks of uncommitted updates |
| `seen` | `survey.published_version_id` as the request read it |
| `victim` | the version that the request archives |
| `cache` | the worker's `survey_keys` entry, by the fate of the key: `pending` in its transaction, `stored`, or `lost` with a rollback |
| `lostSessions`, `failed` | has a session DEK been wrapped with a lost key; has a request failed otherwise than by a conflict |

| Action | Code |
|---|---|
| `ReadSurvey`, `ReadVersionToPublish`, `ReadVersionToArchive`, `VersionRefused` | plain reads and `version_rules` |
| `KeyKnown`, `KeyMissing`, `InsertKey`, `KeyConflict` | `_ensure_survey_encryption_key` |
| `ReadCurrent`, `Detach`, `ArchiveRow`, `SetPublished`, `Attach` | one flush each of `publish_version`, `unpublish_version`, `archive_version` in `surveys_repo.py` |
| `ArchiveProtected`, `PublishedConflict` | the trigger `protect_active_published_version`, the index `uq_survey_versions_one_published` |
| `CommitPublish`, `CommitArchive`, `RequestFails`, `WorkerDies`, `DeadlockAborted` | the ends of a request |
| `StartSession`, `KeyExpires` | `start_plaintext_survey_key_load` in a session start; the TTL |

An uncommitted update is a lock and a step: `CommitPublish` writes what the locks
stand for. A first publication locks the version and then the survey; a replacing
one and an unpublication lock the survey first. So transactions can deadlock, and
`WaitsFor` says who waits for whom. A unique index makes an update wait for
transactions that are publishing or archiving other published versions
(`IndexFree`). In PostgreSQL such an update already holds the row of its own version
while it waits; in the model it takes the row when it proceeds. Others would wait for
that row a little earlier, and an additional circle would end as the modelled
ones do, by the abort of one request. The trigger `validate_survey_published_version` never rejects an
`Attach`, since the transaction has just set the status itself.

`PublishesAtomically` says what the requests amount to: in terms of `Publication`
a request claims a version when it has read it as a draft, and its commit
puts that version in the place of whatever is published by then. That the survey
refers to no draft and no archived version, and that at most one version is published, are
theorems of their own (`ActivePublished`, `OnePublished`).

What the model also shows, and no text of the repository rules out: a version
archived meanwhile is published again by a request that had read it as a draft,
and its snapshot overwritten; a stale unpublication clears a reference that a
newer publication has set, and leaves that version published but not active.

### VersionContent

A version's content is a function from parts (nodes by their client id, scoring
rules by their key) to what they say. A new version is named by the request that
inserts it; its parts keep their names, although a copied node gets a new row id. `UpdateScoringRule` may
also rename the key of a rule; since a part is known by its key here, that would be a deletion
and a creation in one edit, and is left out.

| State | Code |
|---|---|
| `status`, `number`, `compiled`, `active` | *committed* `survey_versions` and `published_version_id` |
| `content` | committed `survey_questions`, `survey_scoring_rules` |
| `seen`, `read`, `next` | what a request has read: the active version, the parts, the number it will insert; also what it will write at its commit |
| `rivals` | history: the requests that were under way at the same time |

| Action | Code |
|---|---|
| `Arrive` | routing, `ensure_is_editable`, `ensure_is_draft`, `ensure_can_archive` on plain reads |
| `FindPart`, `InsertPart`, `WritePart`, `CommitEdit` | `ContentService`; the trigger `prevent_changes_to_published_version_parts` runs before an insert meets the unique indexes, but after an update has found its row |
| `ListQuestions`, `ListNodes`, `ListScoringRules` | the three reads of `publish_version`; the second finds objects of the first in the identity map and keeps what they said |
| `Mark`, `CommitPublish`, `CommitArchive` | the updates, with the index and the trigger |
| `ReadNumber`, `InsertVersion`, `CloneNodes`, `CloneScoringRules`, `CommitVersion` | `create_version`, `copy_version_to_draft` |

The properties say exactly what the missing locks cost: a snapshot, a frozen
version or a copy may miss an edit only if that edit ran at the same time. The
model also shows that an edit may reach a version that has been archived
meanwhile, which no trigger protects; and that `ensure_has_questions` is given
all nodes, so a version of rules alone is published.

### SubjectResolution

A request is the subject side of a start, or a verification. It creates at most
one subject and one token, and both bear its name.

| State | Code |
|---|---|
| `canonical`, `identity`, `holder`, `token`, `revoked` | *committed* `canonical_subject_id`, account identities, `user_id` of the e-mail identity of a participant, token rows |
| `cookie` | the recognition cookie of each browser |
| `input` | how the request came in, with the cookie it carried |
| `found`, `plan`, `victim` | what `lookup`, `resolve` and `get_active_token_for_subject` returned; what was flushed is a function of these and of the step |
| `ousted` | history: accounts that lost an identity |

| Action | Code |
|---|---|
| `LookUpToken`, `Resolve` | `SubjectTokenService.lookup`, `SubjectResolver` with `_resolve_to_canonical` (one hop) |
| `MergeSubject`, `AlreadyMerged`, `AttachIdentity`, `IdentityConflict` | the flushes of `SessionSubjectService`, with the row lock and the unique index they meet |
| `ChooseToken`, `TouchToken` | `apply_token_action` |
| `ReadParticipant`, `LinkIdentity`, `CloseVerification` | `verify_authenticated_link_participant`: its only commit is the identity's |
| `CommitStart` | the core commit of the start |
| `CommitSubject`, `CommitSession`, `StartFailsLate` | the early commit of `_ensure_version_row` (`linkage_keys.py`, line 103), then the core commit with the session, or a failure that leaves none |
| `Answer`, `AnswerLost` | the cookie |

A start that finds a new current linkage key commits its subject, identity and token
before it has a session, and may still fail. Which start that is depends on
`SessionStart`'s version row; here any start may be one, since the key may be rotated at
any time. `Recorded` are the starts whose subject is committed, `Started` those with a session.

Concurrent merges build chains of aliases although `_resolve_to_canonical` says
that there are none. `SessionsFollowEvidence` says what remains true: a session belongs
to the subject of its identity or assignment, or to one that it was merged into;
`AliasesPointToAuthority` why chains stay harmless to anonymous respondents.

`RegisterIsKept` puts this together. `Recognition` has neither tokens, cookies nor
reads that may be stale: a visitor without evidence is somebody that the *same
browser* has had a session of, or somebody new; a merge takes only such a subject,
and gives it to one with evidence; an account is identified once. The
first commit of a start is one step of that register, which records the visit, its
merge and its identity; its session comes in the same step, by `CommitSession` later,
or never. `LinkIdentity` is another step, and nothing else changes the register.
Browsers recognise only by visits that got a session, since only these return a token. Only of accounts that have lost their identity (`ousted`) the register
asks less: their session may be of anybody with evidence. What a merge made an
alias is in `merges` for good, because an alias can be redirected by a later
merge.

### FormFiller

A survey is a sequence of questions and rules. A condition is the set of answers
for which it holds, validation the sets of malformed and of emptied answers; so
families and formats of answers do not appear, every branch of the walk does.

| State | Code |
|---|---|
| `authored`, `page` | the survey as made, and whether it is walked in the preview or, through `normalizeNode`, on the respondent's page |
| `answers`, `committed` | the two `useState` of `FormFiller` that matter |
| `progress` | the result of `deriveSurveyProgress`, derived again by every action (`Derived`) |
| `handed` | history: the last answer that `onAnswerCommit` got for each question |
| `left` | has the page gone on? |

`Turns` is the loop of `deriveSurveyProgress`, a recursive function of the number
of turns with one `Visit` for each, and `Progress` the walk after as many turns as
the safety counter allows. `SurveyAssumption` says what a survey is: a sequence of
questions, each with a key of its own, and rules whose branches do one thing.
`Change`, `Continue`, `Back`, `Restart` and `Complete` are the handlers and the
completion effects. `Orderly` is what the builder and its import demand of rules
(`surveyNodeImport.ts`): conditions on earlier questions, effects on later ones.
Publication does not check it.

`ActsAsStack` says what the respondent of an orderly survey may rely on, although
`committed` is only a list of keys and the question that is asked is derived from
all of them and from the answers: the form is the stack of `Questionnaire`.
Continuing pushes the question asked, going back asks the one on top, typing
changes neither, and nothing on the stack is asked again.

## 3. Runs

| Run | Instance | Question and answer |
|---|---|---|
| `StartSafety` | 2 workers, 3 attempts, 1 single-use link and the public slug, lost acknowledgements, symmetry | Is what was given usable, does the job abandon only sessions that nobody was or will be given, how often can a single-use link be used? Holds; about 237 000 states |
| `StartAtomic` | 2 workers, 2 attempts, no lost acknowledgements, fairness | Does the start implement `AtomicStart`, and does every start end? Yes |
| `SessionCommands` | 2 workers, 1 session, 1 question, fairness | Do commands, deletion and job keep the databases consistent, implement `OpenSession`, and end? Yes; about 35 000 states |
| `CompletionReport` | as above | Is a reported completion done? **No** |
| `PageSubmit` | 2 questions, the second optional, the first committed up to twice, page loaded twice, fairness | What is stored at submission, which saves can come later, does the page settle? Holds; about 285 000 states |
| `Publishing` | 2 workers, 2 versions, fairness | Do publications take effect at once, how often can one be published, do conflicts lose keys, does every request end? Holds; about 332 000 states |
| `PublishingKey` | as above | Has what is published its key row? **No** |
| `Drafts` | 3 requests, 1 node, 1 scoring rule, 2 values, symmetry | What can a snapshot, a published version or a copy miss, are versions numbered densely? Edits under way at the same time, nothing else; yes; about 721 000 states |
| `Subjects` | 3 requests, 2 participants, 2 accounts, both with the address of the first participant, 2 browsers, symmetry | Do sessions follow identity and assignment, do subjects keep tokens, do cookies stay with their browser, can requests wait in a circle, is each start one step of `Recognition`, with its session then, later or never? Holds; about 793 000 states |
| `VerifyRotates` | as above | Is a token that a browser was given stored? **No** |
| `Filling` | 144 surveys of 3 questions and 2 rules, 3 disordered ones, 4 answers (2 valid, one malformed, one emptied), in the preview and on the page | Is what is reviewed what was handed over, does the form implement `Questionnaire`? Holds; about 399 000 states |
| `RulesLost` | as above | Is the respondent led as the author was in the preview? **No** |

### Bounds

Every set is small and every theorem of section 4 holds for any of them; the
runs check the properties before they are proved, and what the prover cannot
reach: liveness and `ENABLED`.

* Workers: every conflict in the code is between two requests, or a request and
  the job or the administrator, which are processes of their own. Two is also
  what `gunicorn.conf.py` starts by default.
* Attempts: three in `StartSafety`, more than there are workers, so that the
  bound on uses of a link could be exceeded. One link, since links do not
  interact, and the public slug as the case without a link.
* Sessions: one in `SessionCommands`. Sessions share only the workers and the
  transaction of the job; the safety properties also hold with two (ten
  million states, too long to repeat each time) and are proved for any number.
* Commits of a question: two, the least that can overtake each other; of one
  question, since saves of different questions meet only in the completion
  (`Edited`). Visits: two, an earlier page and the present one; a third only adds
  calls that nobody hears of. `MaxCommits`, `Edited` and `MaxVisits` are the bounds
  of the page's counters.
* Versions: two, the least of which one can replace the other; with two workers
  the requests meet in every order of the two rows, and deadlock.
  `publications` needs no bound of its own (`PublicationsBounded`).
* `completions` needs no bound: it is at most the number of workers
  (`CompletionsBounded`), since a completed session gets no fresh reader.
* Requests of `Drafts` and `Subjects`: three, each served once. A publication, a
  copy and an edit, or two edits of one part and a publication, already meet in
  every order; two first starts and a verification likewise. One node and one
  scoring rule are the two tables that are read in separate statements.
* Surveys of `Filling`: a rule that reads the first question and may hide, free or
  skip the second, or end; then one that reads the first, the second or both, under
  each of ALL, ANY and NONE, and may hide the third, show it again, or end. So two
  rules act on one question, and going back meets a rule that now decides
  otherwise. The three disordered surveys have a loop, a rule about later
  questions and a missing target.

Symmetry is used in `StartSafety`, `Drafts`, `Subjects` and `VerifyRotates`, which
have no liveness property. Deadlock checking
is off only for the page, which stops when it is complete or has failed.

### Fairness

* `StartAtomic`: weak fairness of `StartStep(w)`, the handler's own steps. A
  worker executes its request; the only wait is for a link's row lock. Failures,
  deaths and arrivals are not promised.
* `SessionCommands`: weak fairness of the steps that do not wait; strong fairness
  of those that wait for a row lock, since PostgreSQL queues lock requests; weak
  fairness of the job once it runs (its scan is never promised).
* `PageSubmit`: each fetch, that of the resume too, settles (the browser's network stack ends it one way
  or the other) and the page's continuations run. The respondent and the server
  promise nothing.
* `Publishing`: weak fairness of the steps that do not wait, strong fairness of
  those that wait for a lock, weak fairness of the abort of a deadlock, which
  PostgreSQL detects after `deadlock_timeout`.
* `Drafts`, `Subjects` and `Filling` state no fairness and no liveness. That requests
  of `SubjectResolution` end rests on `SomeRequestProceeds`: each has finitely many
  steps, and one of those under way can always take its next (`NobodyWaitsInACircle` in section 4
has both, for any number of requests).

### Findings

Each is a violation run, against a sentence of the repository.

1. `CompletionReport`. A failing event insert rolls the completion back, and the
   browser is told the session is completed. The comment calls it non-fatal.
2. `PublishingKey`. The first publication caches the new key and is then rolled
   back; the next publication by the same worker takes the cache hit for the row
   and commits. Sessions started in that worker are encrypted under a key that
   exists nowhere else, until the entry expires; from then on, and in every
   other worker, none can be started until a later publication makes a key.
   `KeysSafeUnlessFailure` says that this takes an error (of a flush, the
   connection, the commit): conflicts, deadlocks and deaths cannot cause it.
3. `VerifyRotates`. The verification of a participant commits the identity and
   then flushes a merge and a new token that nothing commits; the browser gets
   the token's cookie all the same and has lost the valid one. `CookieOfOwnSession`
   bounds the damage: such a cookie recognises nobody, never somebody else.
4. `RulesLost`. The compiled schema names a question by the id of its row, and
   `normalizeNode` makes that its `node_key`; the rules beside it keep the
   `node_key` of the draft. On the respondent's page conditions find no answer, hiding and
   requiring does nothing, and a rule that skips ends the form with an error. In
   the preview, where authors try their rules, all is well.

Four more are in the models without a run of their own, because a property that
holds says precisely how far they go:

* `mark_used` updates a link by id alone, so two starts that both read it before
  either consumed it both succeed, against the docstring of `ensure_not_used`
  (`public_link_rules.py`, line 32); `SessionsPerLinkBounded` gives the bound, the number
  of workers.
* A worker with a stale row object completes a completed session again, with a
  second event and a later `completed_at`; `CompletionsBounded` is the bound.
* An older save removes the in-flight entry of a newer one of the same question,
  and the completion does not wait for it; `LateSavesExplained` says which saves
  can come late: those of edited answers, those that the page took for failed, and
  those of a page that has been reloaded.
* A core commit that is reported as failed although it took effect (above, under
  `SessionStart`); `ReturnedSessionUsable` and `OnlyUndoneStartsAbandoned` still hold.

## 4. Proofs

All theorems hold for every value of the constants that satisfies the
assumption named in the module (`StartAssumption`: finitely many workers,
single-use links are links, the "none" values are outside the sets;
`SessionAssumption`, `PageAssumption`, `PublishAssumption`, `ContentAssumption`,
`SubjectAssumption` and `SurveyAssumption` likewise; the theorem of `Recognition_proofs`
states its own, that `NoSubject` is no subject).

**SessionStart_proofs.** `IInv` strengthens type correctness by four parts.
`ServesOne`: no attempt is served twice at a time. `PhaseInv`: what the two
databases hold of an attempt, by the step of its worker. `OutcomeInv`: what they
hold of the others; its heart is that a core row without an envelope belongs to a
start that was lost, has failed or has nothing left but to report its failure
(`NeverReturned`), which is what makes the job harmless. `JobInv`: the scan and
the marks refer to committed rows, so they stay valid while starts go on.
`ReturnedUsable` and `AbandonedUndone` follow. The properties alone are not
inductive: a half-done start looks like an orphan until the order of the commits
is brought in.

`StartRefinesAtomic` assumes `~LostAcks` and adds `FailedInv` (a failed start has
no core row). The effect of the abstract start is the core commit. `ConsumedUsable`
rests on the same invariant. `LinkUsesBounded` counts claims: the workers that
passed the check before the link was consumed, plus the sessions that exist, never
exceed the number of workers. `EarlyCommitBounded` shows that only one attempt
can make the version row.

**SubmissionSession_proofs.** `IInv` has `RequestInv`, `HolderInv` (a row has one
holder and is not deleted under it), `MarkInv` (marked rows have no envelope, are in progress
and unlocked by others), `DataInv` (how slots, answers, envelopes and status
belong together) and `LockKeepsInProgress`. `DataInv` is where the late write of
an answer is tamed: a worker between its two commits has its slot unless the
session is deleted, and then the foreign key to the envelope stops it.
`CompletionsAreBounded` counts the workers that can still complete.
`InterruptedDeletionStays` is what an administrator cannot repair: a session whose
deletion was interrupted between its commits keeps its row, is never marked as being deleted
again, and never has answers again.
`CommandsRefineOpenSession` maps a request to an admitted one from the moment its
status was seen to be in progress; every step is a step of `OpenSession` or a
stutter. `CommittedIsDone` is what remains of `CompletionReportedIsDone`: a
completion reported after a commit of its own is done.

**RespondPage_proofs.** `IInv` relates the page's maps to the progress of the
calls (`CallInv`, `StoredInv`, `InflightInv`), to the completion
(`CompletionInv`) and to what a reload leaves (`VisitInv`): a call that has not been
answered is one of the present visit, the latest save of a question that the page counts as saved is
its own, and no earlier completion is waited for. The key fact is `InflightInv`: while a question has been
committed only once, the map entry of its save is really there. That is what
fails from the second commit on, and why `UneditedAnswersStored` is restricted as
it is. `PageDrivesOpenSession` maps the calls to workers of `OpenSession`;
`SubmittedAreAnswers` carries `UneditedAnswersStored` over to the answers that
`OpenSession` records.

**SurveyPublishing_proofs.** `IInv` strengthens the properties by `RequestInv`
(what a request is, by its step), `LockInv` (who holds which row, by its step),
`ReferenceInv` (a version being archived is not active, or the same transaction
has cut the reference: what the trigger guarantees at the update stays true until
the commit because the lock stays), `IndexInv` (one uncommitted publication at a
time, with nothing published beside it), `PendingInv` and `KeyInv`. The
interesting lemma is `KeyInNoDeadlock`: before the first publication has committed
nobody locks the survey before a version, so the transaction that has inserted the
key waits only for an archiving one, which waits for nobody.
`CirclesMeetAtTheSurvey` says the same of all deadlocks: whoever waits for each
other, one of them holds the row of the survey, because without that row a
transaction that has locked a version waits for nothing else.
`PublicationsAreBounded` counts the publications under way that saw the version as
a draft. `PublishingRefinesPublication` needs one fact more, `CurrentInv`: what a
request has read as the active version is no draft, and is the one that a
publication archives. Together with `IndexInv`, by which nothing else is published
when it commits, its commit archives all that was published, although it names one
version that it read long before.

**VersionContent_proofs.** The base of every theorem is `TypeInv`, `LifeInv` (a version once
inserted stays, frozen versions stay frozen, what is compiled or active is frozen)
and `RivalInv` (two requests under way are rivals of each other, the only link
from a stale read to the moment when it is used). `EditInv`: an edit under way of a
frozen version has a rival that has published or archived it, since it saw the draft
when it arrived; `FrozenStay` is its use at the commit. `ReadInv`: what a request
has read of its version is still there, or a rival has edited it; from it follow
`SnapshotsAgree` and `CopiesAgree`. `NumberInv`: every number
below the one that a request will insert is taken, and stays taken; with the
unique index that leaves neither gap nor repetition (`NumberedDensely`).
`PublishingRefinesPublication` rests on `MarkInv`: what a request has read as published when it
marks its version is still all that is published when it commits. What `Publication` entails is then
had for nothing: `OnePublished` follows from its steps, whatever edits and copies do.

**SubjectResolution_proofs.** `TypeInv` says which requests take which steps.
`IdentityInv`: the account of a participant's row has that participant for its
identity, and a flushed identity is the only one of its account, because the index
makes others wait; so identities move only by verification. `TokenInv`: stored
tokens are those of recorded requests, and what a rotation revokes is one of its
own final subject; so a revocation always comes with a new token of the same
subject, which is why rotations that revoke each other's tokens cannot leave a
subject without one. `OwnInv` follows a token from the start that made it through
the cookie and the next request. `AuthInv` and `EvidenceInv` follow a plan from
the reads it was made of to the commit: what it merges into stays a participant or
an identified subject, and the evidence is either its final subject or was merged
into it. `EvidenceInv` needs the exemption of `ousted` accounts: a verification
takes an identity away under a start that has read it. `CookiesOfStartsAreStored`
is what remains of `CookieTokenIsStored`. `RegisterKept` joins these invariants
and adds `FoundIsKnown` and `PlanIsKnown`: what a cookie's token finds is a
subject that the same browser has had a session of, or what that was merged into,
and whatever a plan takes from the cookie, to continue it or to merge it, is one
of these; what it does not take from the cookie goes by evidence that was good
when it was read. Sessions stay and merges are kept, so this is still true at the
first commit, which is the step of the register (`CommitIsRecord`); a session that
comes later adds itself to a record that nothing has changed meanwhile (`SessionIsStart`). `AnonymousStays` (`Recognition_proofs`)
is proved of the register alone: an anonymous subject stays in one browser,
because every other way to it leads through a participant, an account or a merge
into one. `StrangersStayApart` carries it over. `NobodyWaitsInACircle` is the
argument behind `SomeRequestProceeds` without `ENABLED`. `WaitsFor` is read off
the guards, and a request that waits does not move (`WaitersStay`); who is waited
for is further on (`WaitsForFurther`), so the furthest request under way waits for
nobody; and every step leads further (`StepsForward`), at most eleven of them for
each request.

**FormFiller_proofs.** What the walk computes holds for surveys of any length, so
it needs induction over the turns. The library's induction theorems take an
operator, which the provers cannot instantiate; `Induction` is therefore proved
here for *sets* of numbers, from the well-foundedness of `<`, and `TurnsVisit`
derives the recursion equation of the loop from unique partial walks. On these
rest the facts about the loop: rules read back and skip ahead
(`OrderlyPositions`), a turn moves the cursor forward and what has been passed
lies behind it (`Turn`, `NeverBack`, `PassedBefore`), so an orderly survey ends
before the counter (`OrderlySurveysEnd`), and answers that agree for the rules
that the walk meets lead the same way (`ProgressAgrees`). The invariant is `IInv
== TypeOK /\ Rendered /\ ReviewedIsHanded`; `Rendered` says that what the page
shows is the walk of its present answers. `ReviewedIsHanded` is inductive only
with the facts about the walk: an answer can change only at the question asked,
and whatever the walk then passes was passed before, so it lies before that
question. `FormIsStack` compares two walks, the one before a handler and the one
after it. With one question more committed they agree up to that question
(`ExtendedTurns`, `ExtendedProgress`), where the longer one goes on and asks
something that was never passed (`AsksOther`); with one fewer the walk stops at
that question (`TrimmedProgress`, `BackProgress`). `NothingCommittedIsLost`, that
the walk passes all that is committed, is the part of it that the handlers rely
on: the code removes from `committed` what a walk no longer passes, and in an
orderly survey that is nothing. `RespondentRulesAreBlind` is the mechanism of
`RulesLost`: after `normalizeNode` no condition finds an answer.

**Model-checked only:** `StartEnds`, `RequestsEnd`, `PageSettles` and `PublishingEnds`
(liveness under fairness is beyond the prover); `SomeRequestProceeds` as it stands (`ENABLED`); and
the counterexamples.

## 5. Not modelled

* Contents of answers, encryption and key wrapping: no property here tells
  ciphertexts apart. Keys matter only where they are missing or stale. Families and
  formats of answers are sets of values in `FormFiller`.
* Result listing and export only read; so does `resume_session`, and what the page makes of
  its answer is in `RespondPage` (`Resume`). `record_question_viewed` only inserts an analytics row.
* A second tab that is open on the same session at the same time; a page that is loaded while another
  one is left with calls under way is modelled (`Reload`). The resolution of the link before the
  form appears only reads, verification apart.
* That a respondent empties an answer is modelled (`ContinueEmpty`): nothing is
  sent, the stored answer survives. So does the answer to a question that a
  changed answer has taken off the path. No text of the page promises otherwise,
  so no property is stated.
* That a deletion interrupted between its commits can never be repeated is no property of a run but
  a theorem (`InterruptedDeletionStays`); the repository documents the limit.
* Expiry of recognition tokens (a revocation without a new token, after a year) and
  the subject's display code. Creating, updating and deleting participants, surveys
  (with their default response store) and links: each is one local transaction on one
  row, and a start that is under way may finish on what it has read.
* Invitations: accepting, declining and revoking race for one status; the later
  write wins, and nothing that follows reads the status again.
* Rotation of linkage keys as such: what a new version does to starts is the early commit, which
  `SessionStart` has for one version and `SubjectResolution` for any start;
  `get_linkage_key_by_version` reads an immutable secret.
* The single-flight loading of `LockedTTLCache` protects threads; a worker is one
  synchronous thread, so nothing here can run two loads of a key at once. That
  entries are stale is modelled where they are used.
* Access control, accounts, schemas, e-mail, rate limits and infrastructure have
  no protocol between actors, or belong to external services. They, the tables of
  integrity errors, the OpenAPI description, settings, scripts, tests and the user
  interface make up most of the repository's lines; the specifications stand for
  the part in which order matters.

## 6. Plan

Done, each with its run and its proofs: `SessionStart` over
`AtomicStart`; `SubmissionSession` over `OpenSession`; `RespondPage` over
`OpenSession`; `SurveyPublishing` and `VersionContent` over `Publication`;
`SubjectResolution` over `Recognition`; `FormFiller` over `Questionnaire`.

What further development would take, in order of importance:

1. When `normalizeNode` or the compiled schema is repaired, `RespondentFollowsRules`
   moves from `RulesLost` to `Filling`; likewise the other three findings.
2. `RespondPage` over `FormFiller`, with answers that leave the path after they were
   stored, once the product says what should become of them.
3. Workers with threads (gunicorn's `gthread`), if they are ever configured: then
   `LockedTTLCache` needs a module, and every `pc` of a worker becomes one of a thread.
