---------------------------- MODULE SessionStart ----------------------------
(***************************************************************************)
(* Starting a respondent submission session across two databases.          *)
(*                                                                         *)
(* SessionStarter.start runs in one gunicorn worker and holds one          *)
(* transaction on the Core database and one on the Response database.      *)
(* Nothing makes the two commits atomic: the response envelope is          *)
(* committed first, the core row second, and a failed core commit is       *)
(* compensated by deleting the envelope.  A separate job looks for core    *)
(* sessions without an envelope.                                           *)
(*                                                                         *)
(* A worker is a synchronous process: it serves one request at a time and  *)
(* has caches of its own.  A member of Sessions is one attempt to start,   *)
(* named by the session id it would create.                                *)
(***************************************************************************)
EXTENDS FiniteSets, Integers

CONSTANTS
    Workers,      \* gunicorn worker processes
    Sessions,     \* session ids, one for each attempt to start
    Links,        \* survey links
    SingleUse,    \* the links assigned to a participant
    NoLink,       \* entry by public slug
    NoSession,    \* the worker serves no request
    LostAcks      \* may a COMMIT take effect and still be reported as failed?

ASSUME StartAssumption ==
    /\ IsFiniteSet(Workers)
    /\ SingleUse \subseteq Links
    /\ NoLink \notin Links
    /\ NoSession \notin Sessions
    /\ LostAcks \in BOOLEAN

VARIABLES
    pc,           \* where each worker is in SessionStarter.start
    serving,      \* the attempt each worker serves
    link,         \* the link of each attempt (submission_sessions.link_id)
    outcome,      \* what became of each attempt, seen from the browser
    status,       \* committed core rows: submission_sessions.session_status
    used,         \* committed core rows: single-use links with used_at set
    subjects,     \* attempts whose subject, identity and token rows are committed
    versionRow,   \* is the current linkage_key_versions row committed?
    keyCached,    \* workers whose cache holds the current linkage key
    envelopes,    \* committed response rows: response_envelopes
    job, todo, marks  \* the reconciliation job: phase, rows to check, uncommitted marks

coreVars   == <<status, used, subjects, versionRow>>
jobVars    == <<job, todo, marks>>
workerVars == <<pc, serving, link, outcome, keyCached>>
vars       == <<workerVars, coreVars, envelopes, jobVars>>

Steps == {"idle", "resolved", "identified", "ensuring", "keyed", "created",
          "consumed", "enveloped", "cleanup", "reporting", "committed"}

Outcomes == {"none", "running", "returned", "failed", "lost"}

TypeOK ==
    /\ pc \in [Workers -> Steps]
    /\ serving \in [Workers -> Sessions \cup {NoSession}]
    /\ link \in [Sessions -> Links \cup {NoLink}]
    /\ outcome \in [Sessions -> Outcomes]
    /\ status \in [Sessions -> {"absent", "in_progress", "abandoned"}]
    /\ used \subseteq SingleUse
    /\ subjects \subseteq Sessions
    /\ versionRow \in BOOLEAN
    /\ keyCached \subseteq Workers
    /\ envelopes \subseteq Sessions
    /\ job \in {"idle", "checking"}
    /\ todo \subseteq Sessions
    /\ marks \subseteq Sessions

Init ==
    /\ pc = [w \in Workers |-> "idle"]
    /\ serving = [w \in Workers |-> NoSession]
    /\ link = [s \in Sessions |-> NoLink]
    /\ outcome = [s \in Sessions |-> "none"]
    /\ status = [s \in Sessions |-> "absent"]
    /\ used = {}
    /\ subjects = {}
    /\ versionRow \in BOOLEAN
    /\ keyCached = {}
    /\ envelopes = {}
    /\ job = "idle"
    /\ todo = {}
    /\ marks = {}

-----------------------------------------------------------------------------
(* Control of one request. *)

\* The worker goes on to the next step of SessionStarter.start.
Goto(w, step) ==
    /\ pc' = [pc EXCEPT ![w] = step]
    /\ UNCHANGED <<serving, outcome>>

\* The request ends.  Tearing it down closes both database sessions, so what
\* the core transaction still holds uncommitted is gone with it.
EndRequest(w, how) ==
    /\ outcome' = [outcome EXCEPT ![serving[w]] = how]
    /\ pc' = [pc EXCEPT ![w] = "idle"]
    /\ serving' = [serving EXCEPT ![w] = NoSession]

\* Mutant: the lock is taken already when the session row is created.
HoldsLinkFromCreation(w, l) ==
    /\ pc[w] \in {"created", "consumed", "enveloped"}
    /\ link[serving[w]] = l

\* The UPDATE of used_at is flushed and its transaction has not ended: the
\* worker holds the row lock of its link.
HoldsLink(w, l) ==
    /\ pc[w] \in {"consumed", "enveloped"}
    /\ link[serving[w]] = l

-----------------------------------------------------------------------------
(* The steps of SessionStarter.start, in the order of the code. *)

\* Mutant: ensure_not_used is not called.
ResolveAccessUnchecked(w, s, l) ==
    /\ pc[w] = "idle"
    /\ outcome[s] = "none"
    /\ pc' = [pc EXCEPT ![w] = "resolved"]
    /\ serving' = [serving EXCEPT ![w] = s]
    /\ link' = [link EXCEPT ![s] = l]
    /\ outcome' = [outcome EXCEPT ![s] = "running"]
    /\ UNCHANGED <<keyCached, coreVars, envelopes, jobVars>>

\* AccessResolver.resolve: a plain SELECT of the link, with no row lock, and
\* the check that a single-use link has no used_at.
ResolveAccess(w, s, l) ==
    /\ pc[w] = "idle"
    /\ outcome[s] = "none"
    /\ l \notin used
    /\ pc' = [pc EXCEPT ![w] = "resolved"]
    /\ serving' = [serving EXCEPT ![w] = s]
    /\ link' = [link EXCEPT ![s] = l]
    /\ outcome' = [outcome EXCEPT ![s] = "running"]
    /\ UNCHANGED <<keyCached, coreVars, envelopes, jobVars>>

\* SessionSubjectService.resolve_for_session_start: the subject, identity and
\* token rows are flushed, not committed.
ResolveSubject(w) ==
    /\ pc[w] = "resolved"
    /\ Goto(w, "identified")
    /\ UNCHANGED <<link, keyCached, coreVars, envelopes, jobVars>>

\* get_current_linkage_key, cache hit.
CachedLinkageKey(w) ==
    /\ pc[w] = "identified"
    /\ w \in keyCached
    /\ Goto(w, "keyed")
    /\ UNCHANGED <<link, keyCached, coreVars, envelopes, jobVars>>

\* get_current_linkage_key, cache miss: the secret is fetched and cached, and
\* only then is the version row looked up.
FetchLinkageKey(w) ==
    /\ pc[w] = "identified"
    /\ w \notin keyCached
    /\ keyCached' = keyCached \cup {w}
    /\ Goto(w, IF versionRow THEN "keyed" ELSE "ensuring")
    /\ UNCHANGED <<link, coreVars, envelopes, jobVars>>

\* Mutant: the row is inserted with ON CONFLICT DO NOTHING, then committed.
EnsureVersionRowUpsert(w) ==
    /\ pc[w] = "ensuring"
    /\ versionRow' = TRUE
    /\ subjects' = subjects \cup {serving[w]}
    /\ Goto(w, "keyed")
    /\ UNCHANGED <<link, keyCached, status, used, envelopes, jobVars>>

\* _ensure_version_row: insert the missing row and COMMIT the transaction of
\* the request, with the subject writes that it already holds.
EnsureVersionRow(w) ==
    /\ pc[w] = "ensuring"
    /\ ~versionRow
    /\ versionRow' = TRUE
    /\ subjects' = subjects \cup {serving[w]}
    /\ Goto(w, "keyed")
    /\ UNCHANGED <<link, keyCached, status, used, envelopes, jobVars>>

\* The same commit takes effect, but the worker saw an error.
EnsureVersionRowAckLost(w) ==
    /\ LostAcks
    /\ pc[w] = "ensuring"
    /\ ~versionRow
    /\ versionRow' = TRUE
    /\ subjects' = subjects \cup {serving[w]}
    /\ EndRequest(w, "failed")
    /\ UNCHANGED <<link, keyCached, status, used, envelopes, jobVars>>

\* The same insert after another worker made the row: a unique violation, the
\* transaction rolls back and the request fails.
VersionRowConflict(w) ==
    /\ pc[w] = "ensuring"
    /\ versionRow
    /\ EndRequest(w, "failed")
    /\ UNCHANGED <<link, keyCached, coreVars, envelopes, jobVars>>

\* create_session: the core row is flushed; its linkage_key_version is a
\* foreign key, so the row of the version must be there.
CreateSession(w) ==
    /\ pc[w] = "keyed"
    /\ versionRow
    /\ Goto(w, "created")
    /\ UNCHANGED <<link, keyCached, coreVars, envelopes, jobVars>>

CreateSessionRejected(w) ==
    /\ pc[w] = "keyed"
    /\ ~versionRow
    /\ EndRequest(w, "failed")
    /\ UNCHANGED <<link, keyCached, coreVars, envelopes, jobVars>>

\* Mutant: the consumption of the link is committed by itself.
ConsumeLinkCommitted(w) ==
    /\ pc[w] = "created"
    /\ used' = used \cup ({link[serving[w]]} \cap SingleUse)
    /\ Goto(w, "consumed")
    /\ UNCHANGED <<link, keyCached, status, subjects, versionRow, envelopes, jobVars>>

\* _consume_single_use_link_if_needed: UPDATE ... SET used_at, keyed by the
\* id alone.  It waits for the row lock and does not look at used_at again.
ConsumeLink(w) ==
    /\ pc[w] = "created"
    /\ \/ link[serving[w]] \notin SingleUse
       \/ \A v \in Workers : ~HoldsLink(v, link[serving[w]])
    /\ Goto(w, "consumed")
    /\ UNCHANGED <<link, keyCached, coreVars, envelopes, jobVars>>

\* _create_response_envelope: the envelope is inserted and committed while
\* the core rows are still uncommitted.
CreateEnvelope(w) ==
    /\ pc[w] = "consumed"
    /\ envelopes' = envelopes \cup {serving[w]}
    /\ Goto(w, "enveloped")
    /\ UNCHANGED <<link, keyCached, coreVars, jobVars>>

\* The response commit took effect but the worker saw an error: it rolls the
\* core transaction back and does not delete the envelope.
EnvelopeAckLost(w) ==
    /\ LostAcks
    /\ pc[w] = "consumed"
    /\ envelopes' = envelopes \cup {serving[w]}
    /\ EndRequest(w, "failed")
    /\ UNCHANGED <<link, keyCached, coreVars, jobVars>>

\* Mutant: mark_used is called for every link.
PublishCoreAnyLink(s) ==
    /\ status' = [status EXCEPT ![s] = "in_progress"]
    /\ used' = used \cup {link[s]}
    /\ subjects' = subjects \cup {s}

\* What the core commit publishes: the session row, the link's used_at and
\* the subject rows, together.
PublishCore(s) ==
    /\ status' = [status EXCEPT ![s] = "in_progress"]
    /\ used' = used \cup ({link[s]} \cap SingleUse)
    /\ subjects' = subjects \cup {s}

\* Mutant: Core may be committed before the response envelope.
CommitCoreFirst(w) ==
    /\ pc[w] \in {"consumed", "enveloped"}
    /\ PublishCore(serving[w])
    /\ Goto(w, "committed")
    /\ UNCHANGED <<link, keyCached, versionRow, envelopes, jobVars>>

CommitCore(w) ==
    /\ pc[w] = "enveloped"
    /\ PublishCore(serving[w])
    /\ Goto(w, "committed")
    /\ UNCHANGED <<link, keyCached, versionRow, envelopes, jobVars>>

\* Mutant: the error of the commit is swallowed.
CommitCoreFailsSilently(w) ==
    /\ pc[w] = "enveloped"
    /\ Goto(w, "committed")
    /\ UNCHANGED <<link, keyCached, coreVars, envelopes, jobVars>>

\* The core commit failed and the transaction is rolled back.
CommitCoreFails(w) ==
    /\ pc[w] = "enveloped"
    /\ Goto(w, "cleanup")
    /\ UNCHANGED <<link, keyCached, coreVars, envelopes, jobVars>>

\* The core commit took effect but the worker saw an error.
CommitCoreAckLost(w) ==
    /\ LostAcks
    /\ pc[w] = "enveloped"
    /\ PublishCore(serving[w])
    /\ Goto(w, "cleanup")
    /\ UNCHANGED <<link, keyCached, versionRow, envelopes, jobVars>>

\* The compensating delete of the envelope is committed; whether the worker is
\* told so makes no difference to what it does next.
CleanUpEnvelope(w) ==
    /\ pc[w] = "cleanup"
    /\ envelopes' = envelopes \ {serving[w]}
    /\ Goto(w, "reporting")
    /\ UNCHANGED <<link, keyCached, coreVars, jobVars>>

\* The compensation itself fails: it is logged, the envelope stays.
CleanUpFails(w) ==
    /\ pc[w] = "cleanup"
    /\ Goto(w, "reporting")
    /\ UNCHANGED <<link, keyCached, coreVars, envelopes, jobVars>>

\* SessionStartError, whichever way the compensation went.
ReportFailure(w) ==
    /\ pc[w] = "reporting"
    /\ EndRequest(w, "failed")
    /\ UNCHANGED <<link, keyCached, coreVars, envelopes, jobVars>>

\* The tokens are returned to the browser.
ReturnTokens(w) ==
    /\ pc[w] = "committed"
    /\ EndRequest(w, "returned")
    /\ UNCHANGED <<link, keyCached, coreVars, envelopes, jobVars>>

\* Any other exception before the response commit: AWS or KMS unavailable, a
\* flush that fails, the envelope insert that fails.
StartFails(w) ==
    /\ pc[w] \in {"resolved", "identified", "ensuring", "keyed", "created", "consumed"}
    /\ EndRequest(w, "failed")
    /\ UNCHANGED <<link, keyCached, coreVars, envelopes, jobVars>>

\* The worker dies (gunicorn kills it after its timeout, or the host stops):
\* nobody answers the browser and the new process has empty caches.
WorkerDies(w) ==
    /\ pc[w] # "idle"
    /\ EndRequest(w, "lost")
    /\ keyCached' = keyCached \ {w}
    /\ UNCHANGED <<link, coreVars, envelopes, jobVars>>

\* The linkage key leaves the worker's cache (TTL).
LinkageKeyExpires(w) ==
    /\ pc[w] = "idle"
    /\ w \in keyCached
    /\ keyCached' = keyCached \ {w}
    /\ UNCHANGED <<pc, serving, link, outcome, coreVars, envelopes, jobVars>>

-----------------------------------------------------------------------------
(* reconcile_orphaned_sessions: one scan, a check of each scanned session,  *)
(* one commit.  No start holds a lock that the job would wait for.          *)

ReconcileScan ==
    /\ job = "idle"
    /\ job' = "checking"
    /\ todo' = {s \in Sessions : status[s] = "in_progress"}
    /\ marks' = {}
    /\ UNCHANGED <<workerVars, coreVars, envelopes>>

\* Mutant: the envelope found is not skipped.
ReconcileCheckAll(s) ==
    /\ job = "checking"
    /\ s \in todo
    /\ todo' = todo \ {s}
    /\ marks' = marks \cup {s}
    /\ UNCHANGED <<job, workerVars, coreVars, envelopes>>

\* A check that raises is counted and skipped; the session stays as it is.
ReconcileCheck(s) ==
    /\ job = "checking"
    /\ s \in todo
    /\ todo' = todo \ {s}
    /\ marks' \in {marks, IF s \in envelopes THEN marks ELSE marks \cup {s}}
    /\ UNCHANGED <<job, workerVars, coreVars, envelopes>>

ReconcileCommit ==
    /\ job = "checking"
    /\ todo = {}
    /\ status' = [s \in Sessions |-> IF s \in marks THEN "abandoned" ELSE status[s]]
    /\ job' = "idle"
    /\ marks' = {}
    /\ UNCHANGED <<todo, workerVars, used, subjects, versionRow, envelopes>>

\* The job dies, or its commit fails: the marks are rolled back.
ReconcileDies ==
    /\ job = "checking"
    /\ job' = "idle"
    /\ todo' = {}
    /\ marks' = {}
    /\ UNCHANGED <<workerVars, coreVars, envelopes>>

-----------------------------------------------------------------------------
StartStep(w) ==
    \/ ResolveSubject(w)
    \/ CachedLinkageKey(w)
    \/ FetchLinkageKey(w)
    \/ EnsureVersionRow(w)
    \/ EnsureVersionRowAckLost(w)
    \/ VersionRowConflict(w)
    \/ CreateSession(w)
    \/ CreateSessionRejected(w)
    \/ ConsumeLink(w)
    \/ CreateEnvelope(w)
    \/ EnvelopeAckLost(w)
    \/ CommitCore(w)
    \/ CommitCoreFails(w)
    \/ CommitCoreAckLost(w)
    \/ CleanUpEnvelope(w)
    \/ CleanUpFails(w)
    \/ ReportFailure(w)
    \/ ReturnTokens(w)

Reconcile ==
    \/ ReconcileScan
    \/ \E s \in Sessions : ReconcileCheck(s)
    \/ ReconcileCommit
    \/ ReconcileDies

Next ==
    \/ \E w \in Workers, s \in Sessions, l \in Links \cup {NoLink} : ResolveAccess(w, s, l)
    \/ \E w \in Workers : StartStep(w) \/ StartFails(w) \/ WorkerDies(w) \/ LinkageKeyExpires(w)
    \/ Reconcile

Spec == Init /\ [][Next]_vars

\* A worker that serves a request keeps executing it: the handler waits for
\* nothing but the row lock of the link, which the holder's transaction ends.
\* Failures and deaths are not promised.
FairSpec == Spec /\ \A w \in Workers : WF_vars(StartStep(w))

-----------------------------------------------------------------------------
(* Properties *)

\* A session that can be resumed and answered: its core row is in progress and
\* its envelope is there.
Usable == {s \in envelopes : status[s] = "in_progress"}

\* Tokens are given to the browser only for a session that both databases
\* hold, and neither a cleanup nor the reconciliation job takes one of the two
\* rows away afterwards (session_starter.py, reconciliation.py).
ReturnedSessionUsable ==
    \A s \in Sessions : outcome[s] = "returned" => s \in Usable

\* The browser was never given the session that the worker serves, and never will
\* be: the start has been reported as failed, or its worker died, or all that is
\* left to do is to report the failure.
NeverReturned(s) ==
    \/ outcome[s] \in {"failed", "lost"}
    \/ \E w \in Workers : serving[w] = s /\ pc[w] = "reporting"

\* The reconciliation job, whose scan, checks and commit interleave with starts
\* that are half done, abandons only sessions whose envelope is gone and whose
\* tokens nobody has or will get (reconciliation.py, session_starter.py).
OnlyUndoneStartsAbandoned ==
    \A s \in Sessions :
        status[s] = "abandoned" => s \notin envelopes /\ NeverReturned(s)

\* Between the check of used_at and the UPDATE of it there is no lock, so a
\* single-use link can start more than one session; but never more than there
\* are workers, for once one start has committed no later one is admitted.
SessionsPerLinkBounded ==
    \A l \in SingleUse :
        Cardinality({s \in Sessions : link[s] = l /\ status[s] # "absent"})
            <= Cardinality(Workers)

\* A single-use link is consumed only by a start that left a usable session,
\* whatever failed or died on the way (commit order, compensation, job).
ConsumedLinkHasUsableSession ==
    \A l \in used : \E s \in Usable : link[s] = l

\* _ensure_version_row commits the request's transaction before the session is
\* created.  That leaves subject rows of at most one attempt without a session
\* behind, because only the first start of a linkage key version does it.
AtMostOneSubjectWithoutSession ==
    Cardinality({s \in subjects : status[s] = "absent"}) <= 1

\* Every start is answered, or its worker died: the waits for the link's row
\* lock do not go round in a circle.
StartEnds == \A s \in Sessions : outcome[s] = "running" ~> outcome[s] # "running"

\* A start implements the atomic start: however the two commits, the
\* compensation, the job and the deaths of workers interleave, the attempt
\* takes effect at once or not at all, and what it reports is true.
Atomic == INSTANCE AtomicStart WITH usable <- Usable, consumed <- used,
                               via <- link, told <- outcome

StartIsAtomic == Atomic!Spec
=============================================================================
