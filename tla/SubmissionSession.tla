------------------------- MODULE SubmissionSession -------------------------
(***************************************************************************)
(* The life of established respondent sessions: answers are saved, the     *)
(* session is completed, an administrator deletes it, the reconciliation   *)
(* job abandons it.                                                        *)
(*                                                                         *)
(* The session row and the answer slots are in the Core database, the      *)
(* envelope and the answers in the Response database.  The commands of one *)
(* session are ordered by SELECT ... FOR UPDATE of its core row, but an    *)
(* answer is written after that lock was released, and a worker that has   *)
(* the session's write context cached starts a command without reading the *)
(* row at all.                                                             *)
(*                                                                         *)
(* Answers are known only as present or absent, a completion by the        *)
(* session_completed event that its transaction inserts.                   *)
(***************************************************************************)
EXTENDS FiniteSets, Integers

CONSTANTS
    Workers,      \* gunicorn worker processes
    Sessions,     \* sessions whose start was committed in Core
    Questions,    \* question nodes of the frozen survey version
    NoRequest     \* the worker serves no request

VARIABLES
    \* Core
    status,       \* submission_sessions.session_status, or "deleted"
    slots,        \* submission_answer_slots
    completions,  \* session_completed events of each session
    \* Response
    envelopes,    \* response_envelopes
    answers,      \* response_answers, as pairs of session and question
    \* Workers
    pc, req,      \* step and request of each worker
    held,         \* status in the identity map of the request's Core session
    contexts,     \* each worker's write-context cache
    \* Administrator and job
    erasing,      \* deletions that have erased the response data
    job, todo, marks,  \* reconciliation: phase, rows to check, uncommitted marks
    \* Environment
    expired       \* sessions whose expires_at has passed

coreVars     == <<status, slots, completions>>
responseVars == <<envelopes, answers>>
workerVars   == <<pc, req, held, contexts>>
jobVars      == <<job, todo, marks>>
vars == <<coreVars, responseVars, workerVars, erasing, jobVars, expired>>

Requests ==
    [kind : {"save"}, session : Sessions, question : Questions]
        \cup [kind : {"complete"}, session : Sessions]

ASSUME SessionAssumption == IsFiniteSet(Workers) /\ NoRequest \notin Requests

Steps == {"idle", "reading", "loaded", "locked", "slotted", "saved",
          "marked", "evented", "rolledback", "committed"}

TypeOK ==
    /\ status \in [Sessions -> {"in_progress", "completed", "abandoned", "deleted"}]
    /\ slots \subseteq Sessions \X Questions
    /\ completions \in [Sessions -> Nat]
    /\ envelopes \subseteq Sessions
    /\ answers \subseteq Sessions \X Questions
    /\ pc \in [Workers -> Steps]
    /\ req \in [Workers -> Requests \cup {NoRequest}]
    /\ held \in [Workers -> {"nothing", "in_progress", "completed"}]
    /\ contexts \in [Workers -> SUBSET Sessions]
    /\ erasing \subseteq Sessions
    /\ job \in {"idle", "checking"}
    /\ todo \subseteq Sessions
    /\ marks \subseteq Sessions
    /\ expired \subseteq Sessions

\* A start leaves a session in progress; its envelope is missing when the core
\* commit took effect without being acknowledged (see SessionStart).
Init ==
    /\ status = [s \in Sessions |-> "in_progress"]
    /\ slots = {}
    /\ completions = [s \in Sessions |-> 0]
    /\ envelopes \in SUBSET Sessions
    /\ answers = {}
    /\ pc = [w \in Workers |-> "idle"]
    /\ req = [w \in Workers |-> NoRequest]
    /\ held = [w \in Workers |-> "nothing"]
    /\ contexts = [w \in Workers |-> {}]
    /\ erasing = {}
    /\ job = "idle"
    /\ todo = {}
    /\ marks = {}
    /\ expired = {}

-----------------------------------------------------------------------------
(* Requests and row locks *)

Goto(w, step) ==
    /\ pc' = [pc EXCEPT ![w] = step]
    /\ UNCHANGED req

\* The request ends and its Core session, with the identity map, is closed.
EndRequest(w) ==
    /\ pc' = [pc EXCEPT ![w] = "idle"]
    /\ req' = [req EXCEPT ![w] = NoRequest]
    /\ held' = [held EXCEPT ![w] = "nothing"]

\* Steps between SELECT ... FOR UPDATE and the end of that transaction.
Locking == {"locked", "marked", "evented"}

\* Mutant: the row is read without FOR UPDATE; only its UPDATE locks it.
HoldsRowOnceMarked(w, s) == pc[w] \in {"marked", "evented"} /\ req[w].session = s

HoldsRow(w, s) == pc[w] \in Locking /\ req[w].session = s

\* FOR UPDATE, UPDATE and DELETE wait for the holder of the row and for the
\* job, whose uncommitted marks are row locks as well.
RowFree(s) == s \notin marks /\ \A v \in Workers : ~HoldsRow(v, s)

-----------------------------------------------------------------------------
(* load_current_session *)

\* A cached, unexpired context: the command goes on without reading the row.
LoadCached(w, r) ==
    /\ pc[w] = "idle"
    /\ r.session \in contexts[w]
    /\ r.session \notin expired
    /\ pc' = [pc EXCEPT ![w] = "loaded"]
    /\ req' = [req EXCEPT ![w] = r]
    /\ UNCHANGED <<coreVars, responseVars, held, contexts, erasing, jobVars, expired>>

\* A cached context of an expired session is evicted and the command refused.
LoadCachedExpired(w, r) ==
    /\ pc[w] = "idle"
    /\ r.session \in contexts[w]
    /\ r.session \in expired
    /\ contexts' = [contexts EXCEPT ![w] = @ \ {r.session}]
    /\ UNCHANGED <<coreVars, responseVars, pc, req, held, erasing, jobVars, expired>>

\* Mutant: the state of the row is not checked.
ReadRowAnyStatus(w, r) ==
    /\ pc[w] = "idle"
    /\ r.session \notin contexts[w] \cup expired
    /\ pc' = [pc EXCEPT ![w] = "reading"]
    /\ req' = [req EXCEPT ![w] = r]
    /\ held' = [held EXCEPT ![w] = status[r.session]]
    /\ UNCHANGED <<coreVars, responseVars, contexts, erasing, jobVars, expired>>

\* A cache miss: the row is read and its state checked; only a completion
\* allows a completed session at this point.
ReadRow(w, r) ==
    /\ pc[w] = "idle"
    /\ r.session \notin contexts[w] \cup expired
    /\ \/ status[r.session] = "in_progress"
       \/ status[r.session] = "completed" /\ r.kind = "complete"
    /\ pc' = [pc EXCEPT ![w] = "reading"]
    /\ req' = [req EXCEPT ![w] = r]
    /\ held' = [held EXCEPT ![w] = status[r.session]]
    /\ UNCHANGED <<coreVars, responseVars, contexts, erasing, jobVars, expired>>

\* build_session_context: the envelope is found and the context cached.  When
\* the session DEK is not cached, the lazy resolver in the context keeps the
\* row object alive, and with it the status that was read; otherwise the
\* object is dropped from the (weak) identity map.
ReadEnvelope(w) ==
    /\ pc[w] = "reading"
    /\ req[w].session \in envelopes
    /\ contexts' = [contexts EXCEPT ![w] = @ \cup {req[w].session}]
    /\ held' \in {held, [held EXCEPT ![w] = "nothing"]}
    /\ Goto(w, "loaded")
    /\ UNCHANGED <<coreVars, responseVars, erasing, jobVars, expired>>

EnvelopeNotFound(w) ==
    /\ pc[w] = "reading"
    /\ req[w].session \notin envelopes
    /\ EndRequest(w)
    /\ UNCHANGED <<coreVars, responseVars, contexts, erasing, jobVars, expired>>

-----------------------------------------------------------------------------
(* save_answer and complete_session *)

\* What lock_for_update returns: the row as it is now, but an object that is
\* already in the identity map keeps the status it was read with.
LockedStatus(w) ==
    LET s == req[w].session
    IN  IF status[s] = "deleted" \/ held[w] = "nothing" THEN status[s] ELSE held[w]

\* Mutant: the status is not checked again under the lock.
LockForUpdateAnyStatus(w) ==
    /\ pc[w] = "loaded"
    /\ RowFree(req[w].session)
    /\ LockedStatus(w) # "deleted"
    /\ Goto(w, "locked")
    /\ UNCHANGED <<coreVars, responseVars, held, contexts, erasing, jobVars, expired>>

LockForUpdate(w) ==
    /\ pc[w] = "loaded"
    /\ RowFree(req[w].session)
    /\ LockedStatus(w) = "in_progress"
    /\ Goto(w, "locked")
    /\ UNCHANGED <<coreVars, responseVars, held, contexts, erasing, jobVars, expired>>

\* The session disappeared or is no longer in progress.
LockRefused(w) ==
    /\ pc[w] = "loaded"
    /\ RowFree(req[w].session)
    /\ LockedStatus(w) # "in_progress"
    /\ EndRequest(w)
    /\ UNCHANGED <<coreVars, responseVars, contexts, erasing, jobVars, expired>>

\* The slot is found or created and Core is committed, which releases the row.
SaveSlot(w) ==
    /\ pc[w] = "locked"
    /\ req[w].kind = "save"
    /\ slots' = slots \cup {<<req[w].session, req[w].question>>}
    /\ Goto(w, "slotted")
    /\ UNCHANGED <<status, completions, responseVars, held, contexts, erasing, jobVars, expired>>

\* Mutant: the answer is committed before the slot.
SaveUpsertFirst(w) ==
    /\ pc[w] = "locked"
    /\ req[w].kind = "save"
    /\ req[w].session \in envelopes
    /\ answers' = answers \cup {<<req[w].session, req[w].question>>}
    /\ Goto(w, "saved")
    /\ UNCHANGED <<coreVars, envelopes, held, contexts, erasing, jobVars, expired>>

\* upsert_current and the response commit.
SaveUpsert(w) ==
    /\ pc[w] = "slotted"
    /\ req[w].session \in envelopes
    /\ answers' = answers \cup {<<req[w].session, req[w].question>>}
    /\ Goto(w, "saved")
    /\ UNCHANGED <<coreVars, envelopes, held, contexts, erasing, jobVars, expired>>

\* The envelope is gone: the foreign key of the answer is violated.
SaveOrphaned(w) ==
    /\ pc[w] = "slotted"
    /\ req[w].session \notin envelopes
    /\ EndRequest(w)
    /\ UNCHANGED <<coreVars, responseVars, contexts, erasing, jobVars, expired>>

\* record_event, best effort: its foreign key shares the session row, so it
\* waits for a FOR UPDATE lock of it.  Then the answer is acknowledged.
SaveReturn(w) ==
    /\ pc[w] = "saved"
    /\ \A v \in Workers : ~HoldsRow(v, req[w].session)
    /\ EndRequest(w)
    /\ UNCHANGED <<coreVars, responseVars, contexts, erasing, jobVars, expired>>

\* mark_completed, flushed.
CompleteMark(w) ==
    /\ pc[w] = "locked"
    /\ req[w].kind = "complete"
    /\ Goto(w, "marked")
    /\ UNCHANGED <<coreVars, responseVars, held, contexts, erasing, jobVars, expired>>

CompleteEvent(w) ==
    /\ pc[w] = "marked"
    /\ Goto(w, "evented")
    /\ UNCHANGED <<coreVars, responseVars, held, contexts, erasing, jobVars, expired>>

\* The flush of the event fails: flush_with_err_handle rolls the transaction
\* back, mark and lock included, and complete_session swallows the error.
CompleteEventFails(w) ==
    /\ pc[w] = "marked"
    /\ Goto(w, "rolledback")
    /\ UNCHANGED <<coreVars, responseVars, held, contexts, erasing, jobVars, expired>>

CompleteCommit(w) ==
    LET s == req[w].session IN
    /\ pc[w] = "evented"
    /\ status' = [status EXCEPT ![s] = "completed"]
    /\ completions' = [completions EXCEPT ![s] = @ + 1]
    /\ Goto(w, "committed")
    /\ UNCHANGED <<slots, responseVars, held, contexts, erasing, jobVars, expired>>

\* The commit (of nothing, after a rollback) has returned: the context is
\* evicted from this worker's cache and the browser told.
CompleteReturn(w) ==
    /\ pc[w] \in {"committed", "rolledback"}
    /\ contexts' = [contexts EXCEPT ![w] = @ \ {req[w].session}]
    /\ EndRequest(w)
    /\ UNCHANGED <<coreVars, responseVars, erasing, jobVars, expired>>

\* Any other error ends the request and rolls back what it has not committed:
\* a question that is not in the version, an invalid value, KMS, a database.
RequestFails(w) ==
    /\ pc[w] \in {"reading", "loaded", "locked", "slotted", "marked", "evented"}
    /\ EndRequest(w)
    /\ UNCHANGED <<coreVars, responseVars, contexts, erasing, jobVars, expired>>

\* The worker dies; the process that replaces it has empty caches.
WorkerDies(w) ==
    /\ pc[w] # "idle"
    /\ contexts' = [contexts EXCEPT ![w] = {}]
    /\ EndRequest(w)
    /\ UNCHANGED <<coreVars, responseVars, erasing, jobVars, expired>>

ContextExpires(w, s) ==
    /\ pc[w] = "idle"
    /\ s \in contexts[w]
    /\ contexts' = [contexts EXCEPT ![w] = @ \ {s}]
    /\ UNCHANGED <<coreVars, responseVars, pc, req, held, erasing, jobVars, expired>>

SessionExpires(s) ==
    /\ s \notin expired
    /\ expired' = expired \cup {s}
    /\ UNCHANGED <<coreVars, responseVars, workerVars, erasing, jobVars>>

-----------------------------------------------------------------------------
(* delete_session of the results service: response data first. *)

\* The envelope is deleted and committed; its answers go with it by cascade.
DeleteResponse(s) ==
    /\ status[s] # "deleted"
    /\ s \in envelopes
    /\ envelopes' = envelopes \ {s}
    /\ answers' = {a \in answers : a[1] # s}
    /\ erasing' = erasing \cup {s}
    /\ UNCHANGED <<coreVars, workerVars, jobVars, expired>>

\* The core row is deleted and committed, its slots and events by cascade.
DeleteCore(s) ==
    /\ s \in erasing
    /\ RowFree(s)
    /\ status' = [status EXCEPT ![s] = "deleted"]
    /\ slots' = {a \in slots : a[1] # s}
    /\ completions' = [completions EXCEPT ![s] = 0]
    /\ erasing' = erasing \ {s}
    /\ UNCHANGED <<responseVars, workerVars, jobVars, expired>>

\* The deletion fails or dies between its commits.  Nothing remembers it, and
\* without an envelope it cannot be asked for again.
DeleteDies(s) ==
    /\ s \in erasing
    /\ erasing' = erasing \ {s}
    /\ UNCHANGED <<coreVars, responseVars, workerVars, jobVars, expired>>

-----------------------------------------------------------------------------
(* reconcile_orphaned_sessions: one transaction for all sessions. *)

ReconcileScan ==
    /\ job = "idle"
    /\ job' = "checking"
    /\ todo' = {s \in Sessions : status[s] = "in_progress"}
    /\ marks' = {}
    /\ UNCHANGED <<coreVars, responseVars, workerVars, erasing, expired>>

\* The envelope is there, or the check raises before anything is flushed.
ReconcileSkip(s) ==
    /\ job = "checking"
    /\ s \in todo
    /\ todo' = todo \ {s}
    /\ UNCHANGED <<coreVars, responseVars, workerVars, erasing, job, marks, expired>>

\* Mutants: the envelope is not looked for; the table has no CHECK.
ReconcileMarkAny(s) ==
    /\ job = "checking"
    /\ s \in todo
    /\ RowFree(s)
    /\ status[s] = "in_progress"
    /\ todo' = todo \ {s}
    /\ marks' = marks \cup {s}
    /\ UNCHANGED <<coreVars, responseVars, workerVars, erasing, job, expired>>

ReconcileMarkUnchecked(s) ==
    /\ job = "checking"
    /\ s \in todo
    /\ s \notin envelopes
    /\ RowFree(s)
    /\ todo' = todo \ {s}
    /\ marks' = marks \cup {s}
    /\ UNCHANGED <<coreVars, responseVars, workerVars, erasing, job, expired>>

\* No envelope: the row is marked abandoned, and stays locked.
ReconcileMark(s) ==
    /\ job = "checking"
    /\ s \in todo
    /\ s \notin envelopes
    /\ RowFree(s)
    /\ status[s] = "in_progress"
    /\ todo' = todo \ {s}
    /\ marks' = marks \cup {s}
    /\ UNCHANGED <<coreVars, responseVars, workerVars, erasing, job, expired>>

\* The row was completed after the scan: marking it violates the CHECK on
\* completed_at, and the rollback takes every earlier mark with it.
ReconcileMarkViolates(s) ==
    /\ job = "checking"
    /\ s \in todo
    /\ s \notin envelopes
    /\ RowFree(s)
    /\ status[s] = "completed"
    /\ todo' = todo \ {s}
    /\ marks' = {}
    /\ UNCHANGED <<coreVars, responseVars, workerVars, erasing, job, expired>>

\* Mutant: the connection goes back to the pool without a rollback.
ReconcileDiesLocked ==
    /\ job = "checking"
    /\ job' = "idle"
    /\ todo' = {}
    /\ UNCHANGED <<coreVars, responseVars, workerVars, erasing, marks, expired>>

\* The job ends without a commit: it died, or it came to a row deleted since
\* the scan, which its error handler does not survive.
ReconcileDies ==
    /\ job = "checking"
    /\ job' = "idle"
    /\ todo' = {}
    /\ marks' = {}
    /\ UNCHANGED <<coreVars, responseVars, workerVars, erasing, expired>>

ReconcileCommit ==
    /\ job = "checking"
    /\ todo = {}
    /\ status' = [s \in Sessions |-> IF s \in marks THEN "abandoned" ELSE status[s]]
    /\ job' = "idle"
    /\ marks' = {}
    /\ UNCHANGED <<slots, completions, responseVars, workerVars, erasing, todo, expired>>

-----------------------------------------------------------------------------
Arrive(w, r) == LoadCached(w, r) \/ LoadCachedExpired(w, r) \/ ReadRow(w, r)

\* Steps that wait for a row lock.
Wait(w) == LockForUpdate(w) \/ LockRefused(w) \/ SaveReturn(w)

Proceed(w) ==
    \/ ReadEnvelope(w)
    \/ EnvelopeNotFound(w)
    \/ SaveSlot(w)
    \/ SaveUpsert(w)
    \/ SaveOrphaned(w)
    \/ CompleteMark(w)
    \/ CompleteEvent(w)
    \/ CompleteEventFails(w)
    \/ CompleteCommit(w)
    \/ CompleteReturn(w)

Delete(s) == DeleteResponse(s) \/ DeleteCore(s) \/ DeleteDies(s)

ReconcileRow(s) == ReconcileSkip(s) \/ ReconcileMark(s) \/ ReconcileMarkViolates(s)

Next ==
    \/ \E w \in Workers, r \in Requests : Arrive(w, r)
    \/ \E w \in Workers : Wait(w) \/ Proceed(w) \/ RequestFails(w) \/ WorkerDies(w)
    \/ \E w \in Workers, s \in Sessions : ContextExpires(w, s)
    \/ \E s \in Sessions : SessionExpires(s) \/ Delete(s) \/ ReconcileRow(s)
    \/ ReconcileScan \/ ReconcileDies \/ ReconcileCommit

Spec == Init /\ [][Next]_vars

\* A worker executes its request to the end.  PostgreSQL grants a row lock in
\* the order of the requests for it, so a worker that waits is not overtaken
\* for ever; and the job, once it runs, comes to the end of its batch.
FairSpec ==
    /\ Spec
    /\ \A w \in Workers : WF_vars(Proceed(w)) /\ SF_vars(Wait(w))
    /\ \A s \in Sessions : WF_vars(ReconcileRow(s))
    /\ WF_vars(ReconcileCommit)

-----------------------------------------------------------------------------
(* Properties *)

\* Once a session is deleted nothing of it is left in either database, and no
\* save that was under way brings a slot or an answer back (delete_session and
\* save_answer interleaved).
ErasureIsComplete ==
    \A s \in Sessions : status[s] = "deleted" =>
        /\ s \notin envelopes
        /\ \A q \in Questions : <<s, q>> \notin slots \cup answers

\* An answer in the Response database can be found from Core: its slot is
\* there whatever failed between the two commits of a save or of a deletion.
AnswerHasSlot == answers \subseteq slots

\* An abandoned session holds no answers, and none is added to it later.
AbandonedHasNoAnswers ==
    \A s \in Sessions : status[s] = "abandoned" =>
        s \notin envelopes /\ \A q \in Questions : <<s, q>> \notin answers

\* A completed session leaves that state by deletion alone; the job, which may
\* have scanned it while it was in progress, does not abandon it.
CompletedStaysCompleted ==
    [][\A s \in Sessions : status[s] = "completed" => status'[s] \in {"completed", "deleted"}]_vars

\* A stale row object can complete a session once more, but only in a worker
\* that had read the row before the first completion.
CompletionsBounded == \A s \in Sessions : completions[s] <= Cardinality(Workers)

\* Unless it works on a stale row object, a worker between FOR UPDATE and its
\* commit can rely on the session being in progress: no other worker, no
\* deletion and not the job changes the row meanwhile.
LockKeepsInProgress ==
    \A w \in Workers :
        pc[w] \in Locking /\ held[w] = "nothing" => status[req[w].session] = "in_progress"

\* Every request ends: row locks are not waited for in a circle, and nobody
\* goes away with one.
RequestsEnd == \A w \in Workers : pc[w] # "idle" ~> pc[w] = "idle"

\* The request of a worker from the moment that its session was seen to be in
\* progress until it takes effect or is given up.
Admitted(w) ==
    \/ pc[w] \in Locking \cup {"slotted"}
    \/ pc[w] \in {"reading", "loaded"} /\ held[w] = "in_progress"

Open == INSTANCE OpenSession WITH
    state <- status,
    admitted <- [w \in Workers |-> IF Admitted(w) THEN req[w] ELSE NoRequest],
    erased <- Sessions \ envelopes

\* The commands implement OpenSession: with caches, stale row objects and an
\* answer written after the lock is released, still no command takes effect on
\* a session that was closed to it all the time.
CommandsFindSessionOpen == Open!Spec

\* As the comment in complete_session says, a failure of the event is not
\* fatal: when completion is reported the session is no longer in progress.
CompletionReportedIsDone ==
    \A w \in Workers :
        pc[w] \in {"committed", "rolledback"} => status[req[w].session] # "in_progress"
=============================================================================
