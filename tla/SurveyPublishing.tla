-------------------------- MODULE SurveyPublishing --------------------------
(***************************************************************************)
(* Publishing and archiving the versions of one survey, and the encryption *)
(* key that the first publication creates.                                 *)
(*                                                                         *)
(* A request reads the survey and the version without locks, decides from  *)
(* what it read, and then updates both rows one after the other in one     *)
(* READ COMMITTED transaction.  Row locks, two triggers and a partial      *)
(* unique index order such requests; some take the two rows in opposite    *)
(* orders.  The plaintext key goes into the worker's cache before its row  *)
(* is committed.                                                           *)
(*                                                                         *)
(* Of a key only its fate is known: pending in the transaction that minted *)
(* it, stored in the committed row, or lost with a rollback.               *)
(***************************************************************************)
EXTENDS FiniteSets, Integers

CONSTANTS
    Workers,      \* gunicorn worker processes
    Versions,     \* versions of the survey
    NoVersion,    \* the survey has no active version
    NoWorker,     \* the row is not locked
    NoRequest     \* the worker serves no request

VARIABLES
    \* Core
    status,        \* survey_versions.status
    active,        \* surveys.published_version_id
    keyRow,        \* is the row of survey_encryption_keys committed?
    publications,  \* committed publications of each version
    surveyLock,    \* the worker that updated the survey's row
    versionLock,   \* the worker that updated each version's row
    \* Workers
    pc, req,       \* step and request of each worker
    seen,          \* the active version that the request read
    victim,        \* the version that the request archives
    cache,         \* the key in each worker's survey_keys cache
    \* Response and history
    lostSessions,  \* is a session DEK wrapped with a lost key?
    failed         \* has a request failed otherwise than by a conflict?

coreVars   == <<status, active, keyRow, publications>>
lockVars   == <<surveyLock, versionLock>>
localVars  == <<req, seen, victim>>
vars == <<coreVars, lockVars, localVars, pc, cache, lostSessions, failed>>

Requests == [kind : {"publish", "archive"}, version : Versions]

ASSUME PublishAssumption ==
    /\ IsFiniteSet(Workers)
    /\ NoVersion \notin Versions
    /\ NoWorker \notin Workers
    /\ NoRequest \notin Requests

Steps == {"idle", "reading", "checked", "minting", "keyed", "detaching",
          "detached", "clearing", "cleared", "marked", "attached", "archived"}

TypeOK ==
    /\ status \in [Versions -> {"draft", "published", "archived"}]
    /\ active \in Versions \cup {NoVersion}
    /\ keyRow \in BOOLEAN
    /\ publications \in [Versions -> Nat]
    /\ surveyLock \in Workers \cup {NoWorker}
    /\ versionLock \in [Versions -> Workers \cup {NoWorker}]
    /\ pc \in [Workers -> Steps]
    /\ req \in [Workers -> Requests \cup {NoRequest}]
    /\ seen \in [Workers -> Versions \cup {NoVersion}]
    /\ victim \in [Workers -> Versions \cup {NoVersion}]
    /\ cache \in [Workers -> {"none", "pending", "stored", "lost"}]
    /\ lostSessions \in BOOLEAN
    /\ failed \in BOOLEAN
    /\ \A w \in Workers : pc[w] = "idle" =>
          req[w] = NoRequest /\ seen[w] = NoVersion /\ victim[w] = NoVersion

\* Versions are created as drafts, a survey without a key.
Init ==
    /\ status = [v \in Versions |-> "draft"]
    /\ active = NoVersion
    /\ keyRow = FALSE
    /\ publications = [v \in Versions |-> 0]
    /\ surveyLock = NoWorker
    /\ versionLock = [v \in Versions |-> NoWorker]
    /\ pc = [w \in Workers |-> "idle"]
    /\ req = [w \in Workers |-> NoRequest]
    /\ seen = [w \in Workers |-> NoVersion]
    /\ victim = [w \in Workers |-> NoVersion]
    /\ cache = [w \in Workers |-> "none"]
    /\ lostSessions = FALSE
    /\ failed = FALSE

-----------------------------------------------------------------------------
(* Transactions *)

Goto(w, step) == pc' = [pc EXCEPT ![w] = step]

Target(w) == req[w].version

\* Mutant: the Core session is not closed, its objects are still there.
EndRequestKeepsReads(w) ==
    /\ Goto(w, "idle")
    /\ req' = [req EXCEPT ![w] = NoRequest]
    /\ UNCHANGED <<seen, victim>>
    /\ surveyLock' = IF surveyLock = w THEN NoWorker ELSE surveyLock
    /\ versionLock' = [v \in Versions |-> IF versionLock[v] = w THEN NoWorker ELSE versionLock[v]]

\* Mutant: the connection returns to the pool with its transaction open.
EndRequestKeepsLocks(w) ==
    /\ Goto(w, "idle")
    /\ req' = [req EXCEPT ![w] = NoRequest]
    /\ seen' = [seen EXCEPT ![w] = NoVersion]
    /\ victim' = [victim EXCEPT ![w] = NoVersion]
    /\ UNCHANGED lockVars

\* The request ends and its transaction with it: its row locks are released.
EndRequest(w) ==
    /\ Goto(w, "idle")
    /\ req' = [req EXCEPT ![w] = NoRequest]
    /\ seen' = [seen EXCEPT ![w] = NoVersion]
    /\ victim' = [victim EXCEPT ![w] = NoVersion]
    /\ surveyLock' = IF surveyLock = w THEN NoWorker ELSE surveyLock
    /\ versionLock' = [v \in Versions |-> IF versionLock[v] = w THEN NoWorker ELSE versionLock[v]]

\* What a rollback makes of the cached key: nothing takes it out of the cache.
KeyAfterRollback(w) == IF cache[w] = "pending" THEN "lost" ELSE cache[w]

Rollback(w) ==
    /\ EndRequest(w)
    /\ cache' = [cache EXCEPT ![w] = KeyAfterRollback(w)]
    /\ UNCHANGED <<coreVars, lostSessions>>

SurveyFree(w) == surveyLock \in {w, NoWorker}
VersionFree(w, v) == versionLock[v] \in {w, NoWorker}

-----------------------------------------------------------------------------
(* What a request reads before it writes *)

\* _get_survey
ReadSurvey(w, r) ==
    /\ pc[w] = "idle"
    /\ req' = [req EXCEPT ![w] = r]
    /\ seen' = [seen EXCEPT ![w] = active]
    /\ Goto(w, "reading")
    /\ UNCHANGED <<coreVars, lockVars, victim, cache, lostSessions, failed>>

\* Mutant: ensure_is_draft is not called.
ReadVersionToPublishAny(w) ==
    /\ pc[w] = "reading"
    /\ req[w].kind = "publish"
    /\ Goto(w, "checked")
    /\ UNCHANGED <<coreVars, lockVars, localVars, cache, lostSessions, failed>>

\* publish_version: _get_version and ensure_is_draft.
ReadVersionToPublish(w) ==
    /\ pc[w] = "reading"
    /\ req[w].kind = "publish"
    /\ status[Target(w)] = "draft"
    /\ Goto(w, "checked")
    /\ UNCHANGED <<coreVars, lockVars, localVars, cache, lostSessions, failed>>

\* archive_version: the active version is unpublished as well.
ReadVersionToArchive(w) ==
    /\ pc[w] = "reading"
    /\ req[w].kind = "archive"
    /\ status[Target(w)] # "archived"
    /\ victim' = [victim EXCEPT ![w] = Target(w)]
    /\ Goto(w, IF seen[w] = Target(w) THEN "detaching" ELSE "clearing")
    /\ UNCHANGED <<coreVars, lockVars, req, seen, cache, lostSessions, failed>>

\* The version is in no status for the request.
VersionRefused(w) ==
    /\ pc[w] = "reading"
    /\ IF req[w].kind = "publish" THEN status[Target(w)] # "draft"
                                  ELSE status[Target(w)] = "archived"
    /\ Rollback(w)
    /\ UNCHANGED failed

-----------------------------------------------------------------------------
(* _ensure_survey_encryption_key *)

\* The step after the key: without an active version there is none to replace.
AfterKey(w) == IF seen[w] = NoVersion THEN "cleared" ELSE "keyed"

\* wrapped_survey_key_exists: a cached key is taken as proof of the row.
KeyKnown(w) ==
    /\ pc[w] = "checked"
    /\ cache[w] # "none" \/ keyRow
    /\ Goto(w, AfterKey(w))
    /\ UNCHANGED <<coreVars, lockVars, localVars, cache, lostSessions, failed>>

\* Mutant: the key is cached before its row is inserted.
KeyMissingCachesFirst(w) ==
    /\ pc[w] = "checked"
    /\ cache[w] = "none"
    /\ ~keyRow
    /\ cache' = [cache EXCEPT ![w] = "pending"]
    /\ Goto(w, "minting")
    /\ UNCHANGED <<coreVars, lockVars, localVars, lostSessions, failed>>

\* No key: one is minted and wrapped by KMS.
KeyMissing(w) ==
    /\ pc[w] = "checked"
    /\ cache[w] = "none"
    /\ ~keyRow
    /\ Goto(w, "minting")
    /\ UNCHANGED <<coreVars, lockVars, localVars, cache, lostSessions, failed>>

\* Has the worker's transaction inserted the key row?
HoldsKey(w) == cache[w] = "pending" /\ pc[w] # "minting"

\* The insert waits for an uncommitted row of another transaction.
InsertKey(w) ==
    /\ pc[w] = "minting"
    /\ ~keyRow
    /\ \A u \in Workers : ~HoldsKey(u)
    /\ cache' = [cache EXCEPT ![w] = "pending"]
    /\ Goto(w, AfterKey(w))
    /\ UNCHANGED <<coreVars, lockVars, localVars, lostSessions, failed>>

\* The survey has a key by now: unique violation.
KeyConflict(w) ==
    /\ pc[w] = "minting"
    /\ keyRow
    /\ Rollback(w)
    /\ UNCHANGED failed

-----------------------------------------------------------------------------
(* sr.publish_version, sr.unpublish_version and sr.archive_version *)

\* db.get of the version that was active; it is updated only if it is not
\* archived already.
ReadCurrent(w) ==
    /\ pc[w] = "keyed"
    /\ victim' = [victim EXCEPT ![w] =
                     IF status[seen[w]] = "archived" THEN NoVersion ELSE seen[w]]
    /\ Goto(w, "detaching")
    /\ UNCHANGED <<coreVars, lockVars, req, seen, cache, lostSessions, failed>>

\* published_version_id becomes NULL, whatever it is by now.
Detach(w) ==
    /\ pc[w] = "detaching"
    /\ SurveyFree(w)
    /\ surveyLock' = w
    /\ Goto(w, IF victim[w] = NoVersion THEN "cleared" ELSE "detached")
    /\ UNCHANGED <<coreVars, versionLock, localVars, cache, lostSessions, failed>>

\* Mutant: there is no such trigger.
ProtectedNever(w) == FALSE

\* protect_active_published_version: the version is referenced by the survey,
\* unless this transaction has cut the reference itself.
Protected(w) == active = victim[w] /\ surveyLock # w

ArchiveRow(w) ==
    /\ pc[w] \in {"detached", "clearing"}
    /\ VersionFree(w, victim[w])
    /\ ~Protected(w)
    /\ versionLock' = [versionLock EXCEPT ![victim[w]] = w]
    /\ Goto(w, IF req[w].kind = "publish" THEN "cleared" ELSE "archived")
    /\ UNCHANGED <<coreVars, surveyLock, localVars, cache, lostSessions, failed>>

ArchiveProtected(w) ==
    /\ pc[w] \in {"detached", "clearing"}
    /\ VersionFree(w, victim[w])
    /\ Protected(w)
    /\ Rollback(w)
    /\ UNCHANGED failed

\* Workers with an uncommitted publication.
Publishing == {w \in Workers : pc[w] \in {"marked", "attached"}}

\* uq_survey_versions_one_published: an update waits for the transactions that
\* are publishing or archiving another published version.
IndexFree(w) ==
    /\ Publishing \subseteq {w}
    /\ \A v \in Versions \ {Target(w)} : status[v] = "published" => VersionFree(w, v)

\* Published versions that the transaction has not archived itself.
OtherPublished(w) ==
    {v \in Versions \ {Target(w)} : status[v] = "published" /\ versionLock[v] # w}

SetPublished(w) ==
    /\ pc[w] = "cleared"
    /\ VersionFree(w, Target(w))
    /\ IndexFree(w)
    /\ OtherPublished(w) = {}
    /\ versionLock' = [versionLock EXCEPT ![Target(w)] = w]
    /\ Goto(w, "marked")
    /\ UNCHANGED <<coreVars, surveyLock, localVars, cache, lostSessions, failed>>

PublishedConflict(w) ==
    /\ pc[w] = "cleared"
    /\ VersionFree(w, Target(w))
    /\ IndexFree(w)
    /\ OtherPublished(w) # {}
    /\ Rollback(w)
    /\ UNCHANGED failed

\* published_version_id becomes the target; validate_survey_published_version
\* sees the status that this transaction has set.
Attach(w) ==
    /\ pc[w] = "marked"
    /\ SurveyFree(w)
    /\ surveyLock' = w
    /\ Goto(w, "attached")
    /\ UNCHANGED <<coreVars, versionLock, localVars, cache, lostSessions, failed>>

-----------------------------------------------------------------------------
(* The ends of a request *)

CommitPublish(w) ==
    /\ pc[w] = "attached"
    /\ status' = [v \in Versions |->
                     IF v = Target(w) THEN "published"
                     ELSE IF versionLock[v] = w THEN "archived" ELSE status[v]]
    /\ active' = Target(w)
    /\ publications' = [publications EXCEPT ![Target(w)] = @ + 1]
    /\ keyRow' = (keyRow \/ HoldsKey(w))
    /\ cache' = [cache EXCEPT ![w] = IF @ = "pending" THEN "stored" ELSE @]
    /\ EndRequest(w)
    /\ UNCHANGED <<lostSessions, failed>>

CommitArchive(w) ==
    /\ pc[w] = "archived"
    /\ status' = [status EXCEPT ![Target(w)] = "archived"]
    /\ active' = IF surveyLock = w THEN NoVersion ELSE active
    /\ EndRequest(w)
    /\ UNCHANGED <<keyRow, publications, cache, lostSessions, failed>>

\* Any other error: no questions, KMS, a flush or the commit.
RequestFails(w) ==
    /\ pc[w] # "idle"
    /\ Rollback(w)
    /\ failed' = TRUE

\* The worker dies; the process that replaces it has an empty cache.
WorkerDies(w) ==
    /\ pc[w] # "idle"
    /\ EndRequest(w)
    /\ cache' = [cache EXCEPT ![w] = "none"]
    /\ UNCHANGED <<coreVars, lostSessions, failed>>

\* w waits for a lock of u, or for the end of its transaction.
WaitsFor(w, u) ==
    /\ u # w
    /\ \/ pc[w] \in {"detaching", "marked"} /\ surveyLock = u
       \/ pc[w] \in {"detached", "clearing"} /\ versionLock[victim[w]] = u
       \/ pc[w] = "cleared" /\
             \/ versionLock[Target(w)] = u
             \/ u \in Publishing
             \/ \E v \in Versions \ {Target(w)} : status[v] = "published" /\ versionLock[v] = u
       \/ pc[w] = "minting" /\ ~keyRow /\ HoldsKey(u)

Deadlocked(w) ==
    \E S \in SUBSET Workers :
        w \in S /\ \A t \in S : \E u \in S : WaitsFor(t, u)

\* PostgreSQL aborts one of the transactions.
DeadlockAborted(w) ==
    /\ Deadlocked(w)
    /\ Rollback(w)
    /\ UNCHANGED failed

-----------------------------------------------------------------------------
(* Session starts and the cache *)

\* start_plaintext_survey_key_load, in a start by a published survey: a cached
\* key is used, or the row is read and its key cached.
StartSession(w) ==
    /\ pc[w] = "idle"
    /\ active # NoVersion
    /\ cache[w] # "none" \/ keyRow
    /\ cache' = [cache EXCEPT ![w] = IF @ = "none" THEN "stored" ELSE @]
    /\ lostSessions' = (lostSessions \/ cache[w] = "lost")
    /\ UNCHANGED <<coreVars, lockVars, localVars, pc, failed>>

KeyExpires(w) ==
    /\ pc[w] = "idle"
    /\ cache[w] # "none"
    /\ cache' = [cache EXCEPT ![w] = "none"]
    /\ UNCHANGED <<coreVars, lockVars, localVars, pc, lostSessions, failed>>

-----------------------------------------------------------------------------
\* Steps that may wait for another transaction.
Wait(w) ==
    \/ InsertKey(w) \/ KeyConflict(w)
    \/ Detach(w)
    \/ ArchiveRow(w) \/ ArchiveProtected(w)
    \/ SetPublished(w) \/ PublishedConflict(w)
    \/ Attach(w)

Proceed(w) ==
    \/ ReadVersionToPublish(w)
    \/ ReadVersionToArchive(w)
    \/ VersionRefused(w)
    \/ KeyKnown(w)
    \/ KeyMissing(w)
    \/ ReadCurrent(w)
    \/ CommitPublish(w)
    \/ CommitArchive(w)

Next ==
    \E w \in Workers :
        \/ \E r \in Requests : ReadSurvey(w, r)
        \/ Wait(w) \/ Proceed(w)
        \/ RequestFails(w) \/ WorkerDies(w) \/ DeadlockAborted(w)
        \/ StartSession(w) \/ KeyExpires(w)

Spec == Init /\ [][Next]_vars

\* A worker executes its request; PostgreSQL grants locks in turn and aborts a
\* transaction of every deadlock.
FairSpec ==
    /\ Spec
    /\ \A w \in Workers :
          WF_vars(Proceed(w)) /\ SF_vars(Wait(w)) /\ WF_vars(DeadlockAborted(w))

-----------------------------------------------------------------------------
(* Properties *)

\* Respondents are only led to a published version: however publications and
\* archivings that decided from stale reads interleave, the survey refers to
\* no draft and to no archived version.
ActiveIsPublished == active # NoVersion => status[active] = "published"

\* Two publications of different versions do not both succeed side by side.
AtMostOnePublished ==
    \A v, u \in Versions : status[v] = "published" /\ status[u] = "published" => v = u

\* What a publication is about to publish, from the moment it was seen to be a draft.
Claimed(w) ==
    IF pc[w] \notin {"idle", "reading"} /\ req[w].kind = "publish" THEN Target(w) ELSE NoVersion

Atomic == INSTANCE Publication WITH
    Publishers <- Workers,
    claim <- [w \in Workers |-> Claimed(w)]

\* Publishing implements Publication: although a request updates several rows one by
\* one and has decided from stale reads, the version that was published is archived with
\* the commit that publishes the next one, and only what was a draft is published.
PublishesAtomically == Atomic!Spec

\* A version can be published again, its snapshot overwritten, by a request
\* that had read it as a draft before; but not more often than there are workers.
PublicationsBounded == \A v \in Versions : publications[v] <= Cardinality(Workers)

\* Conflicts, deadlocks and dying workers alone lose no key: as long as no
\* request has failed otherwise, an active survey has its key row, and cached
\* keys and the keys of sessions are the stored one.
KeysSafeUnlessFailure ==
    ~failed =>
        /\ active # NoVersion => keyRow
        /\ \A w \in Workers : cache[w] # "lost" /\ (cache[w] = "stored" => keyRow)
        /\ ~lostSessions

\* Every request ends, although some lock the survey before the version and
\* some the version before the survey.
PublishingEnds == \A w \in Workers : pc[w] # "idle" ~> pc[w] = "idle"

\* As the docstring of wrapped_survey_key_exists says, a cached key is proof
\* that one was created: what is published has its key row.
PublishedHasKey == active # NoVersion => keyRow
=============================================================================
