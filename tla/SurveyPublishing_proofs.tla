---------------------- MODULE SurveyPublishing_proofs ----------------------
(***************************************************************************)
(* Proofs about SurveyPublishing, for any number of workers and versions.  *)
(* IInv is the inductive invariant; the named theorems follow.             *)
(***************************************************************************)
EXTENDS SurveyPublishing, FiniteSetTheorems, TLAPS

-----------------------------------------------------------------------------
(* The inductive invariant *)

\* Steps of a publication after its checks, and those after the key.
AfterKeySteps == {"keyed", "detaching", "detached", "cleared", "marked", "attached"}
PublishSteps == {"checked", "minting"} \cup AfterKeySteps

\* What a request is, by its step.
RequestInv ==
    \A w \in Workers :
        /\ pc[w] # "idle" => req[w] \in Requests
        /\ pc[w] \in {"checked", "minting", "keyed", "cleared", "marked", "attached"}
              => req[w].kind = "publish"
        /\ pc[w] \in {"clearing", "archived"} => req[w].kind = "archive"
        /\ pc[w] \in {"detached", "clearing", "archived"} => victim[w] \in Versions
        /\ pc[w] # "idle" /\ req[w].kind = "archive" /\ victim[w] # NoVersion
              => victim[w] = req[w].version
        /\ pc[w] = "detaching" /\ victim[w] = NoVersion => req[w].kind = "publish"
        /\ pc[w] \in {"reading", "checked", "minting", "keyed"} => victim[w] = NoVersion
        /\ pc[w] \in {"keyed", "detaching", "detached"} => seen[w] # NoVersion
        /\ pc[w] # "idle" /\ req[w].kind = "publish" /\ victim[w] # NoVersion
              => seen[w] # NoVersion

\* Who holds which row.
LockInv ==
    /\ surveyLock # NoWorker =>
          /\ pc[surveyLock] \in {"detached", "cleared", "marked", "attached", "archived"}
          /\ seen[surveyLock] # NoVersion \/ pc[surveyLock] = "attached"
    /\ \A w \in Workers :
          \/ pc[w] \in {"detached", "attached"}
          \/ pc[w] \in {"cleared", "marked"} /\ victim[w] # NoVersion
          => surveyLock = w
    /\ \A w \in Workers, v \in Versions :
          versionLock[v] = w =>
             /\ pc[w] \in {"cleared", "marked", "attached", "archived"}
             /\ \/ v = victim[w]
                \/ pc[w] \in {"marked", "attached"} /\ v = req[w].version
    /\ \A w \in Workers :
          /\ pc[w] \in {"marked", "attached"} => versionLock[req[w].version] = w
          /\ pc[w] = "archived" => versionLock[victim[w]] = w

\* A version that a transaction archives is not referenced by the survey, or
\* the reference is cut by the same transaction.
ReferenceInv ==
    \A w \in Workers, v \in Versions :
        versionLock[v] = w /\ v = victim[w] /\ surveyLock # w => active # v

\* One transaction at a time publishes, and no published version is beside its own.
IndexInv ==
    /\ \A w, u \in Workers : w \in Publishing /\ u \in Publishing => w = u
    /\ \A w \in Workers : w \in Publishing => OtherPublished(w) = {}

\* A pending key belongs to the one transaction that inserts the row.
PendingInv ==
    /\ \A w \in Workers : cache[w] = "pending" => pc[w] \in AfterKeySteps /\ req[w].kind = "publish"
    /\ \A w, u \in Workers : cache[w] = "pending" /\ cache[u] = "pending" => w = u
    /\ \A w \in Workers : cache[w] = "pending" => ~keyRow

\* As long as no request has failed otherwise: what has been published has a
\* key row, and a publication has one or is inserting it.
KeyInv ==
    ~failed =>
        /\ active # NoVersion => keyRow
        /\ \A v \in Versions : status[v] = "published" => keyRow
        /\ \A w \in Workers : seen[w] # NoVersion => keyRow
        /\ \A w \in Workers : cache[w] # "lost" /\ (cache[w] = "stored" => keyRow)
        /\ \A w \in Workers :
              pc[w] \in AfterKeySteps /\ req[w].kind = "publish" => keyRow \/ cache[w] = "pending"
        /\ ~lostSessions

IInv ==
    /\ TypeOK /\ RequestInv /\ LockInv /\ ReferenceInv /\ IndexInv
    /\ ActiveIsPublished /\ AtMostOnePublished
    /\ PendingInv /\ KeyInv

-----------------------------------------------------------------------------
\* The initial states satisfy the invariant.
LEMMA InitIInv == Init => IInv
<1> SUFFICES ASSUME Init PROVE IInv
  OBVIOUS
<1> USE PublishAssumption DEF Init
<1>1. TypeOK
  BY DEF TypeOK, Steps
<1>2. RequestInv /\ LockInv
  BY DEF RequestInv, LockInv
<1>3. ReferenceInv /\ ActiveIsPublished
  BY DEF ReferenceInv, ActiveIsPublished
<1>4. IndexInv /\ AtMostOnePublished
  BY DEF IndexInv, AtMostOnePublished, Publishing
<1>5. PendingInv /\ KeyInv
  BY DEF PendingInv, KeyInv, AfterKeySteps
<1>. QED
  BY <1>1, <1>2, <1>3, <1>4, <1>5 DEF IInv

\* Reading, checking and minting: no lock is taken and no key is lost.
LEMMA ReadStepIInv ==
    ASSUME IInv,
           NEW w \in Workers,
           \/ \E r \in Requests : ReadSurvey(w, r)
           \/ ReadVersionToPublish(w)
           \/ ReadVersionToArchive(w)
           \/ KeyKnown(w)
           \/ KeyMissing(w)
           \/ InsertKey(w)
           \/ ReadCurrent(w)
    PROVE  IInv'
<1> USE PublishAssumption
    DEF IInv, TypeOK, Steps, RequestInv, LockInv, ReferenceInv, IndexInv, PendingInv, KeyInv,
        ActiveIsPublished, AtMostOnePublished, Publishing, OtherPublished, PublishSteps, AfterKeySteps,
        Goto, Target, AfterKey, HoldsKey, Requests, coreVars, lockVars, localVars
<1>1. ASSUME NEW r \in Requests, ReadSurvey(w, r) PROVE IInv'
  BY <1>1 DEF ReadSurvey
<1>2. CASE ReadVersionToPublish(w)
  BY <1>2 DEF ReadVersionToPublish
<1>3. CASE ReadVersionToArchive(w)
  BY <1>3 DEF ReadVersionToArchive
<1>4. CASE KeyKnown(w)
  BY <1>4 DEF KeyKnown
<1>5. CASE KeyMissing(w)
  BY <1>5 DEF KeyMissing
<1>6. CASE InsertKey(w)
  BY <1>6 DEF InsertKey
<1>7. CASE ReadCurrent(w)
  BY <1>7 DEF ReadCurrent
<1>. QED
  BY <1>1, <1>2, <1>3, <1>4, <1>5, <1>6, <1>7

\* The updates of the two rows.
LEMMA UpdateStepIInv ==
    ASSUME IInv,
           NEW w \in Workers,
           Detach(w) \/ ArchiveRow(w) \/ SetPublished(w) \/ Attach(w)
    PROVE  IInv'
<1> USE PublishAssumption
    DEF IInv, TypeOK, Steps, RequestInv, LockInv, ReferenceInv, IndexInv, PendingInv, KeyInv,
        ActiveIsPublished, AtMostOnePublished, Publishing, OtherPublished, PublishSteps, AfterKeySteps,
        Goto, Target, SurveyFree, VersionFree, Requests, coreVars, lockVars, localVars
<1>1. CASE Detach(w)
  BY <1>1 DEF Detach
<1>2. CASE ArchiveRow(w)
  BY <1>2 DEF ArchiveRow, Protected
<1>3. CASE SetPublished(w)
  <2>1. TypeOK' /\ RequestInv'
    BY <1>3 DEF SetPublished, IndexFree
  <2>2. LockInv' /\ ReferenceInv'
    BY <1>3 DEF SetPublished, IndexFree
  <2>3. IndexInv'
    BY <1>3 DEF SetPublished, IndexFree
  <2>4. ActiveIsPublished' /\ AtMostOnePublished'
    BY <1>3 DEF SetPublished, IndexFree
  <2>5. PendingInv'
    BY <1>3 DEF SetPublished, IndexFree
  <2>6. KeyInv'
    BY <1>3 DEF SetPublished, IndexFree
  <2>. QED
    BY <2>1, <2>2, <2>3, <2>4, <2>5, <2>6
<1>4. CASE Attach(w)
  BY <1>4 DEF Attach
<1>. QED
  BY <1>1, <1>2, <1>3, <1>4

\* The two commits.
LEMMA CommitStepIInv ==
    ASSUME IInv,
           NEW w \in Workers,
           CommitPublish(w) \/ CommitArchive(w)
    PROVE  IInv'
<1> USE PublishAssumption
    DEF IInv, TypeOK, Steps, RequestInv, LockInv, ReferenceInv, IndexInv, PendingInv, KeyInv,
        ActiveIsPublished, AtMostOnePublished, Publishing, OtherPublished, PublishSteps, AfterKeySteps,
        Goto, Target, EndRequest, HoldsKey, Requests, coreVars, lockVars, localVars
<1>1. CASE CommitPublish(w)
  <2>1. TypeOK' /\ RequestInv'
    BY <1>1 DEF CommitPublish
  <2>2. LockInv' /\ ReferenceInv'
    BY <1>1 DEF CommitPublish
  <2>3. IndexInv'
    BY <1>1 DEF CommitPublish
  <2>4. ActiveIsPublished' /\ AtMostOnePublished'
    BY <1>1 DEF CommitPublish
  <2>5. PendingInv'
    BY <1>1 DEF CommitPublish
  <2>6. KeyInv'
    <3>1. SUFFICES ASSUME ~failed PROVE KeyInv'
      BY <1>1 DEF CommitPublish
    <3>2. keyRow' /\ req[w].kind = "publish"
      BY <1>1, <3>1 DEF CommitPublish
    <3>3. \A u \in Workers : cache'[u] # "lost" /\ (cache'[u] = "stored" => keyRow')
      BY <1>1, <3>1, <3>2 DEF CommitPublish
    <3>. QED
      BY <1>1, <3>1, <3>2, <3>3 DEF CommitPublish
  <2>. QED
    BY <2>1, <2>2, <2>3, <2>4, <2>5, <2>6
<1>2. CASE CommitArchive(w)
  BY <1>2 DEF CommitArchive
<1>. QED
  BY <1>1, <1>2

\* The other ends of a request.  A key that was cached before its row is
\* committed may only be lost when failed says so.
LEMMA EndIInv ==
    ASSUME IInv,
           NEW w \in Workers,
           EndRequest(w),
           NEW k, cache' = [cache EXCEPT ![w] = k],
           \/ k = "none"
           \/ k = KeyAfterRollback(w) /\ (~failed' => cache[w] # "pending"),
           failed' \in BOOLEAN, failed => failed',
           UNCHANGED <<coreVars, lostSessions>>
    PROVE  IInv'
<1> USE PublishAssumption
    DEF IInv, TypeOK, Steps, RequestInv, LockInv, ReferenceInv, IndexInv, PendingInv, KeyInv,
        ActiveIsPublished, AtMostOnePublished, Publishing, OtherPublished, AfterKeySteps,
        Goto, Target, EndRequest, KeyAfterRollback, coreVars
<1>1. TypeOK'
  <2>1. k \in {"none", "pending", "stored", "lost"}
    OBVIOUS
  <2>2. cache' \in [Workers -> {"none", "pending", "stored", "lost"}]
    BY <2>1
  <2>. QED
    BY <2>2
<1>2. RequestInv'
  OBVIOUS
<1>3. /\ \A u \in Workers : u # w =>
            /\ pc'[u] = pc[u] /\ req'[u] = req[u] /\ seen'[u] = seen[u] /\ victim'[u] = victim[u]
            /\ surveyLock' = u <=> surveyLock = u
            /\ \A v \in Versions : versionLock'[v] = u <=> versionLock[v] = u
      /\ pc'[w] = "idle"
      /\ surveyLock' # w /\ \A v \in Versions : versionLock'[v] # w
  OBVIOUS
<1>4. LockInv'
  <2> HIDE DEF EndRequest
  <2>1. /\ surveyLock' \in Workers \cup {NoWorker}
        /\ \A u \in Workers : pc[u] # "idle" => req[u] \in Requests
        /\ \A u \in Requests : u.version \in Versions
    BY <1>1 DEF Requests
  <2>. QED
    BY <1>3, <2>1
<1>5. ReferenceInv' /\ IndexInv'
  <2> HIDE DEF EndRequest
  <2>. QED
    BY <1>3
<1>6. ActiveIsPublished' /\ AtMostOnePublished'
  OBVIOUS
<1>7. PendingInv'
  OBVIOUS
<1>8. KeyInv'
  OBVIOUS
<1>. QED
  BY <1>1, <1>2, <1>4, <1>5, <1>6, <1>7, <1>8

\* A transaction that has inserted the key is in no deadlock: nothing has been
\* published, so it holds at most its target, and whoever holds that target or
\* the survey against it waits for nobody.
LEMMA KeyInNoDeadlock ==
    ASSUME IInv, ~failed, NEW w \in Workers, Deadlocked(w)
    PROVE  cache[w] # "pending"
<1> SUFFICES ASSUME cache[w] = "pending" PROVE FALSE
  OBVIOUS
<1> USE PublishAssumption
<1>1. PICK S \in SUBSET Workers : w \in S /\ \A t \in S : \E u \in S : WaitsFor(t, u)
  BY DEF Deadlocked
<1>2. PICK u \in S : WaitsFor(w, u)
  BY <1>1
<1>3. PICK t \in S : WaitsFor(u, t)
  BY <1>1
<1>4. ~keyRow /\ pc[w] \in AfterKeySteps
  BY DEF IInv, PendingInv
<1>5. /\ \A x \in Workers : seen[x] = NoVersion
      /\ \A v \in Versions : status[v] # "published"
  BY <1>4 DEF IInv, KeyInv
<1>6. \A x \in Workers : x # w => x \notin Publishing
  <2> SUFFICES ASSUME NEW x \in Workers, x # w, x \in Publishing PROVE FALSE
    OBVIOUS
  <2>1. pc[x] \in AfterKeySteps /\ req[x].kind = "publish"
    BY DEF Publishing, AfterKeySteps, IInv, RequestInv
  <2>2. cache[x] = "pending"
    BY <1>4, <2>1 DEF IInv, KeyInv
  <2>. QED
    BY <2>2 DEF IInv, PendingInv
<1>7. pc[u] = "archived"
  BY <1>2, <1>4, <1>5, <1>6
     DEF WaitsFor, AfterKeySteps, IInv, TypeOK, Steps, Requests, RequestInv, LockInv, Publishing, Target
<1>. QED
  BY <1>3, <1>7 DEF WaitsFor

\* Requests that end without a commit.
LEMMA EndStepIInv ==
    ASSUME IInv,
           NEW w \in Workers,
           \/ VersionRefused(w)
           \/ KeyConflict(w)
           \/ ArchiveProtected(w)
           \/ PublishedConflict(w)
           \/ RequestFails(w)
           \/ WorkerDies(w)
           \/ DeadlockAborted(w)
    PROVE  IInv'
<1>1. ASSUME VersionRefused(w) \/ KeyConflict(w) \/ ArchiveProtected(w) \/ PublishedConflict(w)
      PROVE  ~failed => cache[w] # "pending"
  <2>1. CASE VersionRefused(w)
    BY <2>1 DEF VersionRefused, IInv, PendingInv, AfterKeySteps
  <2>2. CASE KeyConflict(w)
    BY <2>2 DEF KeyConflict, IInv, PendingInv, AfterKeySteps
  <2>3. CASE ArchiveProtected(w)
    BY <2>3 DEF ArchiveProtected, IInv, RequestInv, PendingInv, KeyInv, AfterKeySteps
  <2>4. CASE PublishedConflict(w)
    BY <2>4 DEF PublishedConflict, OtherPublished, IInv, PendingInv, KeyInv
  <2>. QED
    BY <1>1, <2>1, <2>2, <2>3, <2>4
<1>2. failed \in BOOLEAN
  BY DEF IInv, TypeOK
<1>3. CASE VersionRefused(w) \/ KeyConflict(w) \/ ArchiveProtected(w) \/ PublishedConflict(w)
  BY <1>1, <1>2, <1>3, EndIInv
     DEF VersionRefused, KeyConflict, ArchiveProtected, PublishedConflict, Rollback
<1>4. CASE RequestFails(w)
  BY <1>4, EndIInv DEF RequestFails, Rollback
<1>5. CASE WorkerDies(w)
  BY <1>2, <1>5, EndIInv DEF WorkerDies
<1>6. CASE DeadlockAborted(w)
  BY <1>2, <1>6, EndIInv, KeyInNoDeadlock DEF DeadlockAborted, Rollback
<1>. QED
  BY <1>3, <1>4, <1>5, <1>6

\* Session starts and the expiry of a cached key.
LEMMA CacheStepIInv ==
    ASSUME IInv, NEW w \in Workers, StartSession(w) \/ KeyExpires(w)
    PROVE  IInv'
<1>1. UNCHANGED <<coreVars, lockVars, localVars, pc, failed>>
  BY DEF StartSession, KeyExpires
<1>2. pc[w] = "idle" /\ req[w] = NoRequest
  BY DEF StartSession, KeyExpires, IInv, TypeOK
<1>3. /\ cache' \in [Workers -> {"none", "pending", "stored", "lost"}]
      /\ \A u \in Workers : u # w => cache'[u] = cache[u]
      /\ cache'[w] \in {"none", cache[w]} \/ (cache'[w] = "stored" /\ keyRow)
  <2>1. CASE StartSession(w)
    BY <2>1 DEF StartSession, IInv, TypeOK
  <2>2. CASE KeyExpires(w)
    BY <2>2 DEF KeyExpires, IInv, TypeOK
  <2>. QED
    BY <2>1, <2>2
<1>4. lostSessions' \in BOOLEAN /\ (~lostSessions /\ cache[w] # "lost" => ~lostSessions')
  <2>1. CASE StartSession(w)
    BY <2>1 DEF StartSession, IInv, TypeOK
  <2>2. CASE KeyExpires(w)
    BY <2>2 DEF KeyExpires, IInv, TypeOK
  <2>. QED
    BY <2>1, <2>2
<1>5. TypeOK'
  BY <1>1, <1>3, <1>4 DEF IInv, TypeOK, coreVars, lockVars, localVars
<1>6. RequestInv' /\ LockInv' /\ ReferenceInv' /\ IndexInv' /\ ActiveIsPublished' /\ AtMostOnePublished'
  BY <1>1 DEF IInv, RequestInv, LockInv, ReferenceInv, IndexInv, ActiveIsPublished, AtMostOnePublished,
              Publishing, OtherPublished, Target, coreVars, lockVars, localVars
<1>7. PendingInv' /\ KeyInv'
  BY <1>1, <1>2, <1>3, <1>4 DEF IInv, TypeOK, PendingInv, KeyInv, AfterKeySteps, coreVars, localVars
<1>. QED
  BY <1>5, <1>6, <1>7 DEF IInv

\* Stuttering steps preserve it.
LEMMA StutterIInv == ASSUME IInv, UNCHANGED vars PROVE IInv'
BY DEF IInv, TypeOK, RequestInv, LockInv, ReferenceInv, IndexInv, PendingInv, KeyInv,
       ActiveIsPublished, AtMostOnePublished, Publishing, OtherPublished, Target,
       vars, coreVars, lockVars, localVars

\* The inductive invariant holds in every reachable state.
THEOREM InductiveInvariant == Spec => []IInv
<1>1. IInv /\ [Next]_vars => IInv'
  BY ReadStepIInv, UpdateStepIInv, CommitStepIInv, EndStepIInv, CacheStepIInv, StutterIInv
     DEF Next, Wait, Proceed
<1>. QED
  BY InitIInv, <1>1, PTL DEF Spec

\* Type correctness of publishing and archiving.
THEOREM TypeCorrect == Spec => []TypeOK
BY InductiveInvariant, PTL DEF IInv

\* The survey's published_version_id is NULL or a published version, whatever
\* the requests had read before they updated the rows.
THEOREM ActivePublished == Spec => []ActiveIsPublished
BY InductiveInvariant, PTL DEF IInv

\* No two versions of the survey are published at a time.
THEOREM OnePublished == Spec => []AtMostOnePublished
BY InductiveInvariant, PTL DEF IInv

\* Transactions that wait for each other.
Circle(S) == S # {} /\ \A t \in S : \E u \in S : WaitsFor(t, u)

\* However many requests wait for each other, the one that holds the survey's row
\* is among them: all other rows are taken in one order, and to abort that
\* transaction is always enough.
THEOREM CirclesMeetAtTheSurvey ==
    Spec => [](\A S \in SUBSET Workers : Circle(S) => surveyLock \in S)
<1>1. ASSUME IInv, NEW S \in SUBSET Workers, Circle(S), surveyLock \notin S
      PROVE  FALSE
  <2> USE PublishAssumption DEF IInv
  <2>1. ASSUME NEW t \in S
        PROVE  /\ pc[t] \in {"clearing", "cleared", "minting"}
               /\ pc[t] = "cleared" => victim[t] = NoVersion
    <3>1. PICK u \in S : WaitsFor(t, u)
      BY <1>1 DEF Circle
    <3>2. pc[t] \in {"detached", "clearing", "cleared", "minting"}
      BY <1>1, <3>1 DEF WaitsFor
    <3>3. surveyLock # t
      BY <1>1
    <3>. QED
      BY <1>1, <3>2, <3>3 DEF LockInv
  <2>2. ASSUME NEW u \in S
        PROVE  u \notin Publishing /\ \A v \in Versions : versionLock[v] # u
    <3>1. /\ pc[u] \in {"clearing", "cleared", "minting"}
          /\ pc[u] = "cleared" => victim[u] = NoVersion
      BY <2>1
    <3>. QED
      BY <1>1, <3>1 DEF Publishing, LockInv
  <2>3. ASSUME NEW t \in S
        PROVE  pc[t] = "minting" /\ \E u \in S : HoldsKey(u)
    <3>1. PICK u \in S : WaitsFor(t, u)
      BY <1>1 DEF Circle
    <3>2. u \notin Publishing /\ \A v \in Versions : versionLock[v] # u
      BY <2>2
    <3>3. /\ pc[t] \in {"detached", "clearing"} => victim[t] \in Versions
          /\ pc[t] = "cleared" => Target(t) \in Versions
      BY <1>1 DEF RequestInv, Target, Requests
    <3>. QED
      BY <1>1, <2>1, <3>1, <3>2, <3>3 DEF WaitsFor
  <2>. QED
    BY <1>1, <2>3 DEF Circle, HoldsKey
<1>2. IInv => \A S \in SUBSET Workers : Circle(S) => surveyLock \in S
  BY <1>1
<1>. QED
  BY <1>2, InductiveInvariant, PTL

\* Conflicts, deadlocks and deaths alone lose no key.
THEOREM KeysSafe == Spec => []KeysSafeUnlessFailure
<1>1. IInv => KeysSafeUnlessFailure
  BY DEF IInv, KeyInv, KeysSafeUnlessFailure
<1>. QED
  BY <1>1, InductiveInvariant, PTL

-----------------------------------------------------------------------------
(* How often a version is published *)

\* Publications of v under way that have seen it as a draft.
Claims(v) ==
    {w \in Workers : pc[w] \in PublishSteps /\ req[w].kind = "publish" /\ req[w].version = v}

\* Every publication uses up a claim, and claims arise while v is a draft only.
CountInv ==
    \A v \in Versions :
        /\ status[v] = "draft" => publications[v] = 0
        /\ publications[v] + Cardinality(Claims(v)) <= Cardinality(Workers)

\* Steps that commit nothing and read no draft add no claim.
LEMMA QuietStep ==
    ASSUME IInv, NEW w \in Workers, NEW v \in Versions,
           \/ \E r \in Requests : ReadSurvey(w, r)
           \/ Wait(w) \/ Proceed(w)
           \/ RequestFails(w) \/ WorkerDies(w) \/ DeadlockAborted(w)
           \/ StartSession(w) \/ KeyExpires(w),
           ~CommitPublish(w), ~CommitArchive(w), ~ReadVersionToPublish(w)
    PROVE  UNCHANGED <<status, publications>> /\ Claims(v)' \subseteq Claims(v)
<1> USE DEF IInv, TypeOK, RequestInv, Claims, PublishSteps, AfterKeySteps, Goto, AfterKey,
            coreVars, lockVars, localVars
<1>1. ASSUME NEW r \in Requests, ReadSurvey(w, r)
      PROVE  UNCHANGED <<status, publications>> /\ Claims(v)' \subseteq Claims(v)
  BY <1>1 DEF ReadSurvey
<1>2. CASE InsertKey(w)
  BY <1>2 DEF InsertKey
<1>3. CASE Detach(w)
  BY <1>3 DEF Detach
<1>4. CASE ArchiveRow(w)
  BY <1>4 DEF ArchiveRow
<1>5. CASE SetPublished(w)
  BY <1>5 DEF SetPublished
<1>6. CASE Attach(w)
  BY <1>6 DEF Attach
<1>7. CASE KeyConflict(w) \/ ArchiveProtected(w) \/ PublishedConflict(w) \/ VersionRefused(w)
           \/ RequestFails(w) \/ DeadlockAborted(w)
  <2>1. EndRequest(w) /\ UNCHANGED coreVars
    BY <1>7 DEF KeyConflict, ArchiveProtected, PublishedConflict, VersionRefused, RequestFails,
                DeadlockAborted, Rollback
  <2>. QED
    BY <2>1 DEF EndRequest
<1>8. CASE WorkerDies(w)
  BY <1>8 DEF WorkerDies, EndRequest
<1>9. CASE ReadVersionToArchive(w)
  BY <1>9 DEF ReadVersionToArchive
<1>10. CASE KeyKnown(w)
  BY <1>10 DEF KeyKnown
<1>11. CASE KeyMissing(w)
  BY <1>11 DEF KeyMissing
<1>12. CASE ReadCurrent(w)
  BY <1>12 DEF ReadCurrent
<1>13. CASE StartSession(w) \/ KeyExpires(w)
  <2>1. UNCHANGED <<coreVars, localVars, pc>>
    BY <1>13 DEF StartSession, KeyExpires
  <2>. QED
    BY <2>1
<1>. HIDE DEF IInv, TypeOK, RequestInv, Claims
<1>. QED
  BY <1>1, <1>2, <1>3, <1>4, <1>5, <1>6, <1>7, <1>8, <1>9, <1>10, <1>11, <1>12, <1>13
     DEF Wait, Proceed

\* How one step changes the publications of v and its claims.
LEMMA ClaimStep ==
    ASSUME IInv, Next, NEW v \in Versions
    PROVE  \/ /\ publications'[v] = publications[v]
              /\ status'[v] = "draft" => status[v] = "draft"
              /\ status[v] = "draft" \/ Claims(v)' \subseteq Claims(v)
           \/ /\ publications'[v] = publications[v] + 1
              /\ status'[v] # "draft"
              /\ \E w \in Claims(v) : Claims(v)' \subseteq Claims(v) \ {w}
<1> DEFINE Goal == \/ /\ publications'[v] = publications[v]
                      /\ status'[v] = "draft" => status[v] = "draft"
                      /\ status[v] = "draft" \/ Claims(v)' \subseteq Claims(v)
                   \/ /\ publications'[v] = publications[v] + 1
                      /\ status'[v] # "draft"
                      /\ \E w \in Claims(v) : Claims(v)' \subseteq Claims(v) \ {w}
<1>1. ASSUME NEW w \in Workers, CommitPublish(w)
      PROVE  Goal
  <2> USE <1>1 DEF CommitPublish, EndRequest, Goto, Target, IInv, TypeOK, RequestInv, Requests,
                   Claims, PublishSteps, AfterKeySteps
  <2>1. CASE v = req[w].version
    <3>1. w \in Claims(v) /\ Claims(v)' \subseteq Claims(v) \ {w}
      BY <2>1
    <3>2. publications'[v] = publications[v] + 1 /\ status'[v] = "published"
      BY <2>1
    <3> HIDE DEF Claims
    <3>. QED
      BY <3>1, <3>2
  <2>2. CASE v # req[w].version
    BY <2>2
  <2>. QED
    BY <2>1, <2>2
<1>2. ASSUME NEW w \in Workers, CommitArchive(w)
      PROVE  Goal
  <2>1. publications' = publications /\ (status'[v] = "draft" => status[v] = "draft")
    BY <1>2 DEF CommitArchive, IInv, TypeOK
  <2>2. Claims(v)' \subseteq Claims(v)
    BY <1>2 DEF CommitArchive, EndRequest, Goto, IInv, TypeOK, Claims, PublishSteps, AfterKeySteps
  <2> HIDE DEF Claims
  <2>. QED
    BY <2>1, <2>2
<1>3. ASSUME NEW w \in Workers, ReadVersionToPublish(w)
      PROVE  Goal
  <2>1. UNCHANGED <<status, publications, req>> /\ pc' = [pc EXCEPT ![w] = "checked"]
    BY <1>3 DEF ReadVersionToPublish, Goto, coreVars, localVars
  <2>2. req[w].version # v => Claims(v)' \subseteq Claims(v)
    BY <2>1 DEF Claims, PublishSteps, IInv, TypeOK
  <2>3. req[w].version = v => status[v] = "draft"
    BY <1>3 DEF ReadVersionToPublish, Target
  <2> HIDE DEF Claims
  <2>. QED
    BY <2>1, <2>2, <2>3
<1>4. ASSUME NEW w \in Workers,
             \/ \E r \in Requests : ReadSurvey(w, r)
             \/ Wait(w) \/ Proceed(w)
             \/ RequestFails(w) \/ WorkerDies(w) \/ DeadlockAborted(w)
             \/ StartSession(w) \/ KeyExpires(w),
             ~CommitPublish(w), ~CommitArchive(w), ~ReadVersionToPublish(w)
      PROVE  Goal
  BY <1>4, QuietStep
<1>. QED
  BY <1>1, <1>2, <1>3, <1>4 DEF Next

\* A version is published at most once by each worker that had read it as a draft.
THEOREM PublicationsAreBounded == Spec => []PublicationsBounded
<1> USE PublishAssumption
<1>1. ASSUME NEW v \in Versions
      PROVE  /\ IsFiniteSet(Claims(v)) /\ Cardinality(Claims(v)) \in Nat
             /\ IsFiniteSet(Claims(v)') /\ Cardinality(Claims(v)') \in Nat
             /\ Cardinality(Workers) \in Nat
             /\ Cardinality(Claims(v)) <= Cardinality(Workers)
             /\ Cardinality(Claims(v)') <= Cardinality(Workers)
  <2>1. Claims(v) \in SUBSET Workers /\ Claims(v)' \in SUBSET Workers
    BY DEF Claims
  <2>. QED
    BY <2>1, FS_Subset, FS_CardinalityType
<1>2. Init => CountInv
  <2> SUFFICES ASSUME Init, NEW v \in Versions
               PROVE  publications[v] = 0 /\ publications[v] + Cardinality(Claims(v)) <= Cardinality(Workers)
    BY DEF CountInv
  <2>. QED
    BY <1>1 DEF Init
<1>3. CountInv /\ IInv /\ [Next]_vars => CountInv'
  <2> SUFFICES ASSUME CountInv, IInv, [Next]_vars, NEW v \in Versions
               PROVE  /\ status'[v] = "draft" => publications'[v] = 0
                      /\ publications'[v] + Cardinality(Claims(v)') <= Cardinality(Workers)
    BY DEF CountInv
  <2>1. /\ status[v] = "draft" => publications[v] = 0
        /\ publications[v] + Cardinality(Claims(v)) <= Cardinality(Workers)
        /\ publications[v] \in Nat
    BY DEF CountInv, IInv, TypeOK
  <2>2. CASE UNCHANGED vars
    <3>1. Claims(v)' = Claims(v) /\ UNCHANGED <<status, publications>>
      BY <2>2 DEF Claims, vars, coreVars, localVars
    <3>. QED
      BY <2>1, <3>1
  <2>3. CASE Next
    <3>1. CASE /\ publications'[v] = publications[v] + 1
               /\ status'[v] # "draft"
               /\ \E w \in Claims(v) : Claims(v)' \subseteq Claims(v) \ {w}
      <4>1. PICK w \in Claims(v) : Claims(v)' \in SUBSET (Claims(v) \ {w})
        BY <3>1
      <4>2. /\ IsFiniteSet(Claims(v) \ {w})
            /\ Cardinality(Claims(v) \ {w}) = Cardinality(Claims(v)) - 1
        BY <1>1, FS_RemoveElement
      <4>3. Cardinality(Claims(v)') <= Cardinality(Claims(v)) - 1
        BY <4>1, <4>2, FS_Subset
      <4>. QED
        BY <1>1, <2>1, <3>1, <4>3
    <3>2. CASE /\ publications'[v] = publications[v]
               /\ status'[v] = "draft" => status[v] = "draft"
               /\ status[v] = "draft" \/ Claims(v)' \subseteq Claims(v)
      <4>1. CASE status[v] = "draft"
        BY <1>1, <2>1, <3>2, <4>1
      <4>2. CASE status[v] # "draft"
        <5>1. Cardinality(Claims(v)') <= Cardinality(Claims(v))
          BY <1>1, <3>2, <4>2, FS_Subset
        <5>. QED
          BY <1>1, <2>1, <3>2, <4>2, <5>1
      <4>. QED
        BY <4>1, <4>2
    <3>. QED
      BY <2>3, <3>1, <3>2, ClaimStep
  <2>. QED
    BY <2>2, <2>3
<1>4. CountInv /\ IInv => PublicationsBounded
  <2> SUFFICES ASSUME CountInv, IInv, NEW v \in Versions
               PROVE  publications[v] <= Cardinality(Workers)
    BY DEF PublicationsBounded
  <2>1. publications[v] \in Nat /\ publications[v] + Cardinality(Claims(v)) <= Cardinality(Workers)
    BY DEF CountInv, IInv, TypeOK
  <2>. QED
    BY <1>1, <2>1
<1>. QED
  BY <1>2, <1>3, <1>4, InductiveInvariant, PTL DEF Spec

-----------------------------------------------------------------------------
(* Refinement of Publication *)

\* The version that a request has seen as the active one was published; it is the one
\* that a publication archives.
CurrentInv ==
    \A w \in Workers :
        /\ seen[w] # NoVersion => status[seen[w]] # "draft"
        /\ pc[w] # "idle" /\ req[w].kind = "publish" /\ victim[w] # NoVersion => victim[w] = seen[w]

LEMMA InitCurrent == Init => CurrentInv
BY DEF Init, CurrentInv

\* A request that ends without a commit, by its own doing or not.
LEMMA EndsQuietly ==
    ASSUME NEW w \in Workers,
           \/ KeyConflict(w) \/ ArchiveProtected(w) \/ PublishedConflict(w) \/ VersionRefused(w)
           \/ RequestFails(w) \/ DeadlockAborted(w) \/ WorkerDies(w)
    PROVE  EndRequest(w) /\ UNCHANGED coreVars
BY DEF KeyConflict, ArchiveProtected, PublishedConflict, VersionRefused, RequestFails,
       DeadlockAborted, WorkerDies, Rollback

LEMMA StepCurrent == IInv /\ CurrentInv /\ [Next]_vars => CurrentInv'
<1> SUFFICES ASSUME IInv, CurrentInv, [Next]_vars PROVE CurrentInv'
  OBVIOUS
<1> USE PublishAssumption DEF Goto, coreVars, lockVars, localVars, AfterKey
<1>1. TypeOK /\ ActiveIsPublished
  BY DEF IInv
<1>2. ASSUME NEW w \in Workers, NEW r \in Requests, ReadSurvey(w, r)
      PROVE  CurrentInv'
  BY <1>1, <1>2 DEF ReadSurvey, CurrentInv, TypeOK, ActiveIsPublished
<1>3. ASSUME NEW w \in Workers, ReadCurrent(w)
      PROVE  CurrentInv'
  BY <1>1, <1>3 DEF ReadCurrent, CurrentInv, TypeOK
<1>4. ASSUME NEW w \in Workers, ReadVersionToArchive(w)
      PROVE  CurrentInv'
  BY <1>1, <1>4 DEF ReadVersionToArchive, CurrentInv, TypeOK
<1>5. ASSUME NEW w \in Workers, EndRequest(w),
             \A v \in Versions : status'[v] = "draft" => status[v] = "draft"
      PROVE  CurrentInv'
  BY <1>1, <1>5 DEF EndRequest, CurrentInv, TypeOK
<1>6. ASSUME NEW w \in Workers, CommitPublish(w) \/ CommitArchive(w)
      PROVE  CurrentInv'
  <2>1. EndRequest(w) /\ \A v \in Versions : status'[v] = "draft" => status[v] = "draft"
    BY <1>1, <1>6 DEF CommitPublish, CommitArchive, TypeOK
  <2>. QED
    BY <1>5, <2>1
<1>7. ASSUME NEW w \in Workers,
             \/ KeyConflict(w) \/ ArchiveProtected(w) \/ PublishedConflict(w) \/ VersionRefused(w)
             \/ RequestFails(w) \/ DeadlockAborted(w) \/ WorkerDies(w)
      PROVE  CurrentInv'
  BY <1>5, <1>7, EndsQuietly
<1>8. ASSUME NEW w \in Workers,
             \/ ReadVersionToPublish(w) \/ KeyKnown(w) \/ KeyMissing(w) \/ InsertKey(w)
             \/ Detach(w) \/ ArchiveRow(w) \/ SetPublished(w) \/ Attach(w)
      PROVE  CurrentInv'
  <2>1. UNCHANGED <<coreVars, localVars>> /\ pc[w] # "idle" /\ \A u \in Workers : u # w => pc'[u] = pc[u]
    <3>1. UNCHANGED <<status, active, keyRow, publications, req, seen, victim>> /\ pc[w] # "idle"
      BY <1>8 DEF ReadVersionToPublish, KeyKnown, KeyMissing, InsertKey, Detach, ArchiveRow,
                  SetPublished, Attach
    <3>2. \E step : pc' = [pc EXCEPT ![w] = step]
      BY <1>8 DEF ReadVersionToPublish, KeyKnown, KeyMissing, InsertKey, Detach, ArchiveRow,
                  SetPublished, Attach
    <3>. QED
      BY <1>1, <3>1, <3>2 DEF TypeOK
  <2>. QED
    BY <2>1 DEF CurrentInv
<1>9. ASSUME UNCHANGED <<coreVars, localVars, pc>>
      PROVE  CurrentInv'
  BY <1>9 DEF CurrentInv
<1>10. ASSUME NEW w \in Workers, StartSession(w) \/ KeyExpires(w)
       PROVE  CurrentInv'
  BY <1>9, <1>10 DEF StartSession, KeyExpires
<1>11. CASE UNCHANGED vars
  BY <1>9, <1>11 DEF vars
<1>. QED
  BY <1>2, <1>3, <1>4, <1>6, <1>7, <1>8, <1>10, <1>11 DEF Next, Wait, Proceed

\* A step that leaves the committed state alone and the request at its work leaves its claim alone.
LEMMA WorkingStep ==
    ASSUME TypeOK, NEW w \in Workers,
           \/ ReadVersionToArchive(w) \/ KeyKnown(w) \/ KeyMissing(w) \/ InsertKey(w)
           \/ ReadCurrent(w) \/ Detach(w) \/ ArchiveRow(w) \/ SetPublished(w) \/ Attach(w)
    PROVE  /\ UNCHANGED <<status, active, req>>
           /\ \A u \in Workers : u # w => pc'[u] = pc[u]
           /\ pc'[w] \notin {"idle", "reading"}
           /\ pc[w] \notin {"idle", "reading"} \/ (pc[w] = "reading" /\ req[w].kind = "archive")
<1> USE DEF TypeOK, Goto, coreVars, lockVars, localVars, AfterKey
<1>1. CASE ReadVersionToArchive(w)
  BY <1>1 DEF ReadVersionToArchive
<1>2. CASE KeyKnown(w) \/ KeyMissing(w) \/ InsertKey(w)
  BY <1>2 DEF KeyKnown, KeyMissing, InsertKey
<1>3. CASE ReadCurrent(w)
  BY <1>3 DEF ReadCurrent
<1>4. CASE Detach(w) \/ ArchiveRow(w)
  BY <1>4 DEF Detach, ArchiveRow
<1>5. CASE SetPublished(w) \/ Attach(w)
  BY <1>5 DEF SetPublished, Attach
<1>. QED
  BY <1>1, <1>2, <1>3, <1>4, <1>5

LEMMA StepIsPublication ==
    ASSUME IInv, CurrentInv, Next
    PROVE  [Atomic!Next]_(Atomic!vars)
<1> USE PublishAssumption
<1>1. TypeOK
  BY DEF IInv
<1>2. ASSUME NEW w \in Workers, ReadVersionToPublish(w)
      PROVE  Target(w) \in Versions /\ Atomic!Claim(w, Target(w))
  BY <1>1, <1>2
     DEF ReadVersionToPublish, TypeOK, IInv, RequestInv, Requests, Claimed, Target, Goto,
         coreVars, localVars, Atomic!Claim
<1>3. ASSUME NEW w \in Workers, CommitPublish(w)
      PROVE  Atomic!Publish(w)
  <2>1. /\ pc[w] = "attached" /\ req[w].kind = "publish" /\ Target(w) \in Versions
        /\ Claimed(w) = Target(w) /\ Target(w) # NoVersion
    BY <1>1, <1>3 DEF CommitPublish, IInv, RequestInv, Requests, Target, Claimed
  \* What it archives, and what it has to.
  <2>2. ASSUME NEW v \in Versions, v # Target(w)
        PROVE  /\ versionLock[v] = w => status[v] \in {"published", "archived"}
               /\ status[v] = "published" => versionLock[v] = w
    <3>1. versionLock[v] = w => v = victim[w]
      BY <2>1, <2>2 DEF IInv, LockInv, Target
    <3>2. versionLock[v] = w => v = seen[w]
      BY <2>1, <3>1 DEF CurrentInv
    <3>3. versionLock[v] = w => status[v] # "draft"
      BY <3>2 DEF CurrentInv
    <3>4. OtherPublished(w) = {}
      BY <2>1 DEF IInv, IndexInv, Publishing
    <3>. QED
      BY <1>1, <2>2, <3>3, <3>4 DEF TypeOK, OtherPublished
  <2>3. status' = [v \in Versions |-> IF v = Target(w) THEN "published"
                                      ELSE IF status[v] = "published" THEN "archived"
                                      ELSE status[v]]
    BY <1>3, <2>2 DEF CommitPublish
  <2>4. [u \in Workers |-> Claimed(u)]' = [[u \in Workers |-> Claimed(u)] EXCEPT ![w] = NoVersion]
    BY <1>1, <1>3 DEF CommitPublish, EndRequest, Goto, Claimed, Target, TypeOK
  <2>5. active' = Target(w)
    BY <1>3 DEF CommitPublish
  <2>. QED
    BY <2>1, <2>3, <2>4, <2>5 DEF Atomic!Publish, Atomic!Drop
<1>4. ASSUME NEW w \in Workers, CommitArchive(w)
      PROVE  Target(w) \in Versions /\ Atomic!Archive(Target(w))
  <2>1. /\ pc[w] = "archived" /\ req[w].kind = "archive" /\ Target(w) \in Versions
        /\ victim[w] = Target(w) /\ versionLock[Target(w)] = w
    BY <1>4, PublishAssumption DEF CommitArchive, IInv, RequestInv, LockInv, Requests, Target
  <2>2. active' \in {active, NoVersion} \ {Target(w)}
    BY <1>4, <2>1 DEF CommitArchive, IInv, ReferenceInv
  <2>3. [u \in Workers |-> Claimed(u)]' = [u \in Workers |-> Claimed(u)]
    BY <1>1, <1>4, <2>1 DEF CommitArchive, EndRequest, Goto, Claimed, Target, TypeOK
  <2>. QED
    BY <1>1, <1>4, <2>1, <2>2, <2>3 DEF CommitArchive, TypeOK, Atomic!Archive
<1>5. ASSUME NEW w \in Workers, EndRequest(w), UNCHANGED coreVars
      PROVE  Atomic!Withdraw(w) \/ UNCHANGED Atomic!vars
  <2>1. UNCHANGED <<status, active>>
    BY <1>5 DEF coreVars
  <2>2. /\ \A u \in Workers : u # w => Claimed(u)' = Claimed(u)
        /\ Claimed(w)' = NoVersion
    BY <1>1, <1>5 DEF EndRequest, Goto, Claimed, Target, TypeOK
  <2>3. [u \in Workers |-> Claimed(u)]' = [[u \in Workers |-> Claimed(u)] EXCEPT ![w] = NoVersion]
    BY <2>2
  <2>. QED
    BY <2>1, <2>2, <2>3 DEF Atomic!Withdraw, Atomic!Drop, Atomic!vars
<1>6. ASSUME NEW w \in Workers,
             \/ ReadVersionToArchive(w) \/ KeyKnown(w) \/ KeyMissing(w) \/ InsertKey(w)
             \/ ReadCurrent(w) \/ Detach(w) \/ ArchiveRow(w) \/ SetPublished(w) \/ Attach(w)
      PROVE  UNCHANGED Atomic!vars
  <2>1. /\ UNCHANGED <<status, active, req>>
        /\ \A u \in Workers : u # w => pc'[u] = pc[u]
        /\ pc'[w] \notin {"idle", "reading"}
        /\ pc[w] \notin {"idle", "reading"} \/ (pc[w] = "reading" /\ req[w].kind = "archive")
    BY <1>1, <1>6, WorkingStep
  <2>. QED
    BY <2>1 DEF Claimed, Target, Atomic!vars
<1>7. ASSUME NEW w \in Workers, NEW r \in Requests, ReadSurvey(w, r)
      PROVE  UNCHANGED Atomic!vars
  BY <1>1, <1>7 DEF ReadSurvey, Goto, TypeOK, Claimed, Target, coreVars, Atomic!vars
<1>8. ASSUME NEW w \in Workers, StartSession(w) \/ KeyExpires(w)
      PROVE  UNCHANGED Atomic!vars
  BY <1>8 DEF StartSession, KeyExpires, Claimed, Target, coreVars, localVars, Atomic!vars
<1>9. ASSUME NEW w \in Workers,
             \/ KeyConflict(w) \/ ArchiveProtected(w) \/ PublishedConflict(w) \/ VersionRefused(w)
             \/ RequestFails(w) \/ DeadlockAborted(w) \/ WorkerDies(w)
      PROVE  Atomic!Withdraw(w) \/ UNCHANGED Atomic!vars
  BY <1>5, <1>9, EndsQuietly
<1>. QED
  BY <1>2, <1>3, <1>4, <1>6, <1>7, <1>8, <1>9 DEF Next, Wait, Proceed, Atomic!Next

\* However the updates of a publication are interleaved with others, its commit takes
\* effect as one step that replaces the published version by what was seen to be a draft.
THEOREM PublishingRefinesPublication == Spec => PublishesAtomically
<1>1. Init => Atomic!Init
  BY DEF Init, Claimed, Atomic!Init
<1>2. IInv /\ CurrentInv /\ [Next]_vars => [Atomic!Next]_(Atomic!vars)
  <2>1. UNCHANGED vars => UNCHANGED Atomic!vars
    BY DEF vars, coreVars, localVars, Claimed, Target, Atomic!vars
  <2>. QED
    BY <2>1, StepIsPublication
<1>. QED
  BY <1>1, <1>2, InitCurrent, StepCurrent, InductiveInvariant, PTL
     DEF Spec, PublishesAtomically, Atomic!Spec
=============================================================================
