----------------------- MODULE SubmissionSession_proofs -----------------------
(***************************************************************************)
(* Proofs about SubmissionSession, for any number of workers, sessions and *)
(* questions.                                                              *)
(***************************************************************************)
EXTENDS SubmissionSession, FiniteSetTheorems, TLAPS

-----------------------------------------------------------------------------
(* The inductive invariant *)

\* The request of a busy worker, and what its step tells about its kind.
RequestInv ==
    \A w \in Workers :
        /\ pc[w] = "idle" => req[w] = NoRequest /\ held[w] = "nothing"
        /\ pc[w] # "idle" => req[w] \in Requests
        /\ pc[w] \in {"slotted", "saved"} => req[w].kind = "save"
        /\ pc[w] \in {"marked", "evented", "rolledback", "committed"} => req[w].kind = "complete"
        /\ held[w] = "completed" => pc[w] \in {"reading", "loaded"}

\* A row has one holder, and a row that is held is not deleted.
HolderInv ==
    /\ \A v, w \in Workers : HoldsRow(v, req[w].session) /\ pc[w] \in Locking => v = w
    /\ \A w \in Workers : pc[w] \in Locking => status[req[w].session] # "deleted"

\* The job marks sessions in progress that have no envelope; it locks them.
MarkInv ==
    /\ job = "idle" => marks = {}
    /\ \A s \in marks :
          /\ s \notin envelopes
          /\ status[s] = "in_progress"
          /\ \A w \in Workers : ~HoldsRow(w, s)

\* How the rows of the two databases belong together.
DataInv ==
    /\ \A s \in Sessions : status[s] \in {"abandoned", "deleted"} => s \notin envelopes
    /\ \A s \in erasing : s \notin envelopes
    /\ \A a \in answers : a \in slots /\ a[1] \in envelopes
    /\ \A a \in slots : status[a[1]] # "deleted"
    /\ \A w \in Workers :
          pc[w] = "slotted" /\ status[req[w].session] # "deleted"
              => <<req[w].session, req[w].question>> \in slots

IInv == TypeOK /\ RequestInv /\ HolderInv /\ MarkInv /\ DataInv /\ LockKeepsInProgress

\* The initial states satisfy it.
LEMMA InitIInv == Init => IInv
BY SessionAssumption
   DEF Init, IInv, TypeOK, Steps, RequestInv, HolderInv, HoldsRow, Locking, MarkInv, DataInv,
       LockKeepsInProgress

\* Every step of a worker preserves it.
LEMMA WorkerStepIInv ==
    ASSUME IInv,
           NEW w \in Workers,
           \/ \E r \in Requests : Arrive(w, r)
           \/ Wait(w) \/ Proceed(w) \/ RequestFails(w) \/ WorkerDies(w)
           \/ \E s \in Sessions : ContextExpires(w, s)
    PROVE  IInv'
<1> USE SessionAssumption
    DEF IInv, TypeOK, Steps, Requests, RequestInv, HolderInv, HoldsRow, Locking, MarkInv, DataInv,
        LockKeepsInProgress, Goto, EndRequest, coreVars, responseVars, jobVars
<1>1. ASSUME NEW r \in Requests, LoadCached(w, r)
      PROVE  IInv'
  BY <1>1 DEF LoadCached
<1>2. ASSUME NEW r \in Requests, LoadCachedExpired(w, r)
      PROVE  IInv'
  BY <1>2 DEF LoadCachedExpired
<1>3. ASSUME NEW r \in Requests, ReadRow(w, r)
      PROVE  IInv'
  BY <1>3 DEF ReadRow
<1>4. ASSUME NEW s \in Sessions, ContextExpires(w, s)
      PROVE  IInv'
  BY <1>4 DEF ContextExpires
<1>5. CASE ReadEnvelope(w)
  BY <1>5 DEF ReadEnvelope
<1>6. CASE EnvelopeNotFound(w)
  BY <1>6 DEF EnvelopeNotFound
<1>7. CASE LockForUpdate(w)
  BY <1>7 DEF LockForUpdate, LockedStatus, RowFree
<1>8. CASE LockRefused(w)
  BY <1>8 DEF LockRefused
<1>9. CASE SaveSlot(w)
  BY <1>9 DEF SaveSlot
<1>10. CASE SaveUpsert(w)
  BY <1>10 DEF SaveUpsert
<1>11. CASE SaveOrphaned(w)
  BY <1>11 DEF SaveOrphaned
<1>12. CASE SaveReturn(w)
  BY <1>12 DEF SaveReturn
<1>13. CASE CompleteMark(w)
  BY <1>13 DEF CompleteMark
<1>14. CASE CompleteEvent(w)
  BY <1>14 DEF CompleteEvent
<1>15. CASE CompleteEventFails(w)
  BY <1>15 DEF CompleteEventFails
<1>16. CASE CompleteCommit(w)
  BY <1>16 DEF CompleteCommit
<1>17. CASE CompleteReturn(w)
  BY <1>17 DEF CompleteReturn
<1>18. CASE RequestFails(w)
  BY <1>18 DEF RequestFails
<1>19. CASE WorkerDies(w)
  BY <1>19 DEF WorkerDies
<1>. QED
  BY <1>1, <1>2, <1>3, <1>4, <1>5, <1>6, <1>7, <1>8, <1>9, <1>10,
     <1>11, <1>12, <1>13, <1>14, <1>15, <1>16, <1>17, <1>18, <1>19 DEF Arrive, Wait, Proceed

\* So does every other step.
LEMMA OtherStepIInv ==
    ASSUME IInv,
           \/ \E s \in Sessions : SessionExpires(s) \/ Delete(s) \/ ReconcileRow(s)
           \/ ReconcileScan \/ ReconcileDies \/ ReconcileCommit
           \/ UNCHANGED vars
    PROVE  IInv'
<1> USE SessionAssumption
    DEF IInv, TypeOK, Steps, Requests, RequestInv, HolderInv, HoldsRow, Locking, MarkInv, DataInv,
        LockKeepsInProgress, coreVars, responseVars, workerVars, jobVars
<1>1. ASSUME NEW s \in Sessions, SessionExpires(s)
      PROVE  IInv'
  BY <1>1 DEF SessionExpires
<1>2. ASSUME NEW s \in Sessions, DeleteResponse(s)
      PROVE  IInv'
  BY <1>2 DEF DeleteResponse
<1>3. ASSUME NEW s \in Sessions, DeleteCore(s)
      PROVE  IInv'
  BY <1>3 DEF DeleteCore, RowFree
<1>4. ASSUME NEW s \in Sessions, DeleteDies(s)
      PROVE  IInv'
  BY <1>4 DEF DeleteDies
<1>5. ASSUME NEW s \in Sessions, ReconcileSkip(s)
      PROVE  IInv'
  BY <1>5 DEF ReconcileSkip
<1>6. ASSUME NEW s \in Sessions, ReconcileMark(s)
      PROVE  IInv'
  BY <1>6 DEF ReconcileMark, RowFree
<1>7. ASSUME NEW s \in Sessions, ReconcileMarkViolates(s)
      PROVE  IInv'
  BY <1>7 DEF ReconcileMarkViolates
<1>8. CASE ReconcileScan
  BY <1>8 DEF ReconcileScan
<1>9. CASE ReconcileDies
  BY <1>9 DEF ReconcileDies
<1>10. CASE ReconcileCommit
  BY <1>10 DEF ReconcileCommit
<1>11. CASE UNCHANGED vars
  BY <1>11 DEF vars
<1>. QED
  BY <1>1, <1>2, <1>3, <1>4, <1>5, <1>6, <1>7, <1>8, <1>9, <1>10, <1>11 DEF Delete, ReconcileRow

\* IInv is an invariant of the specification.
THEOREM InductiveInvariant == Spec => []IInv
<1>1. IInv /\ [Next]_vars => IInv'
  BY WorkerStepIInv, OtherStepIInv DEF Next
<1>. QED
  BY InitIInv, <1>1, PTL DEF Spec

\* Every variable keeps its type.
THEOREM TypeCorrect == Spec => []TypeOK
BY InductiveInvariant, PTL DEF IInv

\* Nothing is left of a deleted session.
THEOREM ErasureComplete == Spec => []ErasureIsComplete
<1>1. IInv => ErasureIsComplete
  BY DEF IInv, DataInv, ErasureIsComplete
<1>. QED
  BY <1>1, InductiveInvariant, PTL

\* Every answer has its slot.
THEOREM AnswersHaveSlots == Spec => []AnswerHasSlot
<1>1. IInv => AnswerHasSlot
  BY DEF IInv, DataInv, AnswerHasSlot
<1>. QED
  BY <1>1, InductiveInvariant, PTL

\* Abandoned sessions hold no answers.
THEOREM AbandonedEmpty == Spec => []AbandonedHasNoAnswers
<1>1. IInv => AbandonedHasNoAnswers
  BY DEF IInv, DataInv, AbandonedHasNoAnswers
<1>. QED
  BY <1>1, InductiveInvariant, PTL

\* A fresh read under the row lock stays true.
THEOREM LockReliable == Spec => []LockKeepsInProgress
BY InductiveInvariant, PTL DEF IInv

\* The status of a session is changed by a completion, a deletion or the job.
LEMMA OnlyThreeChangeStatus ==
    ASSUME Next,
           \A w \in Workers : ~CompleteCommit(w),
           \A s \in Sessions : ~DeleteCore(s),
           ~ReconcileCommit
    PROVE  UNCHANGED <<status, completions>>
BY DEF Next, Arrive, LoadCached, LoadCachedExpired, ReadRow, Wait, LockForUpdate, LockRefused,
       SaveReturn, Proceed, ReadEnvelope, EnvelopeNotFound, SaveSlot, SaveUpsert, SaveOrphaned,
       CompleteMark, CompleteEvent, CompleteEventFails, CompleteReturn, RequestFails, WorkerDies,
       ContextExpires, SessionExpires, Delete, DeleteResponse, DeleteDies, ReconcileRow,
       ReconcileSkip, ReconcileMark, ReconcileMarkViolates, ReconcileScan, ReconcileDies, coreVars

\* Completed sessions stay completed until they are deleted.
THEOREM CompletedStays == Spec => CompletedStaysCompleted
<1> DEFINE Stays == \A s \in Sessions :
                        status[s] = "completed" => status'[s] \in {"completed", "deleted"}
<1>1. IInv /\ [Next]_vars => [Stays]_vars
  <2> SUFFICES ASSUME IInv, Next
               PROVE  Stays
    OBVIOUS
  <2> USE DEF IInv, TypeOK
  <2>1. ASSUME NEW w \in Workers, CompleteCommit(w)
        PROVE  Stays
    BY <2>1 DEF CompleteCommit
  <2>2. ASSUME NEW s \in Sessions, DeleteCore(s)
        PROVE  Stays
    BY <2>2 DEF DeleteCore
  <2>3. CASE ReconcileCommit
    BY <2>3 DEF ReconcileCommit, MarkInv
  <2>4. CASE UNCHANGED status
    BY <2>4
  <2>. QED
    BY <2>1, <2>2, <2>3, <2>4, OnlyThreeChangeStatus
<1>. QED
  BY <1>1, InductiveInvariant, PTL DEF Spec, CompletedStaysCompleted

\* A session whose response data are gone, of which no deletion is under way.
Stranded(s) == s \notin envelopes /\ s \notin erasing /\ status[s] # "deleted"

\* A deletion that failed between its two commits is never finished, by no other
\* request and not by the job: the row stays in Core, no deletion of it begins
\* again, and no answer is stored for it (delete_session has no retry of its own).
THEOREM InterruptedDeletionStays ==
    Spec => [][\A s \in Sessions : Stranded(s) =>
                  Stranded(s)' /\ \A q \in Questions : <<s, q>> \notin answers']_vars
<1> DEFINE Stays == \A s \in Sessions : Stranded(s) =>
                        Stranded(s)' /\ \A q \in Questions : <<s, q>> \notin answers'
<1>1. IInv /\ [Next]_vars => [Stays]_vars
  <2> SUFFICES ASSUME IInv, IInv', Next, NEW s \in Sessions, Stranded(s)
               PROVE  Stranded(s)' /\ \A q \in Questions : <<s, q>> \notin answers'
    BY WorkerStepIInv, OtherStepIInv DEF Next
  <2> USE DEF IInv, TypeOK, Stranded
  <2>1. s \notin envelopes' /\ s \notin erasing'
    <3>1. ASSUME NEW t \in Sessions, Delete(t)
          PROVE  s \notin envelopes' /\ s \notin erasing'
      BY <3>1 DEF Delete, DeleteResponse, DeleteCore, DeleteDies, responseVars
    <3>2. CASE \A t \in Sessions : ~Delete(t)
      BY <3>2 DEF Next, Arrive, LoadCached, LoadCachedExpired, ReadRow, Wait, LockForUpdate, LockRefused,
         SaveReturn, Proceed, ReadEnvelope, EnvelopeNotFound, SaveSlot, SaveUpsert, SaveOrphaned,
         CompleteMark, CompleteEvent, CompleteEventFails, CompleteCommit, CompleteReturn, RequestFails,
         WorkerDies, ContextExpires, SessionExpires, ReconcileRow, ReconcileSkip, ReconcileMark,
         ReconcileMarkViolates, ReconcileScan, ReconcileDies, ReconcileCommit, responseVars
    <3>. QED
      BY <3>1, <3>2
  <2>2. status'[s] # "deleted"
    <3>1. ASSUME NEW w \in Workers, CompleteCommit(w)
          PROVE  status'[s] # "deleted"
      BY <3>1 DEF CompleteCommit
    <3>2. ASSUME NEW t \in Sessions, DeleteCore(t)
          PROVE  status'[s] # "deleted"
      BY <3>2 DEF DeleteCore
    <3>3. CASE ReconcileCommit
      BY <3>3 DEF ReconcileCommit
    <3>4. CASE UNCHANGED status
      BY <3>4
    <3>. QED
      BY <3>1, <3>2, <3>3, <3>4, OnlyThreeChangeStatus
  <2>3. \A q \in Questions : <<s, q>> \notin answers'
    BY <2>1 DEF DataInv
  <2>. QED
    BY <2>1, <2>2, <2>3
<1>. QED
  BY <1>1, InductiveInvariant, PTL DEF Spec

\* Who has committed a completion did so with CompleteCommit.
LEMMA CommittedFrom ==
    ASSUME IInv, Next, NEW w \in Workers, pc'[w] = "committed"
    PROVE  CompleteCommit(w) \/ (pc[w] = "committed" /\ req'[w] = req[w])
<1> USE DEF IInv, TypeOK, Goto, EndRequest
<1>1. ASSUME NEW v \in Workers, \E r \in Requests : Arrive(v, r)
      PROVE  pc[w] = "committed" /\ req'[w] = req[w]
  BY <1>1 DEF Arrive, LoadCached, LoadCachedExpired, ReadRow
<1>2. ASSUME NEW v \in Workers, Wait(v) \/ RequestFails(v) \/ WorkerDies(v)
      PROVE  pc[w] = "committed" /\ req'[w] = req[w]
  BY <1>2 DEF Wait, LockForUpdate, LockRefused, SaveReturn, RequestFails, WorkerDies
<1>3. ASSUME NEW v \in Workers, Proceed(v)
      PROVE  CompleteCommit(w) \/ (pc[w] = "committed" /\ req'[w] = req[w])
  BY <1>3 DEF Proceed, ReadEnvelope, EnvelopeNotFound, SaveSlot, SaveUpsert, SaveOrphaned,
              CompleteMark, CompleteEvent, CompleteEventFails, CompleteCommit, CompleteReturn
<1>4. CASE \/ \E v \in Workers, s \in Sessions : ContextExpires(v, s)
           \/ \E s \in Sessions : SessionExpires(s) \/ Delete(s) \/ ReconcileRow(s)
           \/ ReconcileScan \/ ReconcileDies \/ ReconcileCommit
  BY <1>4 DEF ContextExpires, SessionExpires, Delete, DeleteResponse, DeleteCore, DeleteDies,
              ReconcileRow, ReconcileSkip, ReconcileMark, ReconcileMarkViolates, ReconcileScan,
              ReconcileDies, ReconcileCommit, workerVars
<1>. QED
  BY <1>1, <1>2, <1>3, <1>4 DEF Next

\* What CompletionReportedIsDone says holds but for the event that fails: a
\* completion that is reported after a commit of its own is done, and only a
\* deletion changes that.
THEOREM CommittedIsDone ==
    Spec => [](\A w \in Workers :
                  pc[w] = "committed" => status[req[w].session] \in {"completed", "deleted"})
<1> DEFINE Done == \A w \in Workers :
                       pc[w] = "committed" => status[req[w].session] \in {"completed", "deleted"}
<1>1. Init => Done
  BY DEF Init
<1>2. ASSUME IInv, Done, Next
      PROVE  Done'
  <2> USE DEF IInv, TypeOK
  <2>1. ASSUME NEW w \in Workers, pc'[w] = "committed"
        PROVE  (status[req[w].session] \in {"completed", "deleted"} \/ CompleteCommit(w))
               /\ req'[w] = req[w] /\ req[w].session \in Sessions
    <3>1. CompleteCommit(w) \/ (pc[w] = "committed" /\ req'[w] = req[w])
      BY <1>2, <2>1, CommittedFrom
    <3>2. pc[w] # "idle" /\ req'[w] = req[w]
      BY <1>2, <3>1 DEF CompleteCommit, Goto
    <3>3. req[w].session \in Sessions
      BY <1>2, <3>2 DEF RequestInv, Requests
    <3>. QED
      BY <1>2, <3>1, <3>2, <3>3
  <2>2. ASSUME NEW s \in Sessions, status[s] \in {"completed", "deleted"}
        PROVE  status'[s] \in {"completed", "deleted"}
    <3>1. ASSUME NEW w \in Workers, CompleteCommit(w)
          PROVE  status'[s] \in {"completed", "deleted"}
      BY <1>2, <2>2, <3>1 DEF CompleteCommit
    <3>2. ASSUME NEW r \in Sessions, DeleteCore(r)
          PROVE  status'[s] \in {"completed", "deleted"}
      BY <1>2, <2>2, <3>2 DEF DeleteCore
    <3>3. CASE ReconcileCommit
      BY <1>2, <2>2, <3>3 DEF ReconcileCommit, MarkInv
    <3>. QED
      BY <1>2, <2>2, <3>1, <3>2, <3>3, OnlyThreeChangeStatus
  <2>3. ASSUME NEW w \in Workers, CompleteCommit(w), req[w].session \in Sessions
        PROVE  status'[req[w].session] = "completed"
    BY <1>2, <2>3 DEF CompleteCommit
  <2>. QED
    BY <2>1, <2>2, <2>3
<1>3. Done /\ UNCHANGED vars => Done'
  BY DEF vars, coreVars, workerVars
<1>. QED
  BY <1>1, <1>2, <1>3, InductiveInvariant, PTL DEF Spec

-----------------------------------------------------------------------------
(***************************************************************************)
(* Repeated completions.  A worker that could still complete session s is  *)
(* pending; nobody becomes pending once s is completed, and each           *)
(* completion uses one of them up.                                         *)
(***************************************************************************)
Pending(s) ==
    {w \in Workers : req[w] # NoRequest /\ req[w].session = s /\ req[w].kind = "complete" /\ Admitted(w)}

BoundInv ==
    \A s \in Sessions :
        /\ status[s] \in {"in_progress", "deleted"} => completions[s] = 0
        /\ completions[s] + Cardinality(Pending(s)) <= Cardinality(Workers)

\* The pending workers of a session are among the workers.
LEMMA PendingFinite ==
    ASSUME NEW s
    PROVE  /\ IsFiniteSet(Pending(s))
           /\ Cardinality(Pending(s)) \in Nat
           /\ Cardinality(Pending(s)) <= Cardinality(Workers)
           /\ Cardinality(Workers) \in Nat
<1>1. Pending(s) \in SUBSET Workers
  BY DEF Pending
<1>. QED
  BY <1>1, SessionAssumption, FS_Subset, FS_CardinalityType

\* A step that makes nobody pending does not raise their number.
LEMMA PendingShrinks ==
    ASSUME NEW s, Pending(s)' \subseteq Pending(s)
    PROVE  Cardinality(Pending(s)') \in Nat /\ Cardinality(Pending(s)') <= Cardinality(Pending(s))
<1>1. Pending(s)' \in SUBSET Pending(s)
  OBVIOUS
<1>. QED
  BY <1>1, PendingFinite, FS_Subset, FS_CardinalityType

\* A step that neither sees a session in progress nor commits a completion
\* makes nobody pending.
LEMMA WorkerStepPending ==
    ASSUME IInv, NEW w \in Workers, NEW s \in Sessions,
           \/ \E r \in Requests : Arrive(w, r)
           \/ Wait(w) \/ Proceed(w) \/ RequestFails(w) \/ WorkerDies(w)
           \/ \E t \in Sessions : ContextExpires(w, t),
           ~CompleteCommit(w)
    PROVE  /\ UNCHANGED <<status, completions>>
           /\ status[s] = "in_progress" \/ Pending(s)' \subseteq Pending(s)
<1> USE SessionAssumption
    DEF IInv, TypeOK, Requests, RequestInv, Pending, Admitted, Locking, Goto, EndRequest, coreVars
<1>1. ASSUME NEW r \in Requests, LoadCached(w, r) \/ LoadCachedExpired(w, r) \/ ReadRow(w, r)
      PROVE  /\ UNCHANGED <<status, completions>>
             /\ status[s] = "in_progress" \/ Pending(s)' \subseteq Pending(s)
  BY <1>1 DEF LoadCached, LoadCachedExpired, ReadRow
<1>2. CASE LockForUpdate(w)
  BY <1>2 DEF LockForUpdate, LockedStatus
<1>3. ASSUME NEW t \in Sessions, ContextExpires(w, t)
      PROVE  UNCHANGED <<status, completions>> /\ Pending(s)' \subseteq Pending(s)
  BY <1>3 DEF ContextExpires
<1>4. CASE ReadEnvelope(w)
  BY <1>4 DEF ReadEnvelope
<1>5. CASE EnvelopeNotFound(w)
  BY <1>5 DEF EnvelopeNotFound
<1>6. CASE LockRefused(w)
  BY <1>6 DEF LockRefused
<1>7. CASE SaveSlot(w)
  BY <1>7 DEF SaveSlot
<1>8. CASE SaveUpsert(w)
  BY <1>8 DEF SaveUpsert
<1>9. CASE SaveOrphaned(w)
  BY <1>9 DEF SaveOrphaned
<1>10. CASE SaveReturn(w)
  BY <1>10 DEF SaveReturn
<1>11. CASE CompleteMark(w)
  BY <1>11 DEF CompleteMark
<1>12. CASE CompleteEvent(w)
  BY <1>12 DEF CompleteEvent
<1>13. CASE CompleteEventFails(w)
  BY <1>13 DEF CompleteEventFails
<1>14. CASE CompleteReturn(w)
  BY <1>14 DEF CompleteReturn
<1>15. CASE RequestFails(w)
  BY <1>15 DEF RequestFails
<1>16. CASE WorkerDies(w)
  BY <1>16 DEF WorkerDies
<1>. QED
  BY <1>1, <1>2, <1>3, <1>4, <1>5, <1>6, <1>7, <1>8, <1>9, <1>10,
     <1>11, <1>12, <1>13, <1>14, <1>15, <1>16 DEF Arrive, Wait, Proceed

\* What any step does to the completions of a session.
LEMMA CompletionStep ==
    ASSUME IInv, Next, NEW s \in Sessions
    PROVE  \/ /\ completions'[s] = completions[s]
              /\ status'[s] \in {"in_progress", "deleted"} => status[s] = status'[s]
              /\ status[s] = "in_progress" \/ Pending(s)' \subseteq Pending(s)
           \/ completions'[s] = 0
           \/ /\ completions'[s] = completions[s] + 1
              /\ status'[s] = "completed"
              /\ \E w \in Pending(s) : Pending(s)' \subseteq Pending(s) \ {w}
<1>1. ASSUME NEW w \in Workers,
             \/ \E r \in Requests : Arrive(w, r)
             \/ Wait(w) \/ Proceed(w) \/ RequestFails(w) \/ WorkerDies(w)
             \/ \E t \in Sessions : ContextExpires(w, t),
             ~CompleteCommit(w)
      PROVE  /\ UNCHANGED <<status, completions>>
             /\ status[s] = "in_progress" \/ Pending(s)' \subseteq Pending(s)
  BY <1>1, WorkerStepPending
<1>2. ASSUME NEW w \in Workers, CompleteCommit(w), req[w].session = s
      PROVE  /\ completions'[s] = completions[s] + 1
             /\ status'[s] = "completed"
             /\ w \in Pending(s)
             /\ Pending(s)' \subseteq Pending(s) \ {w}
  BY <1>2, SessionAssumption
     DEF CompleteCommit, IInv, TypeOK, RequestInv, Pending, Admitted, Locking, Goto
<1>3. ASSUME NEW w \in Workers, CompleteCommit(w), req[w].session # s
      PROVE  /\ completions'[s] = completions[s]
             /\ status'[s] = status[s]
             /\ Pending(s)' \subseteq Pending(s)
  BY <1>3 DEF CompleteCommit, IInv, TypeOK, RequestInv, Pending, Admitted, Locking, Goto
<1>4. ASSUME NEW t \in Sessions, DeleteCore(t)
      PROVE  \/ completions'[s] = 0
             \/ /\ completions'[s] = completions[s]
                /\ status'[s] = status[s]
                /\ Pending(s)' = Pending(s)
  BY <1>4 DEF DeleteCore, IInv, TypeOK, Pending, Admitted, workerVars
<1>5. CASE ReconcileCommit
  <2>1. completions' = completions /\ Pending(s)' = Pending(s)
    BY <1>5 DEF ReconcileCommit, Pending, Admitted, workerVars
  <2>2. status'[s] \in {"in_progress", "deleted"} => status[s] = status'[s]
    BY <1>5 DEF ReconcileCommit, IInv, TypeOK
  <2>. QED
    BY <2>1, <2>2
<1>6. ASSUME \/ \E t \in Sessions : SessionExpires(t) \/ DeleteResponse(t) \/ DeleteDies(t) \/ ReconcileRow(t)
             \/ ReconcileScan \/ ReconcileDies
      PROVE  UNCHANGED <<status, completions>> /\ Pending(s)' = Pending(s)
  BY <1>6 DEF SessionExpires, DeleteResponse, DeleteDies, ReconcileRow, ReconcileSkip, ReconcileMark,
              ReconcileMarkViolates, ReconcileScan, ReconcileDies, Pending, Admitted,
              workerVars, coreVars
<1>. QED
  BY <1>1, <1>2, <1>3, <1>4, <1>5, <1>6 DEF Next, Delete

\* A session is completed at most once for each worker.
THEOREM CompletionsAreBounded == Spec => []CompletionsBounded
<1>1. Init => BoundInv
  <2> SUFFICES ASSUME Init, NEW s \in Sessions
               PROVE  completions[s] = 0 /\ completions[s] + Cardinality(Pending(s)) <= Cardinality(Workers)
    BY DEF BoundInv
  <2>1. completions[s] = 0
    BY DEF Init
  <2>. QED
    BY <2>1, PendingFinite
<1>2. BoundInv /\ IInv /\ IInv' /\ [Next]_vars => BoundInv'
  <2>1. ASSUME BoundInv, UNCHANGED vars
        PROVE  BoundInv'
    BY <2>1 DEF BoundInv, Pending, Admitted, vars, coreVars, workerVars
  <2>2. ASSUME BoundInv, IInv, IInv', Next, NEW s \in Sessions
        PROVE  /\ status'[s] \in {"in_progress", "deleted"} => completions'[s] = 0
               /\ completions'[s] + Cardinality(Pending(s)') <= Cardinality(Workers)
    <3>1. /\ status[s] \in {"in_progress", "deleted"} => completions[s] = 0
          /\ completions[s] + Cardinality(Pending(s)) <= Cardinality(Workers)
          /\ completions[s] \in Nat /\ Cardinality(Pending(s)) \in Nat
      BY <2>2, PendingFinite DEF BoundInv, IInv, TypeOK
    <3>2. /\ Cardinality(Pending(s)') \in Nat
          /\ Cardinality(Pending(s)') <= Cardinality(Workers)
          /\ Cardinality(Workers) \in Nat
      <4>1. Pending(s)' \in SUBSET Workers
        BY DEF Pending
      <4>. QED
        BY <4>1, SessionAssumption, FS_Subset, FS_CardinalityType
    <3>3. CASE completions'[s] = 0
      BY <3>2, <3>3
    <3>4. CASE /\ completions'[s] = completions[s]
               /\ status'[s] \in {"in_progress", "deleted"} => status[s] = status'[s]
               /\ status[s] = "in_progress" \/ Pending(s)' \subseteq Pending(s)
      <4>1. CASE status[s] = "in_progress"
        BY <3>1, <3>2, <3>4, <4>1
      <4>2. CASE Pending(s)' \subseteq Pending(s)
        <5>1. Cardinality(Pending(s)') <= Cardinality(Pending(s))
          BY <4>2, PendingShrinks
        <5>. QED
          BY <3>1, <3>2, <3>4, <5>1
      <4>. QED
        BY <3>4, <4>1, <4>2
    <3>5. ASSUME completions'[s] = completions[s] + 1,
                 status'[s] = "completed",
                 NEW w \in Pending(s), Pending(s)' \subseteq Pending(s) \ {w}
          PROVE  completions'[s] + Cardinality(Pending(s)') <= Cardinality(Workers)
      <4>1. IsFiniteSet(Pending(s) \ {w}) /\ Cardinality(Pending(s) \ {w}) = Cardinality(Pending(s)) - 1
        BY PendingFinite, FS_RemoveElement
      <4>2. Pending(s)' \in SUBSET (Pending(s) \ {w})
        BY <3>5
      <4>3. Cardinality(Pending(s)') <= Cardinality(Pending(s) \ {w})
        BY <4>1, <4>2, FS_Subset
      <4>. QED
        BY <3>1, <3>2, <3>5, <4>1, <4>3
    <3>. QED
      BY <2>2, <3>3, <3>4, <3>5, CompletionStep
  <2>. QED
    BY <2>1, <2>2 DEF BoundInv
<1>3. BoundInv /\ IInv => CompletionsBounded
  <2> SUFFICES ASSUME BoundInv, IInv, NEW s \in Sessions
               PROVE  completions[s] <= Cardinality(Workers)
    BY DEF CompletionsBounded
  <2>1. /\ completions[s] + Cardinality(Pending(s)) <= Cardinality(Workers)
        /\ completions[s] \in Nat
    BY DEF BoundInv, IInv, TypeOK
  <2>. QED
    BY <2>1, PendingFinite
<1>. QED
  BY <1>1, <1>2, <1>3, InductiveInvariant, PTL DEF Spec

-----------------------------------------------------------------------------
(* Refinement of OpenSession *)

AdmittedRequests == [v \in Workers |-> IF Admitted(v) THEN req[v] ELSE NoRequest]

\* A step of worker w that writes nothing can only give its request up.
LEMMA QuietIsWithdrawal ==
    ASSUME IInv, NEW w \in Workers,
           UNCHANGED <<status, answers, envelopes>>,
           \/ AdmittedRequests' = AdmittedRequests
           \/ AdmittedRequests' = [AdmittedRequests EXCEPT ![w] = NoRequest]
    PROVE  Open!Withdraw(w) \/ UNCHANGED Open!vars
<1>1. CASE AdmittedRequests' = AdmittedRequests
  BY <1>1 DEF AdmittedRequests, Open!vars
<1>2. CASE AdmittedRequests[w] = NoRequest
  BY <1>2 DEF AdmittedRequests, Open!vars
<1>3. CASE AdmittedRequests[w] # NoRequest /\ AdmittedRequests' = [AdmittedRequests EXCEPT ![w] = NoRequest]
  BY <1>3 DEF AdmittedRequests, Open!Withdraw, Open!Done
<1>. QED
  BY <1>1, <1>2, <1>3

\* The steps that write nothing that OpenSession knows, and admit nobody.
LEMMA QuietSteps ==
    ASSUME IInv, NEW w \in Workers,
           \/ \E r \in Requests : LoadCached(w, r) \/ LoadCachedExpired(w, r)
           \/ \E s \in Sessions : ContextExpires(w, s)
           \/ ReadEnvelope(w) \/ EnvelopeNotFound(w)
           \/ LockRefused(w)
           \/ SaveSlot(w) \/ SaveOrphaned(w) \/ SaveReturn(w)
           \/ CompleteMark(w) \/ CompleteEvent(w) \/ CompleteEventFails(w) \/ CompleteReturn(w)
           \/ RequestFails(w) \/ WorkerDies(w)
    PROVE  /\ UNCHANGED <<status, answers, envelopes>>
           /\ \/ AdmittedRequests' = AdmittedRequests
              \/ AdmittedRequests' = [AdmittedRequests EXCEPT ![w] = NoRequest]
<1> USE SessionAssumption
    DEF IInv, TypeOK, Requests, RequestInv, AdmittedRequests, Admitted, Locking, Goto, EndRequest,
        coreVars, responseVars
<1>1. ASSUME NEW r \in Requests, LoadCached(w, r) \/ LoadCachedExpired(w, r)
      PROVE  UNCHANGED <<status, answers, envelopes>> /\ AdmittedRequests' = AdmittedRequests
  BY <1>1 DEF LoadCached, LoadCachedExpired
<1>2. ASSUME NEW s \in Sessions, ContextExpires(w, s)
      PROVE  UNCHANGED <<status, answers, envelopes>> /\ AdmittedRequests' = AdmittedRequests
  BY <1>2 DEF ContextExpires
<1>3. CASE ReadEnvelope(w)
  <2>1. /\ pc[w] = "reading"
        /\ pc' = [pc EXCEPT ![w] = "loaded"]
        /\ UNCHANGED <<status, answers, envelopes, req>>
    BY <1>3 DEF ReadEnvelope
  <2>2. CASE held' = held
    BY <2>1, <2>2
  <2>3. CASE held' = [held EXCEPT ![w] = "nothing"]
    BY <2>1, <2>3
  <2>. QED
    BY <1>3, <2>2, <2>3 DEF ReadEnvelope
<1>4. CASE EnvelopeNotFound(w)
  BY <1>4 DEF EnvelopeNotFound
<1>5. CASE LockRefused(w)
  BY <1>5 DEF LockRefused
<1>6. CASE SaveSlot(w)
  BY <1>6 DEF SaveSlot
<1>7. CASE SaveOrphaned(w)
  BY <1>7 DEF SaveOrphaned
<1>8. CASE SaveReturn(w)
  BY <1>8 DEF SaveReturn
<1>9. CASE CompleteMark(w)
  BY <1>9 DEF CompleteMark
<1>10. CASE CompleteEvent(w)
  BY <1>10 DEF CompleteEvent
<1>11. CASE CompleteEventFails(w)
  BY <1>11 DEF CompleteEventFails
<1>12. CASE CompleteReturn(w)
  BY <1>12 DEF CompleteReturn
<1>13. CASE RequestFails(w)
  BY <1>13 DEF RequestFails
<1>14. CASE WorkerDies(w)
  BY <1>14 DEF WorkerDies
<1>. QED
  BY <1>1, <1>2, <1>3, <1>4, <1>5, <1>6, <1>7, <1>8, <1>9, <1>10,
     <1>11, <1>12, <1>13, <1>14

\* The steps of a worker: admission is a read of the row that finds the session
\* in progress, the effect is the commit.
LEMMA WorkerStepIsOpen ==
    ASSUME IInv, NEW w \in Workers,
           \/ \E r \in Requests : Arrive(w, r)
           \/ Wait(w) \/ Proceed(w) \/ RequestFails(w) \/ WorkerDies(w)
           \/ \E s \in Sessions : ContextExpires(w, s)
    PROVE  [Open!Next]_(Open!vars)
<1>1. ASSUME NEW r \in Requests, ReadRow(w, r)
      PROVE  Open!Admit(w, r) \/ UNCHANGED Open!vars
  BY <1>1, SessionAssumption
     DEF ReadRow, IInv, TypeOK, RequestInv, Admitted, Locking, coreVars, responseVars,
         Open!Admit, Open!vars
<1>2. CASE LockForUpdate(w)
  <2>1. req[w] \in Requests /\ UNCHANGED <<status, answers, envelopes, req, held>>
    BY <1>2 DEF LockForUpdate, IInv, RequestInv, Goto, coreVars, responseVars
  <2>2. CASE held[w] = "nothing"
    <3>1. PICK r \in Requests : r = req[w]
      BY <2>1
    <3>2. Open!Admit(w, r)
      BY <1>2, <2>1, <2>2, <3>1
         DEF LockForUpdate, LockedStatus, IInv, TypeOK, Admitted, Locking, Goto, Open!Admit
    <3>. QED
      BY <3>2 DEF Open!Next
  <2>3. CASE held[w] # "nothing"
    <3>1. held[w] = "in_progress"
      BY <1>2, <2>3 DEF LockForUpdate, LockedStatus, IInv, TypeOK, DataInv
    <3>. QED
      BY <1>2, <2>1, <3>1 DEF LockForUpdate, IInv, TypeOK, Admitted, Locking, Goto, Open!vars
  <2>. QED
    BY <2>2, <2>3
<1>3. ASSUME SaveUpsert(w)
      PROVE  Open!Save(w)
  BY <1>3, SessionAssumption
     DEF SaveUpsert, IInv, TypeOK, RequestInv, Admitted, Locking, Goto, coreVars,
         Open!Save, Open!Done
<1>4. ASSUME CompleteCommit(w)
      PROVE  Open!Complete(w)
  BY <1>4, SessionAssumption
     DEF CompleteCommit, IInv, TypeOK, RequestInv, HolderInv, Admitted, Locking, Goto, responseVars,
         Open!Complete, Open!Done
<1>5. CASE \/ \E r \in Requests : LoadCached(w, r) \/ LoadCachedExpired(w, r)
           \/ \E s \in Sessions : ContextExpires(w, s)
           \/ ReadEnvelope(w) \/ EnvelopeNotFound(w)
           \/ LockRefused(w)
           \/ SaveSlot(w) \/ SaveOrphaned(w) \/ SaveReturn(w)
           \/ CompleteMark(w) \/ CompleteEvent(w) \/ CompleteEventFails(w) \/ CompleteReturn(w)
           \/ RequestFails(w) \/ WorkerDies(w)
  <2>1. Open!Withdraw(w) \/ UNCHANGED Open!vars
    BY <1>5, QuietSteps, QuietIsWithdrawal
  <2>. QED
    BY <2>1 DEF Open!Next
<1>. QED
  BY <1>1, <1>2, <1>3, <1>4, <1>5 DEF Arrive, Wait, Proceed, Open!Next

\* The administrator and the job.
LEMMA OtherStepIsOpen ==
    ASSUME IInv,
           \/ \E s \in Sessions : SessionExpires(s) \/ Delete(s) \/ ReconcileRow(s)
           \/ ReconcileScan \/ ReconcileDies \/ ReconcileCommit
           \/ UNCHANGED vars
    PROVE  [Open!Next]_(Open!vars)
<1>1. ASSUME NEW s \in Sessions, DeleteResponse(s)
      PROVE  Open!Erase(s)
  BY <1>1 DEF DeleteResponse, IInv, TypeOK, Admitted, coreVars, workerVars, Open!Erase
<1>2. ASSUME NEW s \in Sessions, DeleteCore(s)
      PROVE  Open!Delete(s)
  BY <1>2 DEF DeleteCore, IInv, DataInv, Admitted, responseVars, workerVars, Open!Delete
<1>3. ASSUME ReconcileCommit
      PROVE  Open!Abandon(marks)
  BY <1>3 DEF ReconcileCommit, IInv, TypeOK, MarkInv, Admitted, responseVars, workerVars, Open!Abandon
<1>4. ASSUME \/ \E s \in Sessions : SessionExpires(s) \/ DeleteDies(s) \/ ReconcileRow(s)
             \/ ReconcileScan \/ ReconcileDies
             \/ UNCHANGED vars
      PROVE  UNCHANGED Open!vars
  BY <1>4 DEF SessionExpires, DeleteDies, ReconcileRow, ReconcileSkip, ReconcileMark,
              ReconcileMarkViolates, ReconcileScan, ReconcileDies, Admitted,
              vars, coreVars, responseVars, workerVars, Open!vars
<1>5. marks \in SUBSET Sessions
  BY DEF IInv, TypeOK
<1>. QED
  BY <1>1, <1>2, <1>3, <1>4, <1>5 DEF Delete, Open!Next

\* The session commands implement OpenSession.
THEOREM CommandsRefineOpenSession == Spec => CommandsFindSessionOpen
<1>1. Init => Open!Init
  BY DEF Init, Admitted, Locking, Open!Init
<1>2. IInv /\ [Next]_vars => [Open!Next]_(Open!vars)
  BY WorkerStepIsOpen, OtherStepIsOpen DEF Next
<1>. QED
  BY <1>1, <1>2, InductiveInvariant, PTL DEF Spec, CommandsFindSessionOpen, Open!Spec

=============================================================================
