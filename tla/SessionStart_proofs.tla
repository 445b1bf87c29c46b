------------------------ MODULE SessionStart_proofs ------------------------
(***************************************************************************)
(* Proofs about SessionStart, for any number of workers, attempts and      *)
(* links.  IInv is the inductive invariant; the named theorems follow.     *)
(***************************************************************************)
EXTENDS SessionStart, FiniteSetTheorems, TLAPS

-----------------------------------------------------------------------------
(* The inductive invariant *)

\* A busy worker serves one running attempt, and no two serve the same.
ServesOne ==
    /\ \A w \in Workers :
          /\ pc[w] = "idle" => serving[w] = NoSession
          /\ pc[w] # "idle" => serving[w] \in Sessions /\ outcome[serving[w]] = "running"
    /\ \A v, w \in Workers : v # w /\ serving[v] = serving[w] => serving[w] = NoSession

\* What the two databases hold of an attempt that is being served.
PhaseInv ==
    \A w \in Workers :
        /\ pc[w] \in {"enveloped", "cleanup", "committed"} => serving[w] \in envelopes
        /\ pc[w] = "committed" => status[serving[w]] = "in_progress"
        /\ pc[w] \notin {"idle", "cleanup", "reporting", "committed"} => status[serving[w]] = "absent"

\* What they hold of the others: a core row without envelope is of a start that
\* is not returned any more.
OutcomeInv ==
    \A s \in Sessions :
        /\ outcome[s] = "none" => status[s] = "absent" /\ s \notin envelopes
        /\ outcome[s] = "returned" => status[s] = "in_progress" /\ s \in envelopes
        /\ status[s] # "absent" /\ s \notin envelopes => NeverReturned(s)
        /\ status[s] = "abandoned" => s \notin envelopes

\* The job works on committed sessions and marks those without envelope.
JobInv ==
    /\ \A s \in todo : status[s] # "absent"
    /\ \A s \in marks : status[s] # "absent" /\ s \notin envelopes

IInv == TypeOK /\ ServesOne /\ PhaseInv /\ OutcomeInv /\ JobInv

-----------------------------------------------------------------------------
\* The initial states satisfy the invariant.
LEMMA InitIInv == Init => IInv
BY StartAssumption DEF Init, IInv, TypeOK, Steps, Outcomes, ServesOne, PhaseInv, OutcomeInv, JobInv,
              NeverReturned

\* Every step of a request preserves it.
LEMMA RequestStepIInv ==
    ASSUME IInv,
           NEW w \in Workers,
           \/ StartStep(w)
           \/ StartFails(w)
           \/ WorkerDies(w)
           \/ LinkageKeyExpires(w)
           \/ \E s \in Sessions, l \in Links \cup {NoLink} : ResolveAccess(w, s, l)
    PROVE  IInv'
<1> USE StartAssumption
    DEF IInv, TypeOK, Steps, Outcomes, ServesOne, PhaseInv, OutcomeInv, JobInv, NeverReturned,
        Goto, EndRequest, coreVars, jobVars, workerVars
<1>1. ASSUME NEW s \in Sessions, NEW l \in Links \cup {NoLink}, ResolveAccess(w, s, l)
      PROVE  IInv'
  BY <1>1 DEF ResolveAccess
<1>2. CASE ResolveSubject(w)
  BY <1>2 DEF ResolveSubject
<1>3. CASE CachedLinkageKey(w)
  BY <1>3 DEF CachedLinkageKey
<1>4. CASE FetchLinkageKey(w)
  BY <1>4 DEF FetchLinkageKey
<1>5. CASE EnsureVersionRow(w)
  BY <1>5 DEF EnsureVersionRow
<1>6. CASE EnsureVersionRowAckLost(w)
  BY <1>6 DEF EnsureVersionRowAckLost
<1>7. CASE VersionRowConflict(w)
  BY <1>7 DEF VersionRowConflict
<1>8. CASE CreateSession(w)
  BY <1>8 DEF CreateSession
<1>9. CASE CreateSessionRejected(w)
  BY <1>9 DEF CreateSessionRejected
<1>10. CASE ConsumeLink(w)
  BY <1>10 DEF ConsumeLink
<1>11. CASE CreateEnvelope(w)
  BY <1>11 DEF CreateEnvelope
<1>12. CASE EnvelopeAckLost(w)
  BY <1>12 DEF EnvelopeAckLost
<1>13. CASE CommitCore(w)
  BY <1>13 DEF CommitCore, PublishCore
<1>14. CASE CommitCoreFails(w)
  BY <1>14 DEF CommitCoreFails
<1>15. CASE CommitCoreAckLost(w)
  BY <1>15 DEF CommitCoreAckLost, PublishCore
<1>16. CASE CleanUpEnvelope(w)
  BY <1>16 DEF CleanUpEnvelope
<1>17. CASE CleanUpFails(w)
  BY <1>17 DEF CleanUpFails
<1>18. CASE ReturnTokens(w)
  BY <1>18 DEF ReturnTokens
<1>19. CASE StartFails(w)
  BY <1>19 DEF StartFails
<1>20. CASE WorkerDies(w)
  BY <1>20 DEF WorkerDies
<1>21. CASE LinkageKeyExpires(w)
  BY <1>21 DEF LinkageKeyExpires
<1>22. CASE ReportFailure(w)
  BY <1>22 DEF ReportFailure
<1>. QED
  BY <1>1, <1>2, <1>3, <1>4, <1>5, <1>6, <1>7, <1>8, <1>9, <1>10, <1>11,
     <1>12, <1>13, <1>14, <1>15, <1>16, <1>17, <1>18, <1>19, <1>20, <1>21, <1>22 DEF StartStep

\* So does every step of the reconciliation job.
LEMMA ReconcileStepIInv ==
    ASSUME IInv, Reconcile
    PROVE  IInv'
<1> USE DEF IInv, TypeOK, ServesOne, PhaseInv, OutcomeInv, JobInv, NeverReturned, coreVars, workerVars
<1>1. CASE ReconcileScan
  BY <1>1 DEF ReconcileScan
<1>2. ASSUME NEW s \in Sessions, ReconcileCheck(s)
      PROVE  IInv'
  BY <1>2 DEF ReconcileCheck
<1>3. CASE ReconcileCommit
  BY <1>3 DEF ReconcileCommit
<1>4. CASE ReconcileDies
  BY <1>4 DEF ReconcileDies
<1>. QED
  BY <1>1, <1>2, <1>3, <1>4 DEF Reconcile

\* A step that changes nothing preserves it.
LEMMA StutterIInv ==
    ASSUME IInv, UNCHANGED vars
    PROVE  IInv'
BY DEF IInv, TypeOK, ServesOne, PhaseInv, OutcomeInv, JobInv, NeverReturned,
       vars, workerVars, coreVars, jobVars

\* IInv is an invariant of the specification.
THEOREM InductiveInvariant == Spec => []IInv
<1>1. IInv /\ [Next]_vars => IInv'
  BY RequestStepIInv, ReconcileStepIInv, StutterIInv DEF Next
<1>. QED
  BY InitIInv, <1>1, PTL DEF Spec

\* Every variable keeps its type.
THEOREM TypeCorrect == Spec => []TypeOK
BY InductiveInvariant, PTL DEF IInv

\* Tokens in the browser always name a usable session.
THEOREM ReturnedUsable == Spec => []ReturnedSessionUsable
<1>1. IInv => ReturnedSessionUsable
  BY DEF IInv, OutcomeInv, ReturnedSessionUsable, Usable
<1>. QED
  BY <1>1, InductiveInvariant, PTL

\* The job abandons nothing but starts that are not returned.
THEOREM AbandonedUndone == Spec => []OnlyUndoneStartsAbandoned
<1>1. IInv => OnlyUndoneStartsAbandoned
  BY DEF IInv, OutcomeInv, OnlyUndoneStartsAbandoned
<1>. QED
  BY <1>1, InductiveInvariant, PTL

-----------------------------------------------------------------------------
(***************************************************************************)
(* When every commit is reported as it went, a start is atomic.  For that  *)
(* one needs to know that a cleanup and a reported failure never have a    *)
(* committed core row, which IInv cannot say: a lost acknowledgement makes *)
(* it false.                                                               *)
(***************************************************************************)
FailedInv ==
    /\ \A w \in Workers : pc[w] \in {"cleanup", "reporting"} => status[serving[w]] = "absent"
    /\ \A s \in Sessions : outcome[s] = "failed" => status[s] = "absent"

AInv == IInv /\ FailedInv

\* The steps of a request preserve what is known of failed attempts.
LEMMA RequestStepFailedInv ==
    ASSUME ~LostAcks, AInv,
           NEW w \in Workers,
           \/ StartStep(w)
           \/ StartFails(w)
           \/ WorkerDies(w)
           \/ LinkageKeyExpires(w)
           \/ \E s \in Sessions, l \in Links \cup {NoLink} : ResolveAccess(w, s, l)
    PROVE  FailedInv'
<1> USE StartAssumption
    DEF AInv, IInv, TypeOK, Steps, Outcomes, ServesOne, PhaseInv, OutcomeInv, FailedInv,
        Goto, EndRequest, coreVars
<1>1. ASSUME NEW s \in Sessions, NEW l \in Links \cup {NoLink}, ResolveAccess(w, s, l)
      PROVE  FailedInv'
  BY <1>1 DEF ResolveAccess
<1>2. CASE ResolveSubject(w)
  BY <1>2 DEF ResolveSubject
<1>3. CASE CachedLinkageKey(w)
  BY <1>3 DEF CachedLinkageKey
<1>4. CASE FetchLinkageKey(w)
  BY <1>4 DEF FetchLinkageKey
<1>5. CASE EnsureVersionRow(w)
  BY <1>5 DEF EnsureVersionRow
<1>6. CASE EnsureVersionRowAckLost(w)
  BY <1>6 DEF EnsureVersionRowAckLost
<1>7. CASE VersionRowConflict(w)
  BY <1>7 DEF VersionRowConflict
<1>8. CASE CreateSession(w)
  BY <1>8 DEF CreateSession
<1>9. CASE CreateSessionRejected(w)
  BY <1>9 DEF CreateSessionRejected
<1>10. CASE ConsumeLink(w)
  BY <1>10 DEF ConsumeLink
<1>11. CASE CreateEnvelope(w)
  BY <1>11 DEF CreateEnvelope
<1>12. CASE EnvelopeAckLost(w)
  BY <1>12 DEF EnvelopeAckLost
<1>13. CASE CommitCore(w)
  BY <1>13 DEF CommitCore, PublishCore
<1>14. CASE CommitCoreFails(w)
  BY <1>14 DEF CommitCoreFails
<1>15. CASE CommitCoreAckLost(w)
  BY <1>15 DEF CommitCoreAckLost, PublishCore
<1>16. CASE CleanUpEnvelope(w)
  BY <1>16 DEF CleanUpEnvelope
<1>17. CASE CleanUpFails(w)
  BY <1>17 DEF CleanUpFails
<1>18. CASE ReturnTokens(w)
  BY <1>18 DEF ReturnTokens
<1>19. CASE StartFails(w)
  BY <1>19 DEF StartFails
<1>20. CASE WorkerDies(w)
  BY <1>20 DEF WorkerDies
<1>21. CASE LinkageKeyExpires(w)
  BY <1>21 DEF LinkageKeyExpires
<1>22. CASE ReportFailure(w)
  BY <1>22 DEF ReportFailure
<1>. QED
  BY <1>1, <1>2, <1>3, <1>4, <1>5, <1>6, <1>7, <1>8, <1>9, <1>10, <1>11,
     <1>12, <1>13, <1>14, <1>15, <1>16, <1>17, <1>18, <1>19, <1>20, <1>21, <1>22 DEF StartStep

\* So do the steps of the reconciliation job.
LEMMA ReconcileStepFailedInv ==
    ASSUME AInv, Reconcile
    PROVE  FailedInv'
<1> USE DEF AInv, IInv, TypeOK, OutcomeInv, ServesOne, PhaseInv, JobInv, FailedInv, coreVars, workerVars
<1>1. CASE ReconcileScan
  BY <1>1 DEF ReconcileScan
<1>2. ASSUME NEW s \in Sessions, ReconcileCheck(s)
      PROVE  FailedInv'
  BY <1>2 DEF ReconcileCheck
<1>3. CASE ReconcileCommit
  BY <1>3 DEF ReconcileCommit
<1>4. CASE ReconcileDies
  BY <1>4 DEF ReconcileDies
<1>. QED
  BY <1>1, <1>2, <1>3, <1>4 DEF Reconcile

\* When no acknowledgement is lost, the strengthening that the refinement rests
\* on (AInv) holds throughout.
THEOREM AtomicInvariant ==
    ASSUME ~LostAcks
    PROVE  Spec => []AInv
<1>1. Init => AInv
  BY InitIInv DEF Init, AInv, FailedInv
<1>2. AInv /\ [Next]_vars => AInv'
  <2>1. ASSUME AInv, UNCHANGED vars
        PROVE  FailedInv'
    BY <2>1 DEF AInv, FailedInv, vars, workerVars, coreVars
  <2>. QED
    BY <2>1, RequestStepFailedInv, ReconcileStepFailedInv,
       RequestStepIInv, ReconcileStepIInv, StutterIInv DEF Next, AInv
<1>. QED
  BY <1>1, <1>2, PTL DEF Spec

-----------------------------------------------------------------------------
(* Refinement of AtomicStart *)

\* The steps of a request: only the core commit, the answer to the browser and
\* the admission are visible.
LEMMA RequestStepIsAtomic ==
    ASSUME ~LostAcks, AInv,
           NEW w \in Workers,
           \/ StartStep(w)
           \/ StartFails(w)
           \/ WorkerDies(w)
           \/ LinkageKeyExpires(w)
           \/ \E s \in Sessions, l \in Links \cup {NoLink} : ResolveAccess(w, s, l)
    PROVE  [Atomic!Next]_(Atomic!vars)
<1> USE StartAssumption
    DEF AInv, IInv, TypeOK, Steps, Outcomes, ServesOne, PhaseInv, OutcomeInv, FailedInv,
        Goto, EndRequest, coreVars, Usable, Atomic!vars
<1>1. ASSUME NEW s \in Sessions, NEW l \in Links \cup {NoLink}, ResolveAccess(w, s, l)
      PROVE  Atomic!Admit(s, l)
  BY <1>1 DEF ResolveAccess, Atomic!Admit
<1>2. CASE ResolveSubject(w)
  BY <1>2 DEF ResolveSubject
<1>3. CASE CachedLinkageKey(w)
  BY <1>3 DEF CachedLinkageKey
<1>4. CASE FetchLinkageKey(w)
  BY <1>4 DEF FetchLinkageKey
<1>5. CASE EnsureVersionRow(w)
  BY <1>5 DEF EnsureVersionRow
<1>6. CASE EnsureVersionRowAckLost(w)
  BY <1>6 DEF EnsureVersionRowAckLost
<1>7. CASE CreateSession(w)
  BY <1>7 DEF CreateSession
<1>8. CASE ConsumeLink(w)
  BY <1>8 DEF ConsumeLink
<1>9. CASE CreateEnvelope(w)
  BY <1>9 DEF CreateEnvelope
<1>10. CASE EnvelopeAckLost(w)
  BY <1>10 DEF EnvelopeAckLost
<1>11. CASE CommitCoreFails(w)
  BY <1>11 DEF CommitCoreFails
<1>12. CASE CommitCoreAckLost(w)
  BY <1>12 DEF CommitCoreAckLost, PublishCore
<1>13. CASE LinkageKeyExpires(w)
  BY <1>13 DEF LinkageKeyExpires
<1>14. ASSUME CommitCore(w)
      PROVE  serving[w] \in Sessions /\ Atomic!TakeEffect(serving[w])
  BY <1>14 DEF CommitCore, PublishCore, Atomic!TakeEffect
<1>15. ASSUME ReturnTokens(w)
      PROVE  serving[w] \in Sessions /\ Atomic!Return(serving[w])
  BY <1>15 DEF ReturnTokens, Atomic!Return
<1>16. ASSUME VersionRowConflict(w)
      PROVE  serving[w] \in Sessions /\ Atomic!Fail(serving[w])
  BY <1>16 DEF VersionRowConflict, Atomic!Fail
<1>17. ASSUME CreateSessionRejected(w)
      PROVE  serving[w] \in Sessions /\ Atomic!Fail(serving[w])
  BY <1>17 DEF CreateSessionRejected, Atomic!Fail
<1>18. CASE CleanUpEnvelope(w) \/ CleanUpFails(w)
  BY <1>18 DEF CleanUpEnvelope, CleanUpFails
<1>19. ASSUME ReportFailure(w)
      PROVE  serving[w] \in Sessions /\ Atomic!Fail(serving[w])
  BY <1>19 DEF ReportFailure, Atomic!Fail
<1>20. ASSUME StartFails(w)
      PROVE  serving[w] \in Sessions /\ Atomic!Fail(serving[w])
  BY <1>20 DEF StartFails, Atomic!Fail
<1>21. ASSUME WorkerDies(w)
      PROVE  serving[w] \in Sessions /\ Atomic!Lose(serving[w])
  BY <1>21 DEF WorkerDies, Atomic!Lose
<1>22. ASSUME NEW s \in Sessions,
              \/ \E l \in Links \cup {NoLink} : Atomic!Admit(s, l)
              \/ Atomic!TakeEffect(s)
              \/ Atomic!Return(s)
              \/ Atomic!Fail(s)
              \/ Atomic!Lose(s)
       PROVE  Atomic!Next
  BY <1>22 DEF Atomic!Next
<1> HIDE DEF AInv, IInv, TypeOK, Steps, Outcomes, ServesOne, PhaseInv, OutcomeInv, FailedInv,
             Goto, EndRequest, coreVars, Usable, Atomic!vars
<1>. QED
  BY <1>1, <1>2, <1>3, <1>4, <1>5, <1>6, <1>7, <1>8, <1>9, <1>10, <1>11,
     <1>12, <1>13, <1>14, <1>15, <1>16, <1>17, <1>18, <1>19, <1>20, <1>21, <1>22 DEF StartStep

\* The job is invisible: without lost acknowledgements it finds nothing.
LEMMA ReconcileStepIsAtomic ==
    ASSUME AInv, Reconcile
    PROVE  UNCHANGED Atomic!vars
<1> USE DEF AInv, IInv, TypeOK, OutcomeInv, JobInv, FailedInv, coreVars, workerVars, Usable, Atomic!vars
<1>1. CASE ReconcileScan
  BY <1>1 DEF ReconcileScan
<1>2. ASSUME NEW s \in Sessions, ReconcileCheck(s)
      PROVE  UNCHANGED Atomic!vars
  BY <1>2 DEF ReconcileCheck
<1>3. CASE ReconcileCommit
  BY <1>3 DEF ReconcileCommit
<1>4. CASE ReconcileDies
  BY <1>4 DEF ReconcileDies
<1>. QED
  BY <1>1, <1>2, <1>3, <1>4 DEF Reconcile

\* Every step of the start, the job or a death is a step of AtomicStart or none.
LEMMA AtomicStep ==
    ASSUME ~LostAcks
    PROVE  AInv /\ [Next]_vars => [Atomic!Next]_(Atomic!vars)
<1>1. ASSUME UNCHANGED vars
      PROVE  UNCHANGED Atomic!vars
  BY <1>1 DEF vars, workerVars, coreVars, Usable, Atomic!vars
<1>. QED
  BY <1>1, RequestStepIsAtomic, ReconcileStepIsAtomic DEF Next

\* SessionStarter.start implements the atomic start.
THEOREM StartRefinesAtomic ==
    ASSUME ~LostAcks
    PROVE  Spec => StartIsAtomic
<1>1. Init => Atomic!Init
  BY DEF Init, Atomic!Init, Usable
<1>. QED
  BY <1>1, AtomicStep, AtomicInvariant, PTL DEF Spec, StartIsAtomic, Atomic!Spec

\* A single-use link is consumed only by a start that left a usable session.
THEOREM ConsumedUsable ==
    ASSUME ~LostAcks
    PROVE  Spec => []ConsumedLinkHasUsableSession
<1>1. Init => ConsumedLinkHasUsableSession
  BY DEF Init, ConsumedLinkHasUsableSession
<1>2. ConsumedLinkHasUsableSession /\ AInv /\ [Next]_vars => ConsumedLinkHasUsableSession'
  <2> SUFFICES ASSUME ConsumedLinkHasUsableSession, AInv, [Next]_vars
               PROVE  ConsumedLinkHasUsableSession'
    OBVIOUS
  <2> USE DEF ConsumedLinkHasUsableSession, AInv, IInv, TypeOK, OutcomeInv
  <2>1. CASE UNCHANGED Atomic!vars
    BY <2>1 DEF Atomic!vars
  <2>2. ASSUME NEW s \in Sessions, NEW l \in Links \cup {NoLink}, Atomic!Admit(s, l)
        PROVE  ConsumedLinkHasUsableSession'
    <3>1. s \notin Usable
      BY <2>2 DEF Atomic!Admit, Usable
    <3>. QED
      BY <2>2, <3>1 DEF Atomic!Admit
  <2>3. ASSUME NEW s \in Sessions, Atomic!TakeEffect(s)
        PROVE  ConsumedLinkHasUsableSession'
    BY <2>3 DEF Atomic!TakeEffect
  <2>4. ASSUME NEW s \in Sessions, Atomic!Return(s) \/ Atomic!Fail(s) \/ Atomic!Lose(s)
        PROVE  ConsumedLinkHasUsableSession'
    BY <2>4 DEF Atomic!Return, Atomic!Fail, Atomic!Lose
  <2>5. [Atomic!Next]_(Atomic!vars)
    BY AtomicStep
  <2>. QED
    BY <2>1, <2>2, <2>3, <2>4, <2>5 DEF Atomic!Next
<1>. QED
  BY <1>1, <1>2, AtomicInvariant, PTL DEF Spec

-----------------------------------------------------------------------------
(* Lost acknowledgements or not: how often a link is used, and what the     *)
(* early commit of _ensure_version_row leaves behind.                       *)

\* Only the admission, the core commit and the job's commit touch the link of
\* an attempt, the link rows and the session rows.
LEMMA QuietStep ==
    ASSUME IInv, NEW w \in Workers,
           StartStep(w) \/ StartFails(w) \/ WorkerDies(w) \/ LinkageKeyExpires(w),
           ~CommitCore(w), ~CommitCoreAckLost(w)
    PROVE  /\ UNCHANGED <<link, status, used>>
           /\ \A v \in Workers : serving'[v] \in {serving[v], NoSession}
<1> USE DEF IInv, TypeOK, Goto, EndRequest, coreVars
<1>1. CASE ResolveSubject(w)
  BY <1>1 DEF ResolveSubject
<1>2. CASE CachedLinkageKey(w)
  BY <1>2 DEF CachedLinkageKey
<1>3. CASE FetchLinkageKey(w)
  BY <1>3 DEF FetchLinkageKey
<1>4. CASE EnsureVersionRow(w)
  BY <1>4 DEF EnsureVersionRow
<1>5. CASE EnsureVersionRowAckLost(w)
  BY <1>5 DEF EnsureVersionRowAckLost
<1>6. CASE VersionRowConflict(w)
  BY <1>6 DEF VersionRowConflict
<1>7. CASE CreateSession(w)
  BY <1>7 DEF CreateSession
<1>8. CASE CreateSessionRejected(w)
  BY <1>8 DEF CreateSessionRejected
<1>9. CASE ConsumeLink(w)
  BY <1>9 DEF ConsumeLink
<1>10. CASE CreateEnvelope(w)
  BY <1>10 DEF CreateEnvelope
<1>11. CASE EnvelopeAckLost(w)
  BY <1>11 DEF EnvelopeAckLost
<1>12. CASE CommitCoreFails(w)
  BY <1>12 DEF CommitCoreFails
<1>13. CASE CleanUpEnvelope(w) \/ CleanUpFails(w)
  BY <1>13 DEF CleanUpEnvelope, CleanUpFails
<1>14. CASE ReportFailure(w)
  BY <1>14 DEF ReportFailure
<1>15. CASE ReturnTokens(w)
  BY <1>15 DEF ReturnTokens
<1>16. CASE StartFails(w)
  BY <1>16 DEF StartFails
<1>17. CASE WorkerDies(w)
  BY <1>17 DEF WorkerDies
<1>18. CASE LinkageKeyExpires(w)
  BY <1>18 DEF LinkageKeyExpires
<1>. QED
  BY <1>1, <1>2, <1>3, <1>4, <1>5, <1>6, <1>7, <1>8, <1>9, <1>10, <1>11,
     <1>12, <1>13, <1>14, <1>15, <1>16, <1>17, <1>18 DEF StartStep

\* The sessions of link l that are committed, and those that may still be: once
\* the link is used this set only shrinks, and when it is first used it holds
\* attempts in service only.
Committed(l) == {s \in Sessions : link[s] = l /\ status[s] # "absent"}
Claim(l) == Committed(l) \cup {s \in Sessions : link[s] = l /\ \E w \in Workers : serving[w] = s}
Served == {serving[w] : w \in Workers}

LinkInv ==
    \A l \in SingleUse :
        /\ l \notin used => Committed(l) = {}
        /\ l \in used => IsFiniteSet(Claim(l)) /\ Cardinality(Claim(l)) <= Cardinality(Workers)

\* At most as many attempts are in service as there are workers.
LEMMA ServedBound ==
    ASSUME TypeOK
    PROVE  IsFiniteSet(Served) /\ Cardinality(Served) <= Cardinality(Workers)
<1>1. serving \in Surjection(Workers, Served)
  BY DEF TypeOK, Surjection, Served
<1>. QED
  BY <1>1, FS_Surjection, StartAssumption

\* How one step changes the claims on a link.
LEMMA ClaimStep ==
    ASSUME IInv, Next, NEW l \in SingleUse, l \notin used => Committed(l) = {}
    PROVE  /\ l \in used => l \in used' /\ Claim(l)' \subseteq Claim(l)
           /\ l \notin used /\ l \in used' => Claim(l)' \subseteq Served
           /\ l \notin used' => Committed(l)' = {}
<1> USE StartAssumption DEF IInv, TypeOK, ServesOne, PhaseInv, OutcomeInv, JobInv, Committed, Claim, Served
<1>1. ASSUME NEW w \in Workers, NEW s \in Sessions, NEW k \in Links \cup {NoLink},
             ResolveAccess(w, s, k)
      PROVE  /\ l \in used => l \in used' /\ Claim(l)' \subseteq Claim(l)
             /\ used' = used
             /\ Committed(l)' = Committed(l)
  BY <1>1 DEF ResolveAccess, coreVars
<1>2. ASSUME NEW w \in Workers, CommitCore(w) \/ CommitCoreAckLost(w)
      PROVE  /\ Claim(l)' \subseteq Claim(l)
             /\ used \subseteq used'
             /\ l \notin used => Claim(l) \subseteq Served
             /\ l \notin used' => Committed(l)' = Committed(l)
  BY <1>2 DEF CommitCore, CommitCoreAckLost, PublishCore, Goto
<1>3. ASSUME NEW w \in Workers,
             StartStep(w) \/ StartFails(w) \/ WorkerDies(w) \/ LinkageKeyExpires(w),
             ~CommitCore(w), ~CommitCoreAckLost(w)
      PROVE  Claim(l)' \subseteq Claim(l) /\ used' = used /\ Committed(l)' = Committed(l)
  BY <1>3, QuietStep
<1>4. CASE Reconcile
  <2>1. Claim(l)' = Claim(l) /\ used' = used /\ Committed(l)' = Committed(l)
    BY <1>4 DEF Reconcile, ReconcileScan, ReconcileCheck, ReconcileCommit, ReconcileDies,
                workerVars, coreVars
  <2>. QED
    BY <2>1
<1>. HIDE DEF IInv, TypeOK, ServesOne, PhaseInv, OutcomeInv, JobInv, Committed, Claim, Served
<1>. QED
  BY <1>1, <1>2, <1>3, <1>4 DEF Next, CommitCore, CommitCoreAckLost

\* A single-use link starts at most as many sessions as there are workers.
THEOREM LinkUsesBounded == Spec => []SessionsPerLinkBounded
<1>1. Init => LinkInv
  BY DEF Init, LinkInv, Committed
<1>2. LinkInv /\ IInv /\ [Next]_vars => LinkInv'
  <2> SUFFICES ASSUME LinkInv, IInv, [Next]_vars, NEW l \in SingleUse
               PROVE  /\ l \notin used' => Committed(l)' = {}
                      /\ l \in used' => /\ IsFiniteSet(Claim(l)')
                                        /\ Cardinality(Claim(l)') <= Cardinality(Workers)
    BY DEF LinkInv
  <2>1. CASE UNCHANGED vars
    BY <2>1 DEF LinkInv, Claim, Committed, vars, workerVars, coreVars
  <2>2. CASE Next
    <3>1. CASE l \in used
      <4>1. IsFiniteSet(Claim(l)) /\ Cardinality(Claim(l)) <= Cardinality(Workers)
        BY <3>1 DEF LinkInv
      <4>2. Claim(l)' \in SUBSET Claim(l) /\ l \in used'
        BY <2>2, <3>1, ClaimStep
      <4>. QED
        BY <4>1, <4>2, FS_Subset, FS_CardinalityType, StartAssumption
    <3>2. CASE l \notin used
      <4>1. Committed(l) = {}
        BY <3>2 DEF LinkInv
      <4>2. l \in used' => Claim(l)' \in SUBSET Served
        BY <2>2, <3>2, <4>1, ClaimStep
      <4>3. l \notin used' => Committed(l)' = {}
        BY <2>2, <3>2, <4>1, ClaimStep
      <4>. QED
        BY <4>2, <4>3, ServedBound, FS_Subset, FS_CardinalityType, StartAssumption DEF IInv
    <3>. QED
      BY <3>1, <3>2
  <2>. QED
    BY <2>1, <2>2
<1>3. LinkInv => SessionsPerLinkBounded
  <2> SUFFICES ASSUME LinkInv, NEW l \in SingleUse
               PROVE  Cardinality(Committed(l)) <= Cardinality(Workers)
    BY DEF SessionsPerLinkBounded, Committed
  <2>1. CASE l \in used
    <3>1. IsFiniteSet(Claim(l)) /\ Cardinality(Claim(l)) <= Cardinality(Workers)
      BY <2>1 DEF LinkInv
    <3>2. Committed(l) \in SUBSET Claim(l)
      BY DEF Claim
    <3>3. IsFiniteSet(Committed(l)) /\ Cardinality(Committed(l)) <= Cardinality(Claim(l))
      BY <3>1, <3>2, FS_Subset
    <3>4. Cardinality(Committed(l)) \in Nat /\ Cardinality(Claim(l)) \in Nat /\ Cardinality(Workers) \in Nat
      BY <3>1, <3>3, FS_CardinalityType, StartAssumption
    <3>. QED
      BY <3>1, <3>3, <3>4
  <2>2. CASE l \notin used
    <3>1. Cardinality(Committed(l)) = 0
      BY <2>2, FS_EmptySet DEF LinkInv
    <3>2. Cardinality(Workers) \in Nat
      BY FS_CardinalityType, StartAssumption
    <3>. QED
      BY <3>1, <3>2
  <2>. QED
    BY <2>1, <2>2
<1>. QED
  BY <1>1, <1>2, <1>3, InductiveInvariant, PTL DEF Spec

\* Subject rows that were committed without a session: they come from the one
\* commit of _ensure_version_row, so there are none while the row is missing.
SubjectInv ==
    \A s, t \in subjects :
        status[s] = "absent" /\ status[t] = "absent" => s = t /\ versionRow

\* The committed subjects of attempts without a session change only there.
LEMMA SubjectStep ==
    ASSUME IInv, SubjectInv, NEW w \in Workers,
           \/ StartStep(w)
           \/ StartFails(w)
           \/ WorkerDies(w)
           \/ LinkageKeyExpires(w)
           \/ \E s \in Sessions, l \in Links \cup {NoLink} : ResolveAccess(w, s, l)
    PROVE  SubjectInv'
<1> USE DEF IInv, TypeOK, ServesOne, SubjectInv, Goto, EndRequest, coreVars
<1>1. CASE EnsureVersionRow(w) \/ EnsureVersionRowAckLost(w)
  BY <1>1 DEF EnsureVersionRow, EnsureVersionRowAckLost
<1>2. CASE CommitCore(w) \/ CommitCoreAckLost(w)
  BY <1>2 DEF CommitCore, CommitCoreAckLost, PublishCore
<1>3. ASSUME ~EnsureVersionRow(w), ~EnsureVersionRowAckLost(w),
             ~CommitCore(w), ~CommitCoreAckLost(w)
      PROVE  UNCHANGED coreVars
  BY <1>3 DEF StartStep, ResolveAccess, ResolveSubject, CachedLinkageKey, FetchLinkageKey,
              VersionRowConflict, CreateSession, CreateSessionRejected, ConsumeLink,
              CreateEnvelope, EnvelopeAckLost, CommitCoreFails, CleanUpEnvelope,
              CleanUpFails, ReportFailure, ReturnTokens, StartFails, WorkerDies, LinkageKeyExpires
<1>4. UNCHANGED coreVars => SubjectInv'
  OBVIOUS
<1>. QED
  BY <1>1, <1>2, <1>3, <1>4

\* The early commit leaves at most one subject without a session.
THEOREM EarlyCommitBounded == Spec => []AtMostOneSubjectWithoutSession
<1>1. Init => SubjectInv
  BY DEF Init, SubjectInv
<1>2. SubjectInv /\ IInv /\ [Next]_vars => SubjectInv'
  <2>1. ASSUME SubjectInv, IInv, UNCHANGED vars
        PROVE  SubjectInv'
    BY <2>1 DEF SubjectInv, vars, coreVars
  <2>2. ASSUME SubjectInv, IInv, Reconcile
        PROVE  SubjectInv'
    BY <2>2 DEF SubjectInv, IInv, TypeOK, JobInv, Reconcile, ReconcileScan, ReconcileCheck,
                ReconcileCommit, ReconcileDies, coreVars
  <2>. QED
    BY <2>1, <2>2, SubjectStep DEF Next
<1>3. SubjectInv => AtMostOneSubjectWithoutSession
  <2> DEFINE Left == {s \in subjects : status[s] = "absent"}
  <2> SUFFICES ASSUME SubjectInv
               PROVE  Cardinality(Left) <= 1
    BY DEF AtMostOneSubjectWithoutSession
  <2>1. Left = {} \/ \E s : Left = {s}
    BY DEF SubjectInv
  <2> HIDE DEF Left
  <2>2. CASE Left = {}
    <3>1. Cardinality(Left) = 0
      BY <2>2, FS_EmptySet
    <3>. QED
      BY <3>1
  <2>3. ASSUME NEW s, Left = {s}
        PROVE  Cardinality(Left) <= 1
    <3>1. Cardinality(Left) = 1
      BY <2>3, FS_Singleton
    <3>. QED
      BY <3>1
  <2>. QED
    BY <2>1, <2>2, <2>3
<1>. QED
  BY <1>1, <1>2, <1>3, InductiveInvariant, PTL DEF Spec

=============================================================================
