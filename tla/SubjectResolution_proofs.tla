---------------------- MODULE SubjectResolution_proofs ----------------------
(***************************************************************************)
(* Proofs about SubjectResolution, for any number of requests, browsers,   *)
(* accounts and participants.                                              *)
(***************************************************************************)
EXTENDS SubjectResolution, Naturals, TLAPS

-----------------------------------------------------------------------------
(* The parts of the inductive invariants.                                  *)

Arrived(r) == pc[r] # "idle" => input[r] \in Inputs

\* Which requests take which steps.
Routed(r) ==
    /\ pc[r] \in {"verifying", "linking", "closed"} => Kind(r) = "verify"
    /\ pc[r] \in {"kept", "committed", "left"} => Kind(r) # "verify"
    /\ pc[r] = "linking" => Actor(r) \in Mailbox[Assignee(r)]
    /\ pc[r] \in Resolved /\ plan[r].attach => Kind(r) = "open" /\ Actor(r) \in Users
    /\ pc[r] = "merging" => ~plan[r].attach

\* The user_id of a participant's row is that account's one identity.
HolderIdentified == \A p \in Participants : holder[p] # NoUser => identity[holder[p]] = p

\* A flushed identity is the only one of its account.
AttachExclusive ==
    \A r \in Requests : pc[r] \in Flushed /\ plan[r].attach =>
        /\ identity[Actor(r)] = NoSubject
        /\ \A q \in Requests \ {r} : pc[q] \in Flushed /\ plan[q].attach => Actor(q) # Actor(r)

Authority(s) == s \in Participants \/ \E u \in Users : identity[u] = s

MergesIntoAuthority ==
    \A r \in Requests : pc[r] \in Resolved /\ plan[r].weaker # NoSubject => Authority(plan[r].final)

\* A token is stored by the request that bears its name; revoked tokens are stored.
TokensStored ==
    /\ \A r \in Requests : token[r] # NoSubject => Recorded(r)
    /\ \A r \in Requests : Recorded(r) /\ plan[r].action \in {"issue", "rotate"} =>
          token[r] = plan[r].final
    /\ \A t \in revoked : token[t] # NoSubject

VictimOfFinal ==
    \A r \in Requests : pc[r] \in {"touching", "ready"} /\ victim[r] # NoToken =>
        token[victim[r]] = plan[r].final

Chosen == {"touching", "ready", "kept", "committed", "closed", "done", "left", "failed"}

VictimChosenLate ==
    \A r \in Requests : pc[r] \notin Chosen => victim[r] = NoToken

\* A browser holds, and sent, only tokens of its own sessions.
Own(b, t) ==
    /\ t \in Requests /\ pc[t] = "done"
    /\ \/ Kind(t) = "verify"
       \/ \E r \in Requests : /\ Started(r) /\ input[r].browser = b
                              /\ plan[r].final = token[t]

OwnTokens ==
    /\ \A b \in Browsers : cookie[b] # NoToken => Own(b, cookie[b])
    /\ \A r \in Requests : pc[r] # "idle" /\ input[r].token # NoToken =>
          Own(input[r].browser, input[r].token)
    /\ \A r \in Requests : pc[r] \in Resolved /\ plan[r].action = "mark_used" =>
          input[r].token # NoToken
    /\ \A r \in Requests : pc[r] = "looked" /\ found[r].subject # NoSubject =>
          input[r].token # NoToken

AliasesAreMerges == \A s \in Subjects : canonical[s] # NoSubject => MergedInto(s, canonical[s])

SameOrMerged(s, t) == t = s \/ MergedInto(s, t)

\* The plan of a request follows the evidence it was made from.
PlanFollowsEvidence ==
    \A r \in Requests : pc[r] \in Resolved =>
        /\ Assignee(r) # NoSubject => SameOrMerged(Assignee(r), plan[r].final)
        /\ Assignee(r) = NoSubject /\ Actor(r) \in Users \ ousted =>
              IF plan[r].attach
              THEN Recorded(r) => identity[Actor(r)] = plan[r].final
              ELSE /\ identity[Actor(r)] # NoSubject
                   /\ SameOrMerged(identity[Actor(r)], plan[r].final)

-----------------------------------------------------------------------------
(* Types and what a step leaves alone.                                     *)

TypeInv == TypeOK /\ \A r \in Requests : Arrived(r) /\ Routed(r)

LEMMA InitType == Init => TypeInv
BY SubjectAssumption DEF Init, TypeInv, TypeOK, Arrived, Routed, Resolved, Candidates, NoCandidate,
   Plans, NoPlan, Steps, Kind

\* The resolver always returns a subject, and attaches an identity only to an
\* open start by an account that it found none for.
LEMMA ResolutionType ==
    ASSUME NEW r \in Requests, TypeInv, pc[r] = "looked"
    PROVE  /\ Resolution(r) \in Plans /\ Resolution(r).final \in Subjects
           /\ Resolution(r).attach => /\ Kind(r) = "open" /\ Actor(r) \in Users
                                      /\ identity[Actor(r)] = NoSubject
                                      /\ Resolution(r).weaker = NoSubject
<1>1. input[r] \in Inputs
  BY DEF TypeInv, Arrived
<1>2. Assignee(r) # NoSubject => Assignee(r) \in Participants /\ Kind(r) # "open"
  BY <1>1, SubjectAssumption DEF Inputs, Entries, Assignee, Kind
<1>3. Assignee(r) = NoSubject => Actor(r) \in Users \cup {NoUser} /\ Kind(r) = "open"
  BY <1>1, SubjectAssumption DEF Inputs, Entries, Assignee, Actor, Kind
<1>4. \A s \in Subjects : OneHop(s) \in Subjects
  BY DEF OneHop, TypeInv, TypeOK
<1>5. found[r] \in Candidates
  BY DEF TypeInv, TypeOK
<1>6. found[r].subject # NoSubject => Effective(found[r]) \in Subjects
  BY <1>5 DEF Effective, Candidates
<1>7. ASSUME NEW s \in Subjects, NEW a \in {"keep", "mark_used"}
      PROVE  /\ Against(s, found[r], a) \in Plans
             /\ Against(s, found[r], a).final \in Subjects
             /\ ~Against(s, found[r], a).attach
  BY <1>6 DEF Against, Merge, Plans
<1>8. ASSUME NEW x \in BOOLEAN
      PROVE  /\ Unidentified(found[r], r, x) \in Plans
             /\ Unidentified(found[r], r, x).final \in Subjects
             /\ Unidentified(found[r], r, x).attach = x
             /\ Unidentified(found[r], r, x).weaker = NoSubject
  BY <1>6 DEF Unidentified, Plans, Subjects
<1>9. CASE Assignee(r) # NoSubject
  <2>1. OneHop(Assignee(r)) \in Subjects
    BY <1>9, <1>2, <1>4 DEF Subjects
  <2> QED BY <2>1, <1>7, <1>9 DEF Resolution
<1>10. CASE Assignee(r) = NoSubject /\ Actor(r) \in Users /\ identity[Actor(r)] # NoSubject
  <2>1. OneHop(identity[Actor(r)]) \in Subjects
    BY <1>10, <1>4 DEF TypeInv, TypeOK
  <2> QED BY <2>1, <1>7, <1>10, SubjectAssumption DEF Resolution
<1>11. CASE Assignee(r) = NoSubject /\ Actor(r) \in Users /\ identity[Actor(r)] = NoSubject
  BY <1>11, <1>8, <1>3, SubjectAssumption DEF Resolution
<1>12. CASE Assignee(r) = NoSubject /\ Actor(r) = NoUser
  BY <1>12, <1>8, <1>3 DEF Resolution
<1> QED BY <1>3, <1>9, <1>10, <1>11, <1>12


\* The commits that write the subject rows of a start.
Published(r) == CommitStart(r) \/ CommitSubject(r)

\* What Next says of one request.
Step(r) ==
    \/ \E b \in Browsers, e \in Entries : Arrive(r, b, e)
    \/ Proceed(r) \/ AnswerLost(r) \/ RequestFails(r) \/ StartFailsLate(r)

LEMMA NextIsStep == [Next]_vars => (\E r \in Requests : Step(r)) \/ UNCHANGED vars
BY DEF Next, Step, Rest

\* A step of one request leaves the others where they are.
LEMMA OthersStay ==
    ASSUME TypeInv, NEW r \in Requests, Step(r), NEW q \in Requests, q # r
    PROVE  pc'[q] = pc[q] /\ input'[q] = input[q] /\ found'[q] = found[q]
           /\ plan'[q] = plan[q] /\ victim'[q] = victim[q]
BY DEF Step, Arrive, Proceed, Goto, TypeInv, TypeOK, ReadParticipant, LinkIdentity, LookUpToken, Resolve,
   MergeSubject, AlreadyMerged, AttachIdentity, IdentityConflict, ChooseToken, TouchToken, CommitStart,
   CommitSubject, CommitSession,
   CloseVerification, Answer, AnswerLost, RequestFails, StartFailsLate

LEMMA StepTypeOK ==
    ASSUME TypeInv, NEW r \in Requests, Step(r)
    PROVE  TypeOK'
<1> USE DEF TypeOK, Goto, Steps, Resolved
<1>0. TypeOK /\ Arrived(r) /\ Routed(r)
  BY DEF TypeInv
<1>1. ASSUME NEW b \in Browsers, NEW e \in Entries, Arrive(r, b, e)
      PROVE  TypeOK'
  BY <1>0, <1>1 DEF Arrive, Inputs, coreVars
<1>2. CASE LookUpToken(r)
  BY <1>0, <1>2 DEF LookUpToken, Candidates, coreVars
<1>3. CASE Resolve(r)
  BY <1>0, <1>3, ResolutionType DEF Resolve, coreVars
<1>4. CASE LinkIdentity(r)
  <2>1. Assignee(r) \in Participants /\ Actor(r) \in Users
    BY <1>0, <1>4 DEF LinkIdentity, Arrived, Routed, Inputs, Entries, Assignee, Actor, Kind
  <2> QED BY <1>0, <1>4, <2>1 DEF LinkIdentity, Subjects
<1>5. CASE Published(r)
  <2>1. plan[r] \in Plans /\ plan[r].final \in Subjects
    BY <1>0, <1>5 DEF Published, CommitStart, CommitSubject, PublishSubject
  <2> QED BY <1>0, <1>5, <2>1 DEF Published, CommitStart, CommitSubject, PublishSubject, NewTokenSubject, Plans
<1>6. CASE Answer(r)
  <2>1. input[r] \in Inputs /\ plan[r] \in Plans
    BY <1>0, <1>6 DEF Answer, Arrived
  <2> QED BY <1>0, <1>6, <2>1 DEF Answer, coreVars, Inputs, Plans
<1>7. CASE AlreadyMerged(r)
  BY <1>0, <1>7 DEF AlreadyMerged, coreVars, Plans
<1>8. CASE ChooseToken(r)
  BY <1>0, <1>8 DEF ChooseToken, ActiveTokens, coreVars
<1>9. CASE ReadParticipant(r) \/ MergeSubject(r) \/ AttachIdentity(r) \/ IdentityConflict(r)
  BY <1>0, <1>9 DEF ReadParticipant, MergeSubject, AttachIdentity, IdentityConflict, coreVars
<1>10. CASE \/ TouchToken(r) \/ CommitSession(r) \/ CloseVerification(r) \/ AnswerLost(r)
            \/ RequestFails(r) \/ StartFailsLate(r)
  BY <1>0, <1>10 DEF TouchToken, CommitSession, CloseVerification, AnswerLost, RequestFails, StartFailsLate,
     coreVars
<1> QED BY <1>1, <1>2, <1>3, <1>4, <1>5, <1>6, <1>7, <1>8, <1>9, <1>10 DEF Step, Proceed, Published

\* What the step of a request does to its own bookkeeping.
LEMMA OwnStep ==
    ASSUME TypeInv, NEW r \in Requests, Step(r)
    PROVE  Arrived(r)' /\ Routed(r)'
<1> USE DEF TypeOK, Goto, Resolved
<1>0. TypeOK /\ Arrived(r) /\ Routed(r)
  BY DEF TypeInv
<1>1. ASSUME NEW b \in Browsers, NEW e \in Entries, Arrive(r, b, e)
      PROVE  Arrived(r)' /\ Routed(r)'
  BY <1>0, <1>1 DEF Arrive, Inputs, Arrived, Routed, Kind
<1>2. CASE Resolve(r)
  <2>1. input'[r] = input[r] /\ plan'[r] = Resolution(r) /\ pc[r] = "looked"
        /\ pc'[r] \in {"merging", "attaching", "token"}
        /\ (pc'[r] = "merging" => plan'[r].weaker # NoSubject)
    BY <1>0, <1>2 DEF Resolve
  <2> QED BY <1>0, <2>1, ResolutionType DEF Arrived, Routed, Kind, Actor
<1>3. CASE ReadParticipant(r)
  BY <1>0, <1>3 DEF ReadParticipant, Arrived, Routed, Kind, Actor, Assignee
<1>4. CASE LinkIdentity(r) \/ LookUpToken(r) \/ MergeSubject(r) \/ AttachIdentity(r)
  BY <1>0, <1>4 DEF LinkIdentity, LookUpToken, MergeSubject, AttachIdentity, Arrived, Routed, Kind, Actor
<1>5. CASE AlreadyMerged(r)
  BY <1>0, <1>5 DEF AlreadyMerged, Arrived, Routed, Kind, Actor, Plans
<1>6. CASE Published(r) \/ CommitSession(r) \/ CloseVerification(r) \/ Answer(r) \/ AnswerLost(r)
  BY <1>0, <1>6 DEF Published, CommitStart, CommitSubject, PublishSubject, CommitSession, CloseVerification,
     Answer, AnswerLost, Arrived, Routed, Kind, Actor
<1>7. CASE ChooseToken(r) \/ TouchToken(r) \/ IdentityConflict(r) \/ RequestFails(r) \/ StartFailsLate(r)
  BY <1>0, <1>7 DEF ChooseToken, TouchToken, IdentityConflict, RequestFails, StartFailsLate, Arrived, Routed,
     Kind, Actor
<1> QED BY <1>1, <1>2, <1>3, <1>4, <1>5, <1>6, <1>7 DEF Step, Proceed, Published

LEMMA StepType == TypeInv /\ [Next]_vars => TypeInv'
<1> SUFFICES ASSUME TypeInv, [Next]_vars PROVE TypeInv'
  OBVIOUS
<1>1. CASE UNCHANGED vars
  BY <1>1 DEF vars, coreVars, TypeInv, TypeOK, Arrived, Routed, Kind, Actor, Assignee
<1>2. ASSUME NEW r \in Requests, Step(r) PROVE TypeInv'
  <2>1. ASSUME NEW q \in Requests PROVE Arrived(q)' /\ Routed(q)'
    <3>1. CASE q = r
      BY <3>1, <1>2, OwnStep
    <3>2. CASE q # r
      BY <3>2, <1>2, OthersStay DEF TypeInv, Arrived, Routed, Kind, Actor, Assignee
    <3> QED BY <3>1, <3>2
  <2> QED BY <2>1, <1>2, StepTypeOK DEF TypeInv
<1> QED BY <1>1, <1>2, NextIsStep

\* The type correctness of SubjectResolution: every field keeps its type, and a
\* request past the resolver has a subject (resolve_for_session_start).
THEOREM TypeCorrect == Spec => []TypeOK
<1>1. TypeInv => TypeOK
  BY DEF TypeInv
<1> QED BY <1>1, InitType, StepType, PTL DEF Spec

-----------------------------------------------------------------------------
(* What a step leaves alone.                                               *)

\* What a request was sent with stays; a plan stays, but for a merge that
\* turns out to have been made already.
LEMMA OwnStable ==
    ASSUME TypeInv, NEW r \in Requests, Step(r)
    PROVE  /\ pc[r] # "idle" => pc'[r] # "idle" /\ input'[r] = input[r]
           /\ pc[r] \in Resolved =>
                 /\ pc'[r] \in Resolved \cup {"failed"}
                 /\ plan'[r].final = plan[r].final /\ plan'[r].attach = plan[r].attach
                 /\ plan'[r].action = plan[r].action
                 /\ plan'[r] = plan[r] \/ (pc[r] = "merging" /\ plan'[r].weaker = NoSubject)
           /\ pc'[r] \in Resolved => pc[r] \in Resolved \/ Resolve(r)
<1> USE DEF TypeOK, Goto, Resolved
<1>0. TypeOK
  BY DEF TypeInv
<1>1. CASE \E b \in Browsers, e \in Entries : Arrive(r, b, e)
  BY <1>0, <1>1 DEF Arrive
<1>2. CASE ReadParticipant(r) \/ LinkIdentity(r) \/ LookUpToken(r) \/ Resolve(r)
  BY <1>0, <1>2 DEF ReadParticipant, LinkIdentity, LookUpToken, Resolve
<1>3. CASE AlreadyMerged(r)
  BY <1>0, <1>3 DEF AlreadyMerged, Plans
<1>4. CASE MergeSubject(r) \/ AttachIdentity(r) \/ IdentityConflict(r) \/ ChooseToken(r) \/ TouchToken(r)
  BY <1>0, <1>4 DEF MergeSubject, AttachIdentity, IdentityConflict, ChooseToken, TouchToken
<1>5. CASE \/ Published(r) \/ CommitSession(r) \/ CloseVerification(r) \/ Answer(r) \/ AnswerLost(r)
           \/ RequestFails(r) \/ StartFailsLate(r)
  BY <1>0, <1>5 DEF Published, CommitStart, CommitSubject, PublishSubject, CommitSession, CloseVerification,
     Answer, AnswerLost, RequestFails, StartFailsLate
<1> QED BY <1>1, <1>2, <1>3, <1>4, <1>5 DEF Step, Proceed, Published

LEMMA Stable ==
    ASSUME TypeInv, NEW r \in Requests, Step(r), NEW q \in Requests
    PROVE  /\ pc[q] # "idle" => pc'[q] # "idle" /\ input'[q] = input[q]
           /\ pc[q] \in Resolved =>
                 /\ pc'[q] \in Resolved \cup {"failed"}
                 /\ plan'[q].final = plan[q].final /\ plan'[q].attach = plan[q].attach
                 /\ plan'[q].action = plan[q].action
                 /\ plan'[q] = plan[q] \/ (pc[q] = "merging" /\ plan'[q].weaker = NoSubject)
           /\ pc'[q] \in Resolved => pc[q] \in Resolved \/ (q = r /\ Resolve(r))
BY OwnStable, OthersStay

\* What a start has recorded stays, of the same subject, and so does its session.
LEMMA RecordedStays ==
    ASSUME TypeInv, NEW r \in Requests, Step(r), NEW q \in Requests, Recorded(q)
    PROVE  /\ Recorded(q)' /\ plan'[q] = plan[q] /\ input'[q] = input[q]
           /\ Started(q) => Started(q)'
<1>1. pc[q] \in {"kept", "committed", "done", "left"} /\ pc[q] \in Resolved
  BY DEF Recorded, Resolved
<1>2. plan'[q] = plan[q] /\ input'[q] = input[q]
  BY <1>1, Stable
<1>3. /\ pc'[q] \in {"kept", "committed", "done", "left"}
      /\ pc[q] \in {"committed", "done"} => pc'[q] \in {"committed", "done"}
  <2>1. CASE q = r
    BY <1>1, <2>1 DEF TypeInv, TypeOK, Step, Proceed, Goto, Arrive, ReadParticipant, LinkIdentity, LookUpToken,
       Resolve, MergeSubject, AlreadyMerged, AttachIdentity, IdentityConflict, ChooseToken, TouchToken,
       CommitStart, CommitSubject, CommitSession, CloseVerification, Answer, AnswerLost, RequestFails,
       StartFailsLate
  <2> QED BY <1>1, <2>1, OthersStay
<1> QED BY <1>2, <1>3 DEF Recorded, Started, Kind

LEMMA StartedStays ==
    ASSUME TypeInv, NEW r \in Requests, Step(r), NEW q \in Requests, Started(q)
    PROVE  Started(q)' /\ plan'[q] = plan[q] /\ input'[q] = input[q]
BY RecordedStays DEF Recorded, Started

LEMMA MergedStays ==
    ASSUME TypeInv, NEW r \in Requests, Step(r), NEW s, NEW t, MergedInto(s, t)
    PROVE  MergedInto(s, t)'
BY RecordedStays DEF MergedInto

\* Only a verification and the commit of a start write the core tables.
LEMMA CoreStays ==
    ASSUME NEW r \in Requests, Step(r), ~LinkIdentity(r), ~Published(r)
    PROVE  UNCHANGED coreVars
BY DEF Step, Published, Arrive, Proceed, Goto, ReadParticipant, LookUpToken, Resolve,
   MergeSubject, AlreadyMerged, AttachIdentity, IdentityConflict, ChooseToken, TouchToken, CommitSession,
   CloseVerification, Answer, AnswerLost, RequestFails, StartFailsLate

-----------------------------------------------------------------------------
(* Identities: the row lock and the unique index keep them one to one.     *)

IdentityInv == TypeInv /\ HolderIdentified /\ AttachExclusive

\* An identity is flushed in one step only.
LEMMA FlushedFrom ==
    ASSUME TypeInv, NEW r \in Requests, Step(r), NEW q \in Requests,
           pc'[q] \in Flushed, plan'[q].attach
    PROVE  /\ pc[q] \in Flushed \/ (q = r /\ AttachIdentity(r))
           /\ plan[q].attach /\ input'[q] = input[q]
<1> USE DEF TypeOK, Goto, Flushed
<1>0. TypeOK /\ Routed(r)
  BY DEF TypeInv
<1>1. CASE q # r
  BY <1>1, OthersStay
<1>2. CASE q = r /\ Resolve(r)
  <2>1. /\ pc[r] = "looked" /\ plan'[r] = Resolution(r)
        /\ pc'[r] = IF Resolution(r).weaker # NoSubject THEN "merging"
                    ELSE IF Resolution(r).attach THEN "attaching" ELSE "token"
    BY <1>0, <1>2 DEF Resolve
  <2> QED BY <1>2, <2>1
<1>3. CASE q = r /\ ~Resolve(r)
  <2>1. pc[r] \in Flushed \cup {"merging"} \/ AttachIdentity(r)
    BY <1>0, <1>3 DEF Step, Proceed, Arrive, ReadParticipant, LinkIdentity, LookUpToken,
       MergeSubject, AlreadyMerged, AttachIdentity, IdentityConflict, ChooseToken, TouchToken, CommitStart,
       CommitSubject, CommitSession,
       CloseVerification, Answer, AnswerLost, RequestFails, StartFailsLate
  <2>2. pc[r] \in Resolved /\ pc[r] # "idle"
    BY <2>1 DEF AttachIdentity, Resolved
  <2>3. plan'[r].attach = plan[r].attach /\ input'[r] = input[r]
    BY <2>2, OwnStable
  <2> QED BY <1>0, <1>3, <2>1, <2>3 DEF Routed
<1> QED BY <1>1, <1>2, <1>3

LEMMA InitIdentity == Init => IdentityInv
BY InitType, SubjectAssumption DEF IdentityInv, Init, HolderIdentified, AttachExclusive, Flushed

\* What a verification does to the identities.
LEMMA LinkEffect ==
    ASSUME TypeInv, NEW r \in Requests, LinkIdentity(r)
    PROVE  /\ Assignee(r) \in Participants /\ Actor(r) \in Users /\ Actor(r) \in Mailbox[Assignee(r)]
           /\ holder'[Assignee(r)] = Actor(r) /\ identity'[Actor(r)] = Assignee(r)
           /\ \A p \in Participants \ {Assignee(r)} : holder'[p] = holder[p]
           /\ \A u \in Users \ {Actor(r)} :
                 identity'[u] = IF u = holder[Assignee(r)] THEN NoSubject ELSE identity[u]
           /\ pc[r] = "linking" /\ pc'[r] = "arrived"
<1>1. Assignee(r) \in Participants /\ Actor(r) \in Users
  BY DEF TypeInv, LinkIdentity, Arrived, Routed, Inputs, Entries, Assignee, Actor, Kind
<1> QED BY <1>1 DEF TypeInv, TypeOK, LinkIdentity, Routed, Goto

LEMMA StepHolder ==
    ASSUME IdentityInv, NEW r \in Requests, Step(r)
    PROVE  HolderIdentified'
<1> SUFFICES ASSUME NEW p \in Participants, holder'[p] # NoUser
             PROVE  identity'[holder'[p]] = p
  BY DEF HolderIdentified
<1>0. TypeInv /\ TypeOK
  BY DEF IdentityInv, TypeInv
<1>1. CASE LinkIdentity(r)
  <2>1. CASE p = Assignee(r)
    BY <1>0, <1>1, <2>1, LinkEffect
  <2>2. CASE p # Assignee(r)
    <3>1. holder'[p] = holder[p] /\ identity[holder[p]] = p /\ holder[p] \in Users
      BY <1>0, <1>1, <2>2, LinkEffect DEF IdentityInv, HolderIdentified, TypeOK
    <3>2. holder[p] # Actor(r)
      <4>1. holder[Assignee(r)] = Actor(r) => identity[Actor(r)] = Assignee(r)
        BY <1>0, <1>1, LinkEffect, SubjectAssumption DEF IdentityInv, HolderIdentified
      <4>2. holder[Assignee(r)] = Actor(r) \/ identity[Actor(r)] = NoSubject
        BY <1>1 DEF LinkIdentity, Unidentifiable
      <4> QED BY <4>1, <4>2, <3>1, <2>2, SubjectAssumption
    <3>3. holder[p] # holder[Assignee(r)]
      BY <3>1, <2>2, <1>0, <1>1, LinkEffect, SubjectAssumption DEF IdentityInv, HolderIdentified
    <3> QED BY <3>1, <3>2, <3>3, <1>0, <1>1, LinkEffect
  <2> QED BY <2>1, <2>2
<1>2. CASE Published(r)
  <2>1. holder'[p] = holder[p] /\ holder[p] \in Users /\ identity[holder[p]] = p
    BY <1>0, <1>2 DEF Published, CommitStart, CommitSubject, PublishSubject, IdentityInv, HolderIdentified,
       TypeOK
  <2>2. plan[r].attach => identity[Actor(r)] = NoSubject
    BY <1>2 DEF Published, CommitStart, CommitSubject, PublishSubject, IdentityInv, AttachExclusive, Flushed
  <2> QED BY <1>0, <1>2, <2>1, <2>2, SubjectAssumption DEF Published, CommitStart, CommitSubject,
     PublishSubject, TypeOK
<1>3. CASE ~LinkIdentity(r) /\ ~Published(r)
  BY <1>3, CoreStays DEF coreVars, IdentityInv, HolderIdentified
<1> QED BY <1>1, <1>2, <1>3

LEMMA StepExclusive ==
    ASSUME IdentityInv, NEW r \in Requests, Step(r)
    PROVE  AttachExclusive'
<1>0. TypeInv /\ TypeOK /\ AttachExclusive
  BY DEF IdentityInv, TypeInv
<1>1. ASSUME NEW q \in Requests, pc'[q] \in Flushed, plan'[q].attach
      PROVE  /\ Actor(q)' = Actor(q) /\ Actor(q) \in Users /\ identity[Actor(q)] = NoSubject
             /\ pc[q] \in Flushed => plan[q].attach
             /\ pc[q] \notin Flushed => q = r /\ ~IdentityLocked(r, Actor(r))
  <2>1. plan[q].attach /\ input'[q] = input[q] /\ (pc[q] \in Flushed \/ (q = r /\ AttachIdentity(r)))
    BY <1>0, <1>1, FlushedFrom
  <2>2. identity[Actor(q)] = NoSubject
    BY <1>0, <2>1 DEF AttachExclusive, AttachIdentity, Unidentifiable
  <2>3. pc[q] \in Resolved
    BY <2>1 DEF AttachIdentity, Flushed, Resolved
  <2> QED BY <1>0, <2>1, <2>2, <2>3 DEF Actor, TypeInv, Routed, AttachIdentity
<1>2. ASSUME NEW q \in Requests, pc'[q] \in Flushed, plan'[q].attach,
             NEW t \in Requests \ {q}, pc'[t] \in Flushed, plan'[t].attach
      PROVE  Actor(q) # Actor(t)
  BY <1>0, <1>1, <1>2 DEF AttachExclusive, IdentityLocked
<1>3. ASSUME NEW q \in Requests, pc'[q] \in Flushed, plan'[q].attach
      PROVE  identity'[Actor(q)] = NoSubject
  <2>1. CASE LinkIdentity(r)
    <3>1. pc'[r] = "arrived" /\ q # r
      BY <1>0, <1>3, <2>1, LinkEffect DEF Flushed
    <3>2. pc[q] \in Flushed /\ plan[q].attach
      BY <1>1, <1>3, <3>1
    <3>3. Actor(q) # Actor(r)
      BY <2>1, <3>1, <3>2 DEF LinkIdentity, IdentityLocked
    <3> QED BY <1>0, <1>1, <1>3, <2>1, <3>3, LinkEffect
  <2>2. CASE Published(r)
    <3>1. q # r
      BY <1>0, <1>3, <2>2 DEF Published, CommitStart, CommitSubject, PublishSubject, Goto, Flushed, TypeOK
    <3>2. pc[q] \in Flushed /\ plan[q].attach /\ pc[r] \in Flushed
      BY <1>1, <1>3, <2>2, <3>1 DEF Published, CommitStart, CommitSubject, PublishSubject, Flushed
    <3>3. plan[r].attach => Actor(q) # Actor(r)
      BY <1>0, <3>1, <3>2 DEF AttachExclusive
    <3> QED BY <1>0, <1>1, <1>3, <2>2, <3>3 DEF Published, CommitStart, CommitSubject, PublishSubject, TypeOK
  <2>3. CASE ~LinkIdentity(r) /\ ~Published(r)
    BY <1>1, <1>3, <2>3, CoreStays DEF coreVars
  <2> QED BY <2>1, <2>2, <2>3
<1> QED
  <2> SUFFICES ASSUME NEW q \in Requests, pc'[q] \in Flushed, plan'[q].attach
      PROVE /\ identity'[Actor(q)'] = NoSubject
            /\ \A t \in Requests \ {q} : pc'[t] \in Flushed /\ plan'[t].attach => Actor(t)' # Actor(q)'
    BY DEF AttachExclusive, Flushed
  <2> QED BY <1>1, <1>2, <1>3

LEMMA StepIdentity == IdentityInv /\ [Next]_vars => IdentityInv'
<1>1. ASSUME IdentityInv, UNCHANGED vars PROVE IdentityInv'
  <2>1. TypeInv'
    BY <1>1, StepType DEF IdentityInv
  <2> QED BY <1>1, <2>1 DEF vars, coreVars, IdentityInv, HolderIdentified, AttachExclusive, Flushed, Actor
<1>2. ASSUME IdentityInv, [Next]_vars, NEW r \in Requests, Step(r) PROVE IdentityInv'
  BY <1>2, StepType, StepHolder, StepExclusive DEF IdentityInv
<1> QED BY <1>1, <1>2, NextIsStep

\* What becomes of an identity in a step.
LEMMA IdentityMoves ==
    ASSUME IdentityInv, NEW r \in Requests, Step(r), NEW u \in Users,
           identity[u] # NoSubject, identity'[u] # identity[u]
    PROVE  /\ identity'[u] = NoSubject /\ identity[u] \in Participants
           /\ holder'[identity[u]] \in Mailbox[identity[u]] \ {u}
           /\ u \in ousted'
<1>0. TypeInv /\ TypeOK
  BY DEF IdentityInv, TypeInv
<1>1. CASE LinkIdentity(r)
  <2>1. holder[Assignee(r)] = u /\ identity[u] = Assignee(r) /\ u # Actor(r)
    <3>1. CASE u = Actor(r)
      <4>1. holder[Assignee(r)] = u
        BY <1>1, <3>1 DEF LinkIdentity, Unidentifiable
      <4>2. identity[u] = Assignee(r)
        BY <4>1, <1>0, <1>1, LinkEffect, SubjectAssumption DEF IdentityInv, HolderIdentified
      <4> QED BY <1>0, <1>1, <3>1, <4>2, LinkEffect
    <3>2. CASE u # Actor(r)
      <4>1. u = holder[Assignee(r)]
        BY <1>0, <1>1, <3>2, LinkEffect
      <4> QED BY <4>1, <1>0, <1>1, <3>2, LinkEffect, SubjectAssumption DEF IdentityInv, HolderIdentified
    <3> QED BY <3>1, <3>2
  <2>2. u \in ousted'
    BY <1>1, <2>1 DEF LinkIdentity
  <2> QED BY <1>0, <1>1, <2>1, <2>2, LinkEffect
<1>2. CASE Published(r)
  <2>1. plan[r].attach => identity[Actor(r)] = NoSubject
    BY <1>2 DEF Published, CommitStart, CommitSubject, PublishSubject, IdentityInv, AttachExclusive, Flushed
  <2> QED BY <1>0, <1>2, <2>1 DEF Published, CommitStart, CommitSubject, PublishSubject, TypeOK
<1>3. CASE ~LinkIdentity(r) /\ ~Published(r)
  BY <1>3, CoreStays DEF coreVars
<1> QED BY <1>1, <1>2, <1>3

\* IdentitiesMoveOnlyByVerification: neither a first start nor a verification
\* that finds the account identified otherwise moves an identity
\* (uq_project_subject_identities_active_user); only another account of the
\* same mailbox takes a participant's identity over.
THEOREM IdentitiesMove == Spec => IdentitiesMoveOnlyByVerification
<1>1. ASSUME IdentityInv, [Next]_vars, NEW u \in Users, identity[u] # NoSubject, identity'[u] # identity[u]
      PROVE  /\ identity'[u] = NoSubject /\ identity[u] \in Participants
             /\ holder'[identity[u]] \in Mailbox[identity[u]] \ {u}
  <2>1. PICK r \in Requests : Step(r)
    BY <1>1, NextIsStep DEF vars, coreVars
  <2> QED BY <1>1, <2>1, IdentityMoves
<1>2. ASSUME IdentityInv, [Next]_vars
      PROVE  [\A u \in Users : identity[u] # NoSubject /\ identity'[u] # identity[u] =>
                /\ identity'[u] = NoSubject
                /\ identity[u] \in Participants
                /\ holder'[identity[u]] \in Mailbox[identity[u]] \ {u}]_vars
  BY <1>1, <1>2
<1> QED BY <1>2, InitIdentity, StepIdentity, PTL DEF Spec, IdentitiesMoveOnlyByVerification

-----------------------------------------------------------------------------
(* Recognition tokens: a rotation revokes a token of the same subject.     *)

TokenInv == TypeInv /\ TokensStored /\ VictimChosenLate /\ VictimOfFinal /\ SubjectKeepsToken

LEMMA RecordedFrom ==
    ASSUME TypeInv, NEW r \in Requests, Step(r), NEW q \in Requests, Recorded(q)'
    PROVE  \/ Recorded(q) /\ plan'[q] = plan[q] /\ input'[q] = input[q]
           \/ q = r /\ Published(r)
<1>0. TypeOK /\ Routed(r)
  BY DEF TypeInv
<1>1. CASE q # r
  BY <1>1, OthersStay DEF Recorded, Kind
<1>2. CASE q = r /\ ~Published(r)
  <2>1. pc[r] \in {"kept", "committed", "closed", "done", "left"}
    BY <1>0, <1>2 DEF TypeOK, Goto, Recorded, Published, Step, Proceed, Arrive, ReadParticipant, LinkIdentity,
       LookUpToken, Resolve, MergeSubject, AlreadyMerged, AttachIdentity, IdentityConflict, ChooseToken,
       TouchToken,
       CommitSession, CloseVerification, Answer, AnswerLost, RequestFails, StartFailsLate
  <2>2. input'[r] = input[r]
    BY <2>1, OwnStable DEF Resolved
  <2>3. Recorded(r)
    BY <1>0, <1>2, <2>1, <2>2 DEF Recorded, Kind, Routed
  <2> QED BY <1>2, <2>3, RecordedStays
<1> QED BY <1>1, <1>2

\* What the commit of a start does to the tokens.
LEMMA CommitEffect ==
    ASSUME TokenInv, NEW r \in Requests, Published(r)
    PROVE  /\ token[r] = NoSubject /\ r \notin revoked /\ plan[r].final \in Subjects
           /\ \A t \in Requests \ {r} : token'[t] = token[t]
           /\ token'[r] = IF plan[r].action \in {"issue", "rotate"} THEN plan[r].final ELSE NoSubject
           /\ \A t \in Requests :
                 t \in revoked' => t \in revoked \/ (t = victim[r] /\ plan[r].action = "rotate")
           /\ revoked \subseteq revoked'
           /\ \A t \in Requests : t = victim[r] => token[t] = plan[r].final /\ t # r
           /\ Recorded(r)' /\ plan'[r] = plan[r] /\ pc'[r] \in {"kept", "committed"}
<1>0. TypeOK /\ TypeInv
  BY DEF TokenInv, TypeInv
<1>1. pc[r] = "ready" /\ Kind(r) # "verify"
  BY DEF Published, CommitStart, CommitSubject, PublishSubject
<1>2. token[r] = NoSubject
  BY <1>1 DEF TokenInv, TokensStored, Recorded
<1>3. r \notin revoked /\ plan[r].final \in Subjects
  BY <1>0, <1>1, <1>2 DEF TokenInv, TokensStored, TypeOK, Resolved
<1>4. \A t \in Requests : t = victim[r] => token[t] = plan[r].final /\ t # r
  BY <1>1, <1>2, <1>3, SubjectAssumption DEF TokenInv, VictimOfFinal, Subjects
<1>5. Recorded(r)' /\ plan'[r] = plan[r] /\ pc'[r] \in {"kept", "committed"}
  BY <1>0, <1>1 DEF Published, CommitStart, CommitSubject, Goto, TypeOK, Recorded, Kind
<1> QED BY <1>0, <1>2, <1>3, <1>4, <1>5 DEF Published, CommitStart, CommitSubject, PublishSubject,
   NewTokenSubject, TypeOK

\* Only a commit stores or revokes tokens.
LEMMA TokensStay ==
    ASSUME NEW r \in Requests, Step(r), ~Published(r)
    PROVE  token' = token /\ revoked' = revoked
<1>1. CASE LinkIdentity(r)
  BY <1>1 DEF LinkIdentity
<1>2. CASE ~LinkIdentity(r)
  BY <1>2, CoreStays DEF coreVars
<1> QED BY <1>1, <1>2

\* A stored token stays one of its subject.
LEMMA TokenStays ==
    ASSUME TokenInv, NEW r \in Requests, Step(r), NEW t \in Requests, token[t] # NoSubject
    PROVE  token'[t] = token[t]
BY CommitEffect, TokensStay

LEMMA StepTokensStored ==
    ASSUME TokenInv, NEW r \in Requests, Step(r)
    PROVE  TokensStored'
<1>0. TypeInv /\ TokensStored
  BY DEF TokenInv
<1>1. ASSUME NEW q \in Requests, token'[q] # NoSubject PROVE Recorded(q)'
  <2>1. CASE token[q] # NoSubject
    BY <1>0, <2>1, RecordedStays DEF TokensStored
  <2>2. CASE token[q] = NoSubject
    BY <1>1, <2>2, CommitEffect, TokensStay
  <2> QED BY <2>1, <2>2
<1>2. ASSUME NEW q \in Requests, Recorded(q)', plan'[q].action \in {"issue", "rotate"}
      PROVE  token'[q] = plan'[q].final
  <2>1. CASE q = r /\ Published(r)
    BY <1>2, <2>1, CommitEffect
  <2>2. CASE Recorded(q) /\ plan'[q] = plan[q]
    <3>1. token[q] = plan[q].final /\ plan[q].final \in Subjects
      BY <1>0, <1>2, <2>2 DEF TokensStored, TypeInv, TypeOK, Recorded, Resolved
    <3> QED BY <2>2, <3>1, TokenStays, SubjectAssumption DEF Subjects
  <2> QED BY <1>0, <1>2, <2>1, <2>2, RecordedFrom
<1>3. ASSUME NEW t \in revoked' PROVE token'[t] # NoSubject
  <2>1. t \in Requests
    BY <1>0, StepTypeOK DEF TypeOK
  <2>2. token[t] # NoSubject
    BY <1>0, <1>3, <2>1, CommitEffect, TokensStay, SubjectAssumption DEF TokensStored, Subjects
  <2> QED BY <2>1, <2>2, TokenStays
<1> QED BY <1>1, <1>2, <1>3 DEF TokensStored

LEMMA StepVictim ==
    ASSUME TokenInv, NEW r \in Requests, Step(r)
    PROVE  VictimChosenLate' /\ VictimOfFinal'
<1> USE DEF TypeOK, Goto, Chosen
<1>0. TypeInv /\ TypeOK /\ VictimChosenLate /\ VictimOfFinal
  BY DEF TokenInv, TypeInv
<1>1. ASSUME NEW q \in Requests, pc'[q] \notin Chosen
      PROVE  victim'[q] = NoToken
  <2>1. CASE q # r
    BY <1>0, <1>1, <2>1, OthersStay DEF VictimChosenLate
  <2>2. CASE q = r
    <3>1. victim'[r] = victim[r]
      BY <1>0, <1>1, <2>2 DEF Step, Proceed, Arrive, ReadParticipant, LinkIdentity, LookUpToken,
       Resolve, MergeSubject, AlreadyMerged, AttachIdentity, IdentityConflict, ChooseToken, TouchToken,
       CommitStart, CommitSubject, CommitSession, CloseVerification, Answer, AnswerLost, RequestFails,
       StartFailsLate
    <3>2. pc[r] \notin Chosen
      BY <1>0, <1>1, <2>2 DEF Step, Proceed, Arrive, ReadParticipant, LinkIdentity, LookUpToken,
       Resolve, MergeSubject, AlreadyMerged, AttachIdentity, IdentityConflict, ChooseToken, TouchToken,
       CommitStart, CommitSubject, CommitSession, CloseVerification, Answer, AnswerLost, RequestFails,
       StartFailsLate
    <3> QED BY <1>0, <2>2, <3>1, <3>2 DEF VictimChosenLate
  <2> QED BY <2>1, <2>2
<1>2. ASSUME NEW q \in Requests, pc'[q] \in {"touching", "ready"}, victim'[q] # NoToken
      PROVE  token'[victim'[q]] = plan'[q].final
  <2>1. CASE q = r /\ ChooseToken(r)
    <3>1. plan'[r] = plan[r] /\ token' = token /\ pc[r] = "token" /\ victim[r] = NoToken
      BY <1>0, <2>1 DEF ChooseToken, coreVars, VictimChosenLate
    <3>2. victim'[r] \in ActiveTokens(r)
      BY <1>0, <1>2, <2>1, <3>1 DEF ChooseToken
    <3> QED BY <2>1, <3>1, <3>2 DEF ActiveTokens
  <2>2. CASE ~(q = r /\ ChooseToken(r))
    <3>1. victim'[q] = victim[q] /\ pc[q] \in {"touching", "ready"} /\ plan'[q] = plan[q]
      <4>1. CASE q # r
        BY <1>0, <1>2, <4>1, OthersStay
      <4>2. CASE q = r
        <5>1. ~Resolve(r)
          BY <1>0, <1>2, <4>2 DEF Resolve
        <5>2. ~AlreadyMerged(r)
          BY <1>0, <1>2, <4>2 DEF AlreadyMerged
        <5>3. TouchToken(r)
          BY <1>0, <1>2, <2>2, <4>2, <5>1, <5>2 DEF Step, Proceed, Arrive, ReadParticipant, LinkIdentity,
             LookUpToken, MergeSubject, AttachIdentity, IdentityConflict,
             CommitStart, CommitSubject, CommitSession, CloseVerification, Answer, AnswerLost, RequestFails,
             StartFailsLate
        <5> QED BY <4>2, <5>3 DEF TouchToken
      <4> QED BY <4>1, <4>2
    <3>2. victim[q] \in Requests /\ token[victim[q]] = plan[q].final /\ plan[q].final \in Subjects
      BY <1>0, <1>2, <3>1 DEF VictimOfFinal, Resolved
    <3> QED BY <3>1, <3>2, TokenStays, SubjectAssumption DEF Subjects
  <2> QED BY <2>1, <2>2
<1> QED BY <1>1, <1>2 DEF VictimChosenLate, VictimOfFinal

LEMMA StepKeepsToken ==
    ASSUME TokenInv, NEW r \in Requests, Step(r)
    PROVE  SubjectKeepsToken'
<1> SUFFICES ASSUME NEW t \in Requests, token'[t] # NoSubject
             PROVE  \E n \in Requests \ revoked' : token'[n] = token'[t]
  BY DEF SubjectKeepsToken
<1>1. CASE Published(r)
  <2>1. CASE t = r
    BY <1>1, <2>1, CommitEffect
  <2>2. CASE t # r
    <3>1. token'[t] = token[t]
      BY <1>1, <2>2, CommitEffect
    <3>2. PICK n \in Requests \ revoked : token[n] = token[t]
      BY <3>1 DEF TokenInv, SubjectKeepsToken
    <3>3. n # r /\ token'[n] = token[n]
      BY <1>1, <3>1, <3>2, CommitEffect
    <3>4. CASE n \notin revoked'
      BY <3>1, <3>2, <3>3, <3>4
    <3>5. CASE n \in revoked'
      <4>1. token[n] = plan[r].final /\ token'[r] = plan[r].final /\ r \notin revoked'
        BY <1>1, <3>2, <3>5, CommitEffect
      <4> QED BY <3>1, <3>2, <4>1
    <3> QED BY <3>4, <3>5
  <2> QED BY <2>1, <2>2
<1>2. CASE ~Published(r)
  BY <1>2, TokensStay DEF TokenInv, SubjectKeepsToken
<1> QED BY <1>1, <1>2

LEMMA InitToken == Init => TokenInv
BY InitType, SubjectAssumption DEF TokenInv, Init, TokensStored, Recorded, VictimChosenLate, VictimOfFinal,
   SubjectKeepsToken

LEMMA StepToken == TokenInv /\ [Next]_vars => TokenInv'
<1>1. ASSUME TokenInv, UNCHANGED vars PROVE TokenInv'
  <2>1. TypeInv'
    BY <1>1, StepType DEF TokenInv
  <2> QED BY <1>1, <2>1 DEF vars, coreVars, TokenInv, TokensStored, Recorded, Kind, VictimChosenLate,
                        VictimOfFinal, Chosen,
          SubjectKeepsToken
<1>2. ASSUME TokenInv, [Next]_vars, NEW r \in Requests, Step(r) PROVE TokenInv'
  BY <1>2, StepType, StepTokensStored, StepVictim, StepKeepsToken DEF TokenInv
<1> QED BY <1>1, <1>2, NextIsStep

\* SubjectKeepsToken: whatever tokens concurrent rotations revoke
\* (SubjectTokenService.apply_token_action), one of the subject is left.
THEOREM TokensRemain == Spec => []SubjectKeepsToken
<1>1. TokenInv => SubjectKeepsToken
  BY DEF TokenInv
<1> QED BY <1>1, InitToken, StepToken, PTL DEF Spec

-----------------------------------------------------------------------------
(* Cookies: an answer gives a browser a token of its own session.          *)

OwnInv == TokenInv /\ OwnTokens

LEMMA OwnStays ==
    ASSUME OwnInv, NEW r \in Requests, Step(r), NEW b \in Browsers, NEW t, Own(b, t)
    PROVE  Own(b, t)'
<1>0. TokenInv /\ TypeInv /\ TypeOK
  BY DEF OwnInv, TokenInv, TypeInv
<1>1. t \in Requests /\ pc[t] = "done"
  BY DEF Own
<1>2. pc'[t] = "done" /\ input'[t] = input[t]
  <2>1. CASE t = r
    BY <1>0, <1>1, <2>1 DEF Step, Proceed, Arrive, ReadParticipant, LinkIdentity, LookUpToken,
       Resolve, MergeSubject, AlreadyMerged, AttachIdentity, IdentityConflict, ChooseToken, TouchToken,
       CommitStart, CommitSubject, CommitSession, CloseVerification, Answer, AnswerLost, RequestFails,
       StartFailsLate
  <2> QED BY <1>0, <1>1, <2>1, OthersStay
<1>3. token'[t] = token[t]
  <2>1. CASE Published(r)
    BY <1>0, <1>1, <2>1, CommitEffect DEF Published, CommitStart, CommitSubject, PublishSubject
  <2> QED BY <2>1, TokensStay
<1> QED BY <1>0, <1>1, <1>2, <1>3, StartedStays DEF Own, Kind

LEMMA StepCookie ==
    ASSUME OwnInv, NEW r \in Requests, Step(r), NEW b \in Browsers, NEW t, t = cookie'[b], t # NoToken
    PROVE  Own(b, t)'
<1>0. TokenInv /\ TypeInv /\ TypeOK /\ OwnTokens
  BY DEF OwnInv, TokenInv, TypeInv
<1>1. CASE cookie'[b] = cookie[b]
  BY <1>0, <1>1, OwnStays DEF OwnTokens
<1>2. CASE cookie'[b] # cookie[b]
  <2>1. Answer(r)
    BY <1>2 DEF Step, Proceed, Arrive, ReadParticipant, LinkIdentity, LookUpToken,
       Resolve, MergeSubject, AlreadyMerged, AttachIdentity, IdentityConflict, ChooseToken, TouchToken,
       CommitStart, CommitSubject, CommitSession, CloseVerification, AnswerLost, RequestFails, StartFailsLate
  <2>2. pc[r] \in {"committed", "closed"} /\ pc'[r] = "done" /\ plan'[r] = plan[r] /\ input'[r] = input[r]
        /\ token' = token
    BY <1>0, <2>1 DEF Answer, Goto, TypeOK, coreVars
  <2>3. input[r] \in Inputs /\ plan[r] \in Plans /\ Routed(r)
    BY <1>0, <2>2 DEF TypeInv, TypeOK, Arrived
  <2>4. /\ input[r].browser = b
        /\ \/ plan[r].action \in {"issue", "rotate"} /\ cookie'[b] = r
           \/ plan[r].action = "mark_used" /\ cookie'[b] = input[r].token
    <3>1. CASE plan[r].action \in {"issue", "rotate"}
      <4>1. cookie' = [cookie EXCEPT ![input[r].browser] = r]
        BY <2>1, <3>1 DEF Answer
      <4> QED BY <1>0, <1>2, <3>1, <4>1 DEF TypeOK
    <3>2. CASE plan[r].action = "mark_used"
      <4>1. cookie' = [cookie EXCEPT ![input[r].browser] = input[r].token]
        BY <2>1, <3>2 DEF Answer
      <4> QED BY <1>0, <1>2, <3>2, <4>1 DEF TypeOK
    <3>3. CASE plan[r].action = "keep"
      <4>1. cookie' = cookie
        BY <2>1, <3>3 DEF Answer
      <4> QED BY <1>2, <4>1
    <3> QED BY <2>3, <3>1, <3>2, <3>3 DEF Plans
  <2>5. CASE plan[r].action \in {"issue", "rotate"}
    <3>1. Kind(r) # "verify" => Started(r) /\ token[r] = plan[r].final
      BY <1>0, <2>2, <2>3, <2>5 DEF Started, Recorded, Routed, TokenInv, TokensStored
    <3>2. Kind(r) # "verify" => Started(r)' /\ token'[r] = plan'[r].final /\ input'[r].browser = b
      BY <1>0, <2>2, <2>4, <3>1, StartedStays
    <3> QED BY <2>2, <2>4, <2>5, <3>2, StartedStays DEF Own, Kind
  <2>6. CASE plan[r].action = "mark_used"
    <3>1. Own(b, input[r].token)
      BY <1>0, <2>2, <2>4, <2>6 DEF OwnTokens, Resolved
    <3> QED BY <2>4, <2>6, <3>1, OwnStays
  <2> QED BY <2>4, <2>5, <2>6
<1> QED BY <1>1, <1>2

LEMMA StepOwnInput ==
    ASSUME OwnInv, NEW r \in Requests, Step(r), NEW q \in Requests, pc'[q] # "idle",
           NEW b, NEW t, b = input'[q].browser, t = input'[q].token, t # NoToken
    PROVE  b \in Browsers /\ Own(b, t)'
<1>0. TypeInv /\ TypeOK /\ OwnTokens
  BY DEF OwnInv, TokenInv, TypeInv
<1>1. CASE pc[q] # "idle"
  <2>1. input'[q] = input[q] /\ input[q] \in Inputs
    BY <1>0, <1>1, Stable DEF TypeInv, Arrived
  <2> QED BY <1>0, <1>1, <2>1, OwnStays DEF OwnTokens, Inputs
<1>2. CASE pc[q] = "idle"
  <2>1. q = r
    BY <1>0, <1>2, OthersStay
  <2>2. PICK c \in Browsers, e \in Entries : Arrive(r, c, e)
    BY <1>2, <2>1 DEF Step, Proceed, Arrive, ReadParticipant, LinkIdentity, LookUpToken,
       Resolve, MergeSubject, AlreadyMerged, AttachIdentity, IdentityConflict, ChooseToken, TouchToken,
       CommitStart, CommitSubject, CommitSession, CloseVerification, Answer, AnswerLost, RequestFails,
       StartFailsLate
  <2>3. b = c /\ t = cookie[b]
    BY <1>0, <2>1, <2>2 DEF Arrive, TypeOK
  <2> QED BY <1>0, <2>3, OwnStays DEF OwnTokens
<1> QED BY <1>1, <1>2

LEMMA StepTokenSent ==
    ASSUME OwnInv, NEW r \in Requests, Step(r), NEW q \in Requests
    PROVE  /\ pc'[q] \in Resolved /\ plan'[q].action = "mark_used" => input'[q].token # NoToken
           /\ pc'[q] = "looked" /\ found'[q].subject # NoSubject => input'[q].token # NoToken
<1>0. TypeInv /\ TypeOK /\ OwnTokens
  BY DEF OwnInv, TokenInv, TypeInv
<1>1. ASSUME pc'[q] \in Resolved, plan'[q].action = "mark_used"
      PROVE  input'[q].token # NoToken
  <2>1. CASE pc[q] \in Resolved
    BY <1>0, <1>1, <2>1, Stable DEF OwnTokens, Resolved
  <2>2. CASE q = r /\ Resolve(r)
    <3>1. pc[r] = "looked" /\ plan'[r] = Resolution(r) /\ input'[r] = input[r]
      BY <1>0, <2>2 DEF Resolve, TypeOK
    <3>2. found[r].subject # NoSubject
      BY <1>1, <2>2, <3>1 DEF Resolution, Against, Unidentified, Merge
    <3> QED BY <1>0, <2>2, <3>1, <3>2 DEF OwnTokens
  <2> QED BY <1>0, <1>1, <2>1, <2>2, Stable
<1>2. ASSUME pc'[q] = "looked", found'[q].subject # NoSubject
      PROVE  input'[q].token # NoToken
  <2>1. CASE q # r
    BY <1>0, <1>2, <2>1, OthersStay DEF OwnTokens
  <2>2. CASE q = r
    <3>1. LookUpToken(r)
      BY <1>0, <1>2, <2>2 DEF TypeOK, Goto, Step, Proceed, Arrive, ReadParticipant, LinkIdentity, LookUpToken,
       Resolve, MergeSubject, AlreadyMerged, AttachIdentity, IdentityConflict, ChooseToken, TouchToken,
       CommitStart, CommitSubject, CommitSession, CloseVerification, Answer, AnswerLost, RequestFails,
       StartFailsLate
    <3>2. input[r].token \in Requests /\ input'[r] = input[r]
      BY <1>0, <1>2, <2>2, <3>1 DEF LookUpToken, TypeOK
    <3> QED BY <2>2, <3>2, SubjectAssumption
  <2> QED BY <2>1, <2>2
<1> QED BY <1>1, <1>2

LEMMA InitOwn == Init => OwnInv
BY InitToken, SubjectAssumption DEF OwnInv, Init, OwnTokens, Resolved

LEMMA StepOwn == OwnInv /\ [Next]_vars => OwnInv'
<1>1. ASSUME OwnInv, UNCHANGED vars PROVE OwnInv'
  <2>1. TokenInv'
    BY <1>1, StepToken DEF OwnInv
  <2> QED BY <1>1, <2>1 DEF vars, coreVars, OwnInv, OwnTokens, Own, Started, Kind, Resolved
<1>2. ASSUME OwnInv, [Next]_vars, NEW r \in Requests, Step(r) PROVE OwnInv'
  <2>1. TokenInv'
    BY <1>2, StepToken DEF OwnInv
  <2>2. \A b \in Browsers : cookie'[b] # NoToken => Own(b, cookie[b])'
    BY <1>2, StepCookie DEF Own, Started, Kind
  <2>3. \A q \in Requests : pc'[q] # "idle" /\ input'[q].token # NoToken =>
          Own(input[q].browser, input[q].token)'
    BY <1>2, StepOwnInput DEF Own, Started, Kind
  <2>4. OwnTokens'
    BY <1>2, <2>2, <2>3, StepTokenSent DEF OwnTokens, Resolved
  <2> QED BY <2>1, <2>4 DEF OwnInv
<1> QED BY <1>1, <1>2, NextIsStep

\* CookieOfOwnSession: whatever order the answers of several tabs come in
\* (set_recognition_cookie), a browser never holds a token of another's subject.
THEOREM CookiesAreOwn == Spec => []CookieOfOwnSession
<1>1. OwnInv => CookieOfOwnSession
  BY DEF OwnInv, OwnTokens, Own, CookieOfOwnSession
<1> QED BY <1>1, InitOwn, StepOwn, PTL DEF Spec

\* CookieTokenIsStored holds but for the tokens that verifications hand out: any
\* other token in a cookie has its row, and is of a subject.
THEOREM CookiesOfStartsAreStored ==
    Spec => [](\A b \in Browsers : cookie[b] # NoToken /\ Kind(cookie[b]) # "verify" =>
                                       token[cookie[b]] # NoSubject)
<1> DEFINE Stored == \A b \in Browsers : cookie[b] # NoToken /\ Kind(cookie[b]) # "verify" =>
                                             token[cookie[b]] # NoSubject
<1>1. TypeOK /\ CookieOfOwnSession => Stored
  <2> SUFFICES ASSUME TypeOK, CookieOfOwnSession,
                      NEW b \in Browsers, cookie[b] # NoToken, Kind(cookie[b]) # "verify"
               PROVE  token[cookie[b]] # NoSubject
    OBVIOUS
  <2>1. PICK r \in Requests : Started(r) /\ plan[r].final = token[cookie[b]]
    BY DEF CookieOfOwnSession
  <2>2. plan[r].final \in Subjects
    BY <2>1 DEF TypeOK, Started, Resolved
  <2> QED BY <2>1, <2>2, SubjectAssumption DEF Subjects
<1> QED BY <1>1, TypeCorrect, CookiesAreOwn, PTL

-----------------------------------------------------------------------------
(* Aliases: a merge goes to a participant or to an account's subject.      *)

AuthInv == IdentityInv /\ AliasesPointToAuthority /\ MergesIntoAuthority

LEMMA AuthorityStays ==
    ASSUME IdentityInv, NEW r \in Requests, Step(r), NEW s \in Subjects, Authority(s)
    PROVE  Authority(s)'
<1>1. ASSUME NEW u \in Users, identity[u] = s, s \notin Participants
      PROVE  identity'[u] = s
  BY <1>1, IdentityMoves, SubjectAssumption DEF Subjects
<1> QED BY <1>1 DEF Authority

\* Whom the resolver takes a request for.
LEMMA ResolutionFollows ==
    ASSUME TypeInv, NEW r \in Requests, pc[r] = "looked"
    PROVE  /\ Assignee(r) # NoSubject =>
                 Assignee(r) \in Participants /\ Resolution(r).final = OneHop(Assignee(r))
           /\ Assignee(r) = NoSubject /\ Actor(r) \in Users /\ identity[Actor(r)] # NoSubject =>
                 Resolution(r).final = OneHop(identity[Actor(r)]) /\ ~Resolution(r).attach
           /\ Assignee(r) = NoSubject /\ Actor(r) \in Users /\ identity[Actor(r)] = NoSubject =>
                 Resolution(r).attach
           /\ Resolution(r).weaker # NoSubject =>
                 Assignee(r) # NoSubject \/ (Actor(r) \in Users /\ identity[Actor(r)] # NoSubject)
<1>1. Assignee(r) # NoSubject => Assignee(r) \in Participants
  BY SubjectAssumption DEF TypeInv, Arrived, Inputs, Entries, Assignee
<1>2. Actor(r) \in Users \cup {NoUser}
  BY DEF TypeInv, Arrived, Inputs, Entries, Actor
<1>3. \A s, a : Against(s, found[r], a).final = s /\ ~Against(s, found[r], a).attach
  BY DEF Against, Merge
<1>4. \A x \in BOOLEAN : /\ Unidentified(found[r], r, x).attach = x
                        /\ Unidentified(found[r], r, x).weaker = NoSubject
  BY DEF Unidentified
<1> QED BY <1>1, <1>2, <1>3, <1>4, SubjectAssumption DEF Resolution

LEMMA StepAliases ==
    ASSUME AuthInv, NEW r \in Requests, Step(r)
    PROVE  AliasesPointToAuthority'
<1>0. IdentityInv /\ TypeInv /\ TypeOK /\ AliasesPointToAuthority
  BY DEF AuthInv, IdentityInv, TypeInv
<1>1. ASSUME NEW s \in Subjects, canonical'[s] # NoSubject
      PROVE  canonical'[s] \in Subjects /\ Authority(canonical'[s])
  <2>1. CASE canonical'[s] = canonical[s]
    BY <1>0, <1>1, <2>1 DEF AliasesPointToAuthority, Authority, TypeOK
  <2>2. CASE canonical'[s] # canonical[s]
    <3>1. Published(r)
      BY <1>0, <2>2, CoreStays DEF LinkIdentity, coreVars
    <3>2. canonical'[s] = plan[r].final /\ plan[r].weaker # NoSubject /\ pc[r] = "ready"
      BY <1>0, <1>1, <2>2, <3>1 DEF Published, CommitStart, CommitSubject, PublishSubject, TypeOK
    <3> QED BY <1>0, <3>2 DEF AuthInv, MergesIntoAuthority, Resolved, TypeOK
  <2> QED BY <2>1, <2>2
<1>2. ASSUME NEW s \in Subjects, canonical'[s] # NoSubject, NEW t \in Subjects, t = canonical'[s]
      PROVE  Authority(t)'
  BY <1>0, <1>1, <1>2, AuthorityStays
<1> QED BY <1>1, <1>2 DEF AliasesPointToAuthority, Authority

LEMMA StepMerges ==
    ASSUME AuthInv, NEW r \in Requests, Step(r)
    PROVE  MergesIntoAuthority'
<1>0. IdentityInv /\ TypeInv /\ TypeOK /\ MergesIntoAuthority /\ AliasesPointToAuthority
  BY DEF AuthInv, IdentityInv, TypeInv
<1>1. ASSUME NEW q \in Requests, pc'[q] \in Resolved, plan'[q].weaker # NoSubject,
             NEW t, t = plan'[q].final
      PROVE  t \in Subjects /\ Authority(t)
  <2>1. CASE pc[q] \in Resolved
    BY <1>0, <1>1, <2>1, Stable DEF MergesIntoAuthority, TypeOK
  <2>2. CASE q = r /\ Resolve(r)
    <3>1. pc[r] = "looked" /\ plan'[r] = Resolution(r)
      BY <1>0, <2>2 DEF Resolve, TypeOK
    <3>2. PICK s \in Subjects : Authority(s) /\ t = OneHop(s)
      <4>1. Assignee(r) # NoSubject => Authority(Assignee(r)) /\ Assignee(r) \in Subjects
        BY <1>0, <3>1, ResolutionFollows DEF Authority, Subjects
      <4>2. Actor(r) \in Users /\ identity[Actor(r)] # NoSubject =>
                Authority(identity[Actor(r)]) /\ identity[Actor(r)] \in Subjects
        BY <1>0 DEF Authority, TypeOK
      <4> QED BY <1>0, <1>1, <2>2, <3>1, <4>1, <4>2, ResolutionFollows
    <3> QED BY <1>0, <3>2 DEF OneHop, AliasesPointToAuthority, Authority, TypeOK
  <2> QED BY <1>0, <1>1, <2>1, <2>2, Stable
<1>2. ASSUME NEW q \in Requests, pc'[q] \in Resolved, plan'[q].weaker # NoSubject,
             NEW t, t = plan'[q].final
      PROVE  Authority(t)'
  BY <1>0, <1>1, <1>2, AuthorityStays
<1> QED BY <1>2 DEF MergesIntoAuthority, Authority, Resolved

LEMMA InitAuth == Init => AuthInv
BY InitIdentity DEF AuthInv, Init, AliasesPointToAuthority, MergesIntoAuthority, Resolved

LEMMA StepAuth == AuthInv /\ [Next]_vars => AuthInv'
<1>1. ASSUME AuthInv, UNCHANGED vars PROVE AuthInv'
  <2>1. IdentityInv'
    BY <1>1, StepIdentity DEF AuthInv
  <2> QED BY <1>1, <2>1 DEF vars, coreVars, AuthInv, AliasesPointToAuthority, MergesIntoAuthority, Authority,
                        Resolved
<1>2. ASSUME AuthInv, [Next]_vars, NEW r \in Requests, Step(r) PROVE AuthInv'
  <2>1. IdentityInv'
    BY <1>2, StepIdentity DEF AuthInv
  <2> QED BY <1>2, <2>1, StepAliases, StepMerges DEF AuthInv
<1> QED BY <1>1, <1>2, NextIsStep

\* AliasesPointToAuthority: an anonymous subject never absorbs another
\* (SubjectResolver._reconcile_identity_and_token).
THEOREM AliasesHaveAuthority == Spec => []AliasesPointToAuthority
<1>1. AuthInv => AliasesPointToAuthority
  BY DEF AuthInv
<1> QED BY <1>1, InitAuth, StepAuth, PTL DEF Spec

-----------------------------------------------------------------------------
(* Evidence: who a session belongs to.                                     *)

EvidenceInv == IdentityInv /\ AliasesAreMerges /\ PlanFollowsEvidence

LEMMA StepAliasesAreMerges ==
    ASSUME EvidenceInv, NEW r \in Requests, Step(r)
    PROVE  AliasesAreMerges'
<1>0. TypeInv /\ TypeOK /\ AliasesAreMerges
  BY DEF EvidenceInv, IdentityInv, TypeInv
<1>1. ASSUME NEW s \in Subjects, NEW t, t = canonical'[s], t # NoSubject
      PROVE  MergedInto(s, t)'
  <2>1. CASE t = canonical[s]
    BY <1>0, <1>1, <2>1, MergedStays DEF AliasesAreMerges
  <2>2. CASE t # canonical[s]
    <3>1. Published(r)
      BY <1>0, <1>1, <2>2, CoreStays DEF LinkIdentity, coreVars
    <3>2. plan[r].weaker = s /\ plan[r].final = t
      BY <1>0, <1>1, <2>2, <3>1 DEF Published, CommitStart, CommitSubject, PublishSubject, TypeOK
    <3>3. Recorded(r)' /\ plan'[r] = plan[r]
      BY <1>0, <3>1 DEF Published, CommitStart, CommitSubject, Goto, TypeOK, Recorded, Kind
    <3> QED BY <3>2, <3>3 DEF MergedInto
  <2> QED BY <2>1, <2>2
<1> QED BY <1>1 DEF AliasesAreMerges, MergedInto, Recorded, Kind

LEMMA SameOrMergedStays ==
    ASSUME TypeInv, NEW r \in Requests, Step(r), NEW s, NEW t, SameOrMerged(s, t)
    PROVE  SameOrMerged(s, t)'
BY MergedStays DEF SameOrMerged

LEMMA OneHopMerged ==
    ASSUME AliasesAreMerges, NEW s \in Subjects
    PROVE  SameOrMerged(s, OneHop(s))
BY DEF AliasesAreMerges, SameOrMerged, OneHop

LEMMA StepAssigned ==
    ASSUME EvidenceInv, NEW r \in Requests, Step(r), NEW q \in Requests, pc'[q] \in Resolved,
           NEW s, s = input'[q].entry.assignee, s # NoSubject, NEW t, t = plan'[q].final
    PROVE  SameOrMerged(s, t)'
<1>0. TypeInv /\ TypeOK /\ AliasesAreMerges /\ PlanFollowsEvidence
  BY DEF EvidenceInv, IdentityInv, TypeInv
<1>1. CASE pc[q] \in Resolved
  <2>1. s = Assignee(q) /\ t = plan[q].final
    BY <1>0, <1>1, Stable DEF Assignee, Resolved
  <2>2. SameOrMerged(s, t)
    BY <1>0, <1>1, <2>1 DEF PlanFollowsEvidence
  <2> QED BY <1>0, <2>2, SameOrMergedStays
<1>2. CASE q = r /\ Resolve(r)
  <2>1. pc[r] = "looked" /\ t = Resolution(r).final /\ s = Assignee(r)
    BY <1>0, <1>2 DEF Resolve, TypeOK, Assignee
  <2>2. t = OneHop(s) /\ s \in Subjects
    BY <1>0, <2>1, ResolutionFollows DEF Subjects
  <2> QED BY <1>0, <2>2, OneHopMerged, SameOrMergedStays
<1> QED BY <1>0, <1>1, <1>2, Stable

LEMMA StepIdentified ==
    ASSUME EvidenceInv, NEW r \in Requests, Step(r), NEW q \in Requests, pc'[q] \in Resolved,
           input'[q].entry.assignee = NoSubject,
           NEW u \in Users, u = input'[q].entry.user, u \notin ousted'
    PROVE  /\ plan'[q].attach => (Recorded(q)' => identity'[u] = plan'[q].final)
           /\ ~plan'[q].attach =>
                 /\ identity'[u] = identity[u] /\ identity[u] # NoSubject
                 /\ SameOrMerged(identity[u], plan'[q].final)
<1>0. IdentityInv /\ TypeInv /\ TypeOK /\ AliasesAreMerges /\ PlanFollowsEvidence
  BY DEF EvidenceInv, IdentityInv, TypeInv
<1>1. identity[u] # NoSubject => identity'[u] = identity[u]
  BY <1>0, IdentityMoves
<1>2. u \notin ousted
  BY CoreStays DEF LinkIdentity, Published, CommitStart, CommitSubject, PublishSubject, coreVars
<1>3. CASE pc[q] \in Resolved
  <2>1. /\ Assignee(q) = NoSubject /\ Actor(q) = u
        /\ plan'[q].final = plan[q].final /\ plan'[q].attach = plan[q].attach
    BY <1>0, <1>3, Stable DEF Assignee, Actor, Resolved
  <2>2. CASE ~plan[q].attach
    BY <1>0, <1>1, <1>2, <1>3, <2>1, <2>2 DEF PlanFollowsEvidence
  <2>3. CASE plan[q].attach /\ Recorded(q)'
    <3>1. CASE Recorded(q)
      BY <1>0, <1>1, <1>2, <1>3, <2>1, <2>3, <3>1, SubjectAssumption DEF PlanFollowsEvidence, TypeOK, Subjects
    <3>2. CASE q = r /\ Published(r)
      BY <1>0, <2>1, <2>3, <3>2 DEF Published, CommitStart, CommitSubject, PublishSubject, TypeOK
    <3> QED BY <1>0, <2>3, <3>1, <3>2, RecordedFrom
  <2> QED BY <2>1, <2>2, <2>3
<1>4. CASE q = r /\ Resolve(r)
  <2>1. pc[r] = "looked" /\ plan'[r] = Resolution(r) /\ Assignee(r) = NoSubject /\ Actor(r) = u
        /\ ~Recorded(r)'
    BY <1>0, <1>4 DEF Resolve, Goto, TypeOK, Assignee, Actor, Recorded
  <2>2. ~Resolution(r).attach => /\ identity[u] # NoSubject /\ identity[u] \in Subjects
                                /\ Resolution(r).final = OneHop(identity[u])
    BY <1>0, <2>1, ResolutionFollows DEF TypeOK
  <2> QED BY <1>0, <1>1, <1>4, <2>1, <2>2, OneHopMerged
<1> QED BY <1>0, <1>3, <1>4, Stable

LEMMA StepEvidence == EvidenceInv /\ [Next]_vars => EvidenceInv'
<1>1. ASSUME EvidenceInv, UNCHANGED vars PROVE EvidenceInv'
  <2>1. IdentityInv'
    BY <1>1, StepIdentity DEF EvidenceInv
  <2> QED BY <1>1, <2>1 DEF vars, coreVars, EvidenceInv, AliasesAreMerges, PlanFollowsEvidence, SameOrMerged,
          MergedInto, Recorded, Started, Kind, Assignee, Actor, Resolved
<1>2. ASSUME EvidenceInv, [Next]_vars, NEW r \in Requests, Step(r) PROVE EvidenceInv'
  <2>0. IdentityInv' /\ TypeInv
    BY <1>2, StepIdentity DEF EvidenceInv, IdentityInv
  <2>1. \A q \in Requests : pc'[q] \in Resolved /\ input'[q].entry.assignee # NoSubject =>
          SameOrMerged(input[q].entry.assignee, plan[q].final)'
    BY <1>2, StepAssigned DEF SameOrMerged, MergedInto, Recorded, Started, Kind
  <2>2. ASSUME NEW q \in Requests, pc'[q] \in Resolved, input'[q].entry.assignee = NoSubject,
               NEW u \in Users, u = input'[q].entry.user, u \notin ousted', ~plan'[q].attach
        PROVE  identity'[u] # NoSubject /\ SameOrMerged(identity[u], plan[q].final)'
    <3>1. identity'[u] = identity[u] /\ identity[u] # NoSubject
      BY <1>2, <2>2, StepIdentified
    <3>2. ASSUME NEW s, s = identity[u], NEW t, t = plan'[q].final
          PROVE  SameOrMerged(s, t)'
      <4>1. SameOrMerged(s, t)
        BY <1>2, <2>2, <3>2, StepIdentified
      <4> QED BY <1>2, <2>0, <4>1, SameOrMergedStays
    <3> QED BY <3>1, <3>2 DEF SameOrMerged, MergedInto, Recorded, Started, Kind
  <2>3. ASSUME NEW q \in Requests, pc'[q] \in Resolved, input'[q].entry.assignee = NoSubject,
               NEW u \in Users, u = input'[q].entry.user, u \notin ousted', plan'[q].attach, Recorded(q)'
        PROVE  identity'[u] = plan'[q].final
    BY <1>2, <2>3, StepIdentified
  <2>4. PlanFollowsEvidence'
    BY <2>1, <2>2, <2>3 DEF PlanFollowsEvidence, Recorded, Kind, Assignee, Actor, Resolved
  <2> QED BY <1>2, <2>0, <2>4, StepAliasesAreMerges DEF EvidenceInv
<1> QED BY <1>1, <1>2, NextIsStep

LEMMA InitEvidence == Init => EvidenceInv
BY InitIdentity DEF EvidenceInv, Init, AliasesAreMerges, PlanFollowsEvidence, Resolved

\* SessionsFollowEvidence: the sessions of a respondent are of one subject or
\* of what it was merged into (resolve_for_session_start), whatever overlaps.
THEOREM SessionsFollow == Spec => []SessionsFollowEvidence
<1>1. EvidenceInv => SessionsFollowEvidence
  BY DEF EvidenceInv, SessionsFollowEvidence, PlanFollowsEvidence, SameOrMerged, Recorded, Resolved
<1> QED BY <1>1, InitEvidence, StepEvidence, PTL DEF Spec

-----------------------------------------------------------------------------
(* The register: every start and every verification is one step of it, and  *)
(* a session that comes later another.                                      *)

\* A browser can be taken for t by the sessions it has started.
Known(b, t) ==
    \E q \in Requests : Started(q) /\ input[q].browser = b /\ SameOrMerged(plan[q].final, t)

HolderOfMailbox == \A p \in Participants : holder[p] # NoUser => holder[p] \in Mailbox[p]

FoundIsKnown ==
    \A r \in Requests : pc[r] = "looked" /\ found[r].subject # NoSubject =>
        Known(input[r].browser, Effective(found[r]))

\* Nothing but the cookie says who it is.
Unevidenced(r) == Assignee(r) = NoSubject /\ (Actor(r) = NoUser \/ plan[r].attach)

\* What a plan takes from the cookie is known of the browser; the rest goes by
\* evidence that was good when it was read.
PlanIsKnown ==
    \A r \in Requests : pc[r] \in Resolved =>
        /\ plan[r].weaker # NoSubject =>
              /\ Known(input[r].browser, plan[r].weaker)
              /\ plan[r].weaker # plan[r].final
              /\ ~Unevidenced(r)
        /\ Unevidenced(r) => plan[r].final = r \/ Known(input[r].browser, plan[r].final)
        /\ Assignee(r) = NoSubject /\ ~Unevidenced(r) =>
              \E s \in Subjects : Authority(s) /\ SameOrMerged(s, plan[r].final)

RegisterInv ==
    /\ OwnInv /\ AuthInv /\ EvidenceInv
    /\ HolderOfMailbox /\ FoundIsKnown /\ PlanIsKnown

LEMMA KnownStays ==
    ASSUME TypeInv, NEW r \in Requests, Step(r), NEW b, NEW t, Known(b, t)
    PROVE  Known(b, t)'
<1>1. PICK q \in Requests : Started(q) /\ input[q].browser = b /\ SameOrMerged(plan[q].final, t)
  BY DEF Known
<1>2. Started(q)' /\ plan'[q] = plan[q] /\ input'[q] = input[q]
  BY <1>1, StartedStays
<1>3. ASSUME NEW s, s = plan[q].final PROVE SameOrMerged(s, t)'
  BY <1>1, <1>3, SameOrMergedStays
<1>4. SameOrMerged(plan[q].final, t)'
  BY <1>2, <1>3 DEF SameOrMerged, MergedInto, Recorded, Started, Kind
<1> QED BY <1>1, <1>2, <1>4 DEF Known, SameOrMerged, MergedInto, Recorded, Started, Kind

\* What the token of a cookie finds is known of the browser.
LEMMA LookUpFindsKnown ==
    ASSUME OwnInv, AliasesAreMerges, NEW r \in Requests, LookUpToken(r), found'[r].subject # NoSubject
    PROVE  Known(input[r].browser, Effective(found'[r]))
<1> DEFINE t == input[r].token
           s == token[t]
<1>0. TypeInv /\ TypeOK /\ TokensStored /\ OwnTokens
  BY DEF OwnInv, TokenInv, TypeInv
<1>1. /\ t \in Requests /\ pc[r] = "arrived" /\ s # NoSubject
      /\ found'[r] = [subject |-> s, alias |-> canonical[s]]
  BY <1>0 DEF LookUpToken, TypeOK
<1>2. Own(input[r].browser, t) /\ Started(t)
  BY <1>0, <1>1, SubjectAssumption DEF OwnTokens, Own, TokensStored, Recorded, Started
<1>3. PICK q \in Requests : Started(q) /\ input[q].browser = input[r].browser /\ plan[q].final = s
  BY <1>2 DEF Own, Started
<1>4. s \in Subjects
  BY <1>0, <1>1 DEF TypeOK
<1>5. SameOrMerged(s, OneHop(s))
  BY <1>4, OneHopMerged
<1>6. Effective(found'[r]) = OneHop(s)
  BY <1>1 DEF Effective, OneHop
<1> QED BY <1>3, <1>5, <1>6 DEF Known

LEMMA StepFound ==
    ASSUME RegisterInv, NEW r \in Requests, Step(r)
    PROVE  FoundIsKnown'
<1>0. OwnInv /\ TypeInv /\ TypeOK /\ AliasesAreMerges /\ FoundIsKnown
  BY DEF RegisterInv, EvidenceInv, IdentityInv, TypeInv
<1>1. ASSUME NEW q \in Requests, pc'[q] = "looked", found'[q].subject # NoSubject,
             NEW b, b = input'[q].browser, NEW t, t = Effective(found'[q])
      PROVE  Known(b, t)
  <2>1. CASE q # r
    BY <1>0, <1>1, <2>1, OthersStay DEF FoundIsKnown
  <2>2. CASE q = r
    <3>1. LookUpToken(r)
      BY <1>0, <1>1, <2>2 DEF TypeOK, Goto, Step, Proceed, Arrive, ReadParticipant, LinkIdentity, LookUpToken,
       Resolve, MergeSubject, AlreadyMerged, AttachIdentity, IdentityConflict, ChooseToken, TouchToken,
       CommitStart, CommitSubject, CommitSession, CloseVerification, Answer, AnswerLost, RequestFails,
       StartFailsLate
    <3>2. input' = input
      BY <3>1 DEF LookUpToken
    <3> QED BY <1>0, <1>1, <2>2, <3>1, <3>2, LookUpFindsKnown
  <2> QED BY <2>1, <2>2
<1>2. ASSUME NEW q \in Requests, pc'[q] = "looked", found'[q].subject # NoSubject,
             NEW b, b = input'[q].browser, NEW t, t = Effective(found'[q])
      PROVE  Known(b, t)'
  BY <1>0, <1>1, <1>2, KnownStays
<1> QED BY <1>2 DEF FoundIsKnown, Effective, Known, SameOrMerged, MergedInto, Recorded, Started, Kind

\* What the resolver takes from the cookie.
LEMMA ResolutionTakes ==
    ASSUME TypeInv, NEW r \in Requests, pc[r] = "looked"
    PROVE  /\ Resolution(r).weaker # NoSubject =>
                 /\ found[r].subject # NoSubject /\ Resolution(r).weaker = Effective(found[r])
                 /\ Resolution(r).weaker # Resolution(r).final
           /\ Assignee(r) = NoSubject /\ (Actor(r) = NoUser \/ Resolution(r).attach) =>
                 \/ Resolution(r).final = r
                 \/ found[r].subject # NoSubject /\ Resolution(r).final = Effective(found[r])
<1>1. ASSUME NEW s, NEW a
      PROVE  /\ ~Against(s, found[r], a).attach
             /\ Against(s, found[r], a).weaker # NoSubject =>
                  /\ found[r].subject # NoSubject
                  /\ Against(s, found[r], a).weaker = Effective(found[r])
                  /\ Against(s, found[r], a).weaker # Against(s, found[r], a).final
  BY DEF Against, Merge
<1>2. ASSUME NEW x
      PROVE  /\ Unidentified(found[r], r, x).weaker = NoSubject
             /\ \/ Unidentified(found[r], r, x).final = r
                \/ found[r].subject # NoSubject
                   /\ Unidentified(found[r], r, x).final = Effective(found[r])
  BY DEF Unidentified
<1>3. \/ \E s, a : Resolution(r) = Against(s, found[r], a)
                   /\ ~(Assignee(r) = NoSubject /\ Actor(r) = NoUser)
      \/ \E x : Resolution(r) = Unidentified(found[r], r, x)
  BY DEF Resolution
<1> QED BY <1>1, <1>2, <1>3

LEMMA StepPlanIsKnown ==
    ASSUME RegisterInv, NEW r \in Requests, Step(r)
    PROVE  PlanIsKnown'
<1>0. /\ OwnInv /\ IdentityInv /\ TypeInv /\ TypeOK /\ AliasesAreMerges /\ FoundIsKnown /\ PlanIsKnown
  BY DEF RegisterInv, EvidenceInv, IdentityInv, TypeInv
<1>1. ASSUME NEW q \in Requests, pc'[q] \in Resolved,
             NEW b, b = input'[q].browser, NEW w, w = plan'[q].weaker, NEW t, t = plan'[q].final
      PROVE  /\ w # NoSubject => Known(b, w) /\ w # t /\ ~Unevidenced(q)'
             /\ Unevidenced(q)' => t = q \/ Known(b, t)
             /\ Assignee(q)' = NoSubject /\ ~Unevidenced(q)' =>
                   \E s \in Subjects : Authority(s) /\ SameOrMerged(s, t)
  <2>1. CASE pc[q] \in Resolved
    <3>1. /\ b = input[q].browser /\ t = plan[q].final /\ (w # NoSubject => w = plan[q].weaker)
          /\ Assignee(q)' = Assignee(q) /\ Unevidenced(q)' = Unevidenced(q)
      BY <1>0, <1>1, <2>1, Stable DEF Assignee, Actor, Unevidenced, Resolved
    <3> QED BY <1>0, <2>1, <3>1 DEF PlanIsKnown
  <2>2. CASE q = r /\ Resolve(r)
    <3> DEFINE p == Resolution(r)
    <3>1. /\ pc[r] = "looked" /\ b = input[r].browser /\ w = p.weaker /\ t = p.final
          /\ Assignee(q)' = Assignee(r) /\ Actor(r) \in Users \cup {NoUser}
          /\ Unevidenced(q)' = (Assignee(r) = NoSubject /\ (Actor(r) = NoUser \/ p.attach))
      BY <1>0, <1>1, <2>2 DEF Resolve, TypeOK, TypeInv, Arrived, Inputs, Entries, Assignee, Actor, Unevidenced
    <3>2. w # NoSubject => Known(b, w) /\ w # t /\ ~Unevidenced(q)'
      BY <1>0, <3>1, ResolutionTakes, ResolutionFollows, SubjectAssumption DEF FoundIsKnown
    <3>3. Unevidenced(q)' => t = q \/ Known(b, t)
      BY <1>0, <2>2, <3>1, ResolutionTakes DEF FoundIsKnown
    <3>4. ASSUME Assignee(q)' = NoSubject, ~Unevidenced(q)'
          PROVE  \E s \in Subjects : Authority(s) /\ SameOrMerged(s, t)
      <4>1. Actor(r) \in Users /\ identity[Actor(r)] # NoSubject /\ t = OneHop(identity[Actor(r)])
        BY <1>0, <3>1, <3>4, ResolutionFollows
      <4>2. identity[Actor(r)] \in Subjects /\ Authority(identity[Actor(r)])
        BY <1>0, <4>1 DEF TypeOK, Authority
      <4> QED BY <1>0, <4>1, <4>2, OneHopMerged
    <3> QED BY <3>2, <3>3, <3>4
  <2> QED BY <1>0, <1>1, <2>1, <2>2, Stable
<1>2. ASSUME NEW q \in Requests, pc'[q] \in Resolved,
             NEW b, b = input'[q].browser, NEW w, w = plan'[q].weaker, NEW t, t = plan'[q].final
      PROVE  /\ w # NoSubject => Known(b, w)' /\ w # t /\ ~Unevidenced(q)'
             /\ Unevidenced(q)' => t = q \/ Known(b, t)'
             /\ Assignee(q)' = NoSubject /\ ~Unevidenced(q)' =>
                   \E s \in Subjects : Authority(s)' /\ SameOrMerged(s, t)'
  BY <1>0, <1>1, <1>2, KnownStays, AuthorityStays, SameOrMergedStays
<1> QED BY <1>2 DEF PlanIsKnown, Known, Authority, SameOrMerged, MergedInto, Recorded, Started, Kind, Resolved

LEMMA StepHolderOfMailbox ==
    ASSUME RegisterInv, NEW r \in Requests, Step(r)
    PROVE  HolderOfMailbox'
<1>0. TypeInv /\ TypeOK /\ HolderOfMailbox
  BY DEF RegisterInv, EvidenceInv, IdentityInv, TypeInv
<1>1. CASE LinkIdentity(r)
  BY <1>0, <1>1, LinkEffect DEF HolderOfMailbox
<1>2. CASE Published(r)
  BY <1>0, <1>2 DEF Published, CommitStart, CommitSubject, PublishSubject, HolderOfMailbox
<1>3. CASE ~LinkIdentity(r) /\ ~Published(r)
  BY <1>0, <1>3, CoreStays DEF coreVars, HolderOfMailbox
<1> QED BY <1>1, <1>2, <1>3

LEMMA InitRegister == Init => RegisterInv
BY InitOwn, InitAuth, InitEvidence
   DEF RegisterInv, Init, HolderOfMailbox, FoundIsKnown, PlanIsKnown, Resolved

LEMMA StepRegister == RegisterInv /\ [Next]_vars => RegisterInv'
<1>1. RegisterInv /\ [Next]_vars => OwnInv' /\ AuthInv' /\ EvidenceInv'
  BY StepOwn, StepAuth, StepEvidence DEF RegisterInv
<1>2. ASSUME RegisterInv, UNCHANGED vars PROVE HolderOfMailbox' /\ FoundIsKnown' /\ PlanIsKnown'
  BY <1>2 DEF vars, coreVars, RegisterInv, HolderOfMailbox, FoundIsKnown, PlanIsKnown, Known, Unevidenced,
     SameOrMerged, MergedInto, Authority, Recorded, Started, Kind, Assignee, Actor, Resolved
<1>3. ASSUME RegisterInv, NEW r \in Requests, Step(r)
      PROVE  HolderOfMailbox' /\ FoundIsKnown' /\ PlanIsKnown'
  BY <1>3, StepHolderOfMailbox, StepFound, StepPlanIsKnown
<1> QED BY <1>1, <1>2, <1>3, NextIsStep DEF RegisterInv

\* What the starts have recorded, and the sessions and merges among that.
Records == {Row(r) : r \in {q \in Requests : Recorded(q)}}
Sessions == {Row(r) : r \in {q \in Requests : Started(q)}}
Merges == {<<plan[r].weaker, plan[r].final>> :
              r \in {q \in Requests : Recorded(q) /\ plan[q].weaker # NoSubject}}

LEMMA RecordsStay ==
    ASSUME TypeInv, NEW r \in Requests, Step(r), ~Published(r)
    PROVE  Records' = Records /\ Merges' = Merges
<1>1. ASSUME NEW q \in Requests
      PROVE  /\ Recorded(q)' = Recorded(q)
             /\ Recorded(q) => Row(q)' = Row(q) /\ plan'[q] = plan[q]
  BY <1>1, RecordedFrom, RecordedStays DEF Row, Assignee, Actor, Recorded
<1> QED BY <1>1 DEF Records, Merges

\* Only a commit of the session makes one.
LEMMA SessionsStay ==
    ASSUME TypeInv, NEW r \in Requests, Step(r), ~Published(r), ~CommitSession(r)
    PROVE  Sessions' = Sessions
<1>1. ASSUME NEW q \in Requests, Started(q)' PROVE Started(q)
  <2>1. Recorded(q) /\ input'[q] = input[q]
    BY <1>1, RecordedFrom DEF Recorded, Started
  <2>2. CASE q # r
    BY <1>1, <2>1, <2>2, OthersStay DEF Started, Kind
  <2>3. CASE q = r
    <3>1. pc'[r] \in {"committed", "done"} /\ pc[r] \in {"kept", "committed", "done", "left"}
      BY <1>1, <2>1, <2>3 DEF Recorded, Started
    <3>2. pc[r] \in {"committed", "done"}
      BY <3>1 DEF TypeInv, TypeOK, Goto, Published, Step, Proceed, Arrive, ReadParticipant, LinkIdentity,
         LookUpToken, Resolve, MergeSubject, AlreadyMerged, AttachIdentity, IdentityConflict, ChooseToken,
         TouchToken, CloseVerification, Answer, AnswerLost, RequestFails, StartFailsLate
    <3> QED BY <2>1, <2>3, <3>2 DEF Recorded, Started
  <2> QED BY <2>2, <2>3
<1>2. ASSUME NEW q \in Requests
      PROVE  /\ Started(q)' = Started(q)
             /\ Started(q) => Row(q)' = Row(q)
  BY <1>1, <1>2, StartedStays DEF Row, Assignee, Actor, Started
<1> QED BY <1>2 DEF Sessions

LEMMA RecordsGrow ==
    ASSUME TypeInv, NEW r \in Requests, Published(r)
    PROVE  /\ ~Recorded(r) /\ Row(r) \notin Records
           /\ Records' = Records \cup {Row(r)}
           /\ Sessions' \in {Sessions, Sessions \cup {Row(r)}}
           /\ plan[r].weaker = NoSubject => Merges' = Merges
           /\ plan[r].weaker # NoSubject => Merges' = Merges \cup {<<plan[r].weaker, plan[r].final>>}
<1>1. /\ Step(r) /\ pc[r] = "ready" /\ Kind(r) # "verify" /\ plan' = plan /\ input' = input
      /\ pc'[r] \in {"kept", "committed"}
  BY DEF Step, Proceed, Published, CommitStart, CommitSubject, Goto, TypeInv, TypeOK
<1>2. ASSUME NEW q \in Requests
      PROVE  /\ Recorded(q)' = (Recorded(q) \/ q = r)
             /\ Started(q)' = (Started(q) \/ (q = r /\ pc'[r] = "committed"))
             /\ Row(q)' = Row(q)
  BY <1>1, <1>2, OthersStay DEF Row, Assignee, Actor, Recorded, Started, Kind
<1>3. ~Recorded(r)
  BY <1>1 DEF Recorded
<1>4. Row(r) \notin Records
  BY <1>3 DEF Records, Row
<1>5. Records' = Records \cup {Row(r)}
  BY <1>2 DEF Records
<1>6. Sessions' \in {Sessions, Sessions \cup {Row(r)}}
  <2>1. CASE pc'[r] = "committed"
    BY <1>2, <2>1 DEF Sessions
  <2>2. CASE pc'[r] # "committed"
    BY <1>2, <2>2 DEF Sessions
  <2> QED BY <2>1, <2>2
<1> QED BY <1>1, <1>2, <1>3, <1>4, <1>5, <1>6 DEF Merges

\* The session of a start that has committed its subject before.
LEMMA SessionIsStart ==
    ASSUME TypeInv, NEW r \in Requests, CommitSession(r)
    PROVE  Row(r) \in Records /\ Register!Started(Row(r))
<1>1. /\ Step(r) /\ ~Published(r) /\ UNCHANGED coreVars /\ pc[r] = "kept" /\ pc'[r] = "committed"
      /\ plan' = plan /\ input' = input
  BY DEF Step, Proceed, Published, CommitStart, CommitSubject, CommitSession, Goto, TypeInv, TypeOK
<1>2. Kind(r) # "verify"
  BY <1>1 DEF TypeInv, Routed
<1>3. ASSUME NEW q \in Requests
      PROVE  /\ Started(q)' = (Started(q) \/ q = r)
             /\ Row(q)' = Row(q)
  BY <1>1, <1>2, <1>3, OthersStay DEF Row, Assignee, Actor, Started, Kind
<1>4. Row(r) \in Records /\ Row(r) \notin Sessions
  BY <1>1, <1>2 DEF Records, Sessions, Recorded, Started, Row
<1>5. Sessions' = Sessions \cup {Row(r)}
  BY <1>3 DEF Sessions
<1>6. Records' = Records /\ Merges' = Merges
  BY <1>1, RecordsStay
<1> QED BY <1>1, <1>4, <1>5, <1>6 DEF coreVars, Register!Started, Records, Sessions, Merges

LEMMA RowIsRecord ==
    ASSUME TypeInv, NEW r \in Requests, pc[r] \in Resolved
    PROVE  Row(r) \in Register!Record
BY DEF TypeInv, TypeOK, Arrived, Inputs, Entries, Row, Assignee, Actor, Resolved, Register!Record,
   Register!Subjects, Subjects

LEMMA RegisterFollows ==
    ASSUME NEW s \in Subjects, NEW t, SameOrMerged(s, t)
    PROVE  Register!Follows(s, t)
BY SubjectAssumption DEF SameOrMerged, MergedInto, Register!Follows, Subjects

LEMMA RegisterRecognises ==
    ASSUME TypeInv, NEW b, NEW t \in Subjects, Known(b, t)
    PROVE  t \in Register!Recognised(b)
<1>1. PICK q \in Requests : Started(q) /\ input[q].browser = b /\ SameOrMerged(plan[q].final, t)
  BY DEF Known
<1>2. plan[q].final \in Subjects
  BY <1>1 DEF TypeInv, TypeOK, Started, Resolved
<1>3. Register!Follows(plan[q].final, t)
  BY <1>1, <1>2, RegisterFollows
<1>4. Row(q) \in Sessions /\ Row(q).browser = b /\ Row(q).subject = plan[q].final
  BY <1>1 DEF Sessions, Row
<1> QED BY <1>3, <1>4 DEF Register!Recognised, Register!Subjects, Subjects, Sessions, Row

\* The merge of a commit takes a person that the browser is known as.
LEMMA CommitAbsorbs ==
    ASSUME RegisterInv, NEW r \in Requests, Published(r),
           NEW b, b = input[r].browser, NEW t, t = plan[r].final
    PROVE  Register!Absorbed(b, t)
<1> DEFINE w == plan[r].weaker
<1>0. TypeInv /\ TypeOK /\ MergesIntoAuthority /\ PlanIsKnown /\ pc[r] = "ready"
  BY DEF RegisterInv, AuthInv, IdentityInv, TypeInv, Published, CommitStart, CommitSubject
<1>1. CASE w = NoSubject
  <2>1. canonical' = canonical /\ Merges' = Merges
    BY <1>0, <1>1, RecordsGrow DEF Published, CommitStart, CommitSubject, PublishSubject
  <2> QED BY <2>1 DEF Register!Absorbed, Merges
<1>2. CASE w # NoSubject
  <2>1. canonical' = [canonical EXCEPT ![w] = t] /\ Merges' = Merges \cup {<<w, t>>}
    BY <1>0, <1>2, RecordsGrow DEF Published, CommitStart, CommitSubject, PublishSubject
  <2>2. Known(b, w) /\ w # t /\ w \in Subjects /\ Authority(t)
    BY <1>0, <1>2 DEF PlanIsKnown, MergesIntoAuthority, Resolved, TypeOK, Plans
  <2>3. w \in Register!Recognised(b) \ {t} /\ Register!Authority(t)
    BY <1>0, <2>2, RegisterRecognises DEF Authority, Register!Authority
  <2> QED BY <2>1, <2>3 DEF Register!Absorbed, Merges
<1> QED BY <1>1, <1>2

LEMMA CommitIsRecord ==
    ASSUME RegisterInv, NEW r \in Requests, Published(r), NEW x, x = Row(r)
    PROVE  Register!Recorded(x)
<1>0. /\ TypeInv /\ TypeOK /\ Routed(r) /\ Arrived(r) /\ PlanIsKnown /\ PlanFollowsEvidence /\ AttachExclusive
      /\ pc[r] = "ready" /\ Kind(r) # "verify"
  BY DEF RegisterInv, EvidenceInv, IdentityInv, TypeInv, Published, CommitStart, CommitSubject
<1>1. /\ x.visit = r /\ x.browser = input[r].browser /\ x.assignee = Assignee(r) /\ x.user = Actor(r)
      /\ x.subject = plan[r].final /\ plan[r].final \in Subjects
  BY <1>0 DEF Row, TypeOK, Resolved
<1>2. /\ Assignee(r) # NoSubject => Assignee(r) \in Participants /\ Actor(r) = NoUser
      /\ Assignee(r) = NoSubject => Actor(r) \in Users \cup {NoUser}
      /\ plan[r].attach => Assignee(r) = NoSubject /\ Actor(r) \in Users
  BY <1>0, SubjectAssumption DEF Arrived, Inputs, Entries, Assignee, Actor, Kind, Routed, Resolved
<1>3. /\ ousted' = ousted
      /\ identity' = IF plan[r].attach THEN [identity EXCEPT ![Actor(r)] = plan[r].final] ELSE identity
  BY DEF Published, CommitStart, CommitSubject, PublishSubject
<1>4. Register!Absorbed(x.browser, x.subject)
  BY <1>1, CommitAbsorbs
<1>5. ASSUME Unevidenced(r)
      PROVE  /\ x.subject \in Register!Recognised(x.browser) \cup {x.visit}
             /\ canonical' = canonical /\ Merges' = Merges
  <2>1. plan[r].weaker = NoSubject /\ (x.subject = r \/ Known(x.browser, x.subject))
    BY <1>0, <1>1, <1>5 DEF PlanIsKnown, Resolved, Known
  <2>2. canonical' = canonical /\ Merges' = Merges
    BY <1>0, <2>1, RecordsGrow DEF Published, CommitStart, CommitSubject, PublishSubject
  <2>3. x.subject = r \/ x.subject \in Register!Recognised(x.browser)
    BY <1>0, <1>1, <2>1, RegisterRecognises
  <2> QED BY <1>1, <2>2, <2>3
<1>6. Register!Assigned(x) \/ Register!Identified(x) \/ Register!FirstIdentified(x) \/ Register!Anonymous(x)
  <2>1. CASE Assignee(r) # NoSubject
    <3>1. Register!Follows(x.assignee, x.subject)
      BY <1>0, <1>1, <1>2, <2>1, RegisterFollows DEF PlanFollowsEvidence, Resolved, Subjects, SameOrMerged
    <3>2. Register!Assigned(x)
      BY <1>1, <1>2, <1>3, <1>4, <2>1, <3>1 DEF Register!Assigned
    <3> QED BY <3>2
  <2>2. CASE Assignee(r) = NoSubject /\ Actor(r) \in Users /\ ~plan[r].attach
    <3>1. PICK s \in Subjects : /\ s = identity[Actor(r)] \/ (Actor(r) \in ousted /\ Authority(s))
                                /\ SameOrMerged(s, x.subject)
      <4>1. CASE Actor(r) \in ousted
        BY <1>0, <1>1, <2>2, <4>1, SubjectAssumption DEF PlanIsKnown, Unevidenced, Resolved, SameOrMerged
      <4>2. CASE Actor(r) \notin ousted
        BY <1>0, <1>1, <2>2, <4>2 DEF PlanFollowsEvidence, Resolved, TypeOK, SameOrMerged
      <4> QED BY <4>1, <4>2
    <3>2. Register!Follows(s, x.subject)
      BY <3>1, RegisterFollows
    <3>3. Register!Identified(x)
      BY <1>1, <1>3, <1>4, <2>2, <3>1, <3>2, SubjectAssumption
         DEF Register!Identified, Register!Subjects, Register!Authority, Authority, Subjects
    <3> QED BY <3>3
  <2>3. CASE Assignee(r) = NoSubject /\ Actor(r) \in Users /\ plan[r].attach
    <3>1. identity[Actor(r)] = NoSubject
      BY <1>0, <2>3 DEF AttachExclusive, Flushed
    <3>2. /\ x.subject \in Register!Recognised(x.browser) \cup {x.visit}
          /\ canonical' = canonical /\ Merges' = Merges
      BY <1>5, <2>3 DEF Unevidenced
    <3>3. Register!FirstIdentified(x)
      BY <1>1, <1>3, <2>3, <3>1, <3>2, SubjectAssumption DEF Register!FirstIdentified, Merges
    <3> QED BY <3>3
  <2>4. CASE Assignee(r) = NoSubject /\ Actor(r) = NoUser
    <3>1. /\ x.subject \in Register!Recognised(x.browser) \cup {x.visit}
          /\ canonical' = canonical /\ Merges' = Merges
      BY <1>5, <2>4 DEF Unevidenced
    <3>2. Register!Anonymous(x)
      BY <1>1, <1>2, <1>3, <2>4, <3>1, SubjectAssumption DEF Register!Anonymous, Merges
    <3> QED BY <3>2
  <2> QED BY <1>2, <2>1, <2>2, <2>3, <2>4
<1>7. \A y \in Records : y.visit # x.visit
  BY <1>0, <1>1, RecordsGrow DEF Records, Row
<1>8. Records' = Records \cup {x} /\ Sessions' \in {Sessions, Sessions \cup {x}}
  BY <1>0, RecordsGrow
<1> QED BY <1>6, <1>7, <1>8 DEF Register!Recorded, Records, Sessions

LEMMA LinkIsVerification ==
    ASSUME RegisterInv, NEW r \in Requests, LinkIdentity(r)
    PROVE  Register!Verified(Assignee(r), Actor(r))
<1> DEFINE p == Assignee(r)
           u == Actor(r)
           losers == Users \cap ({holder[p]} \ {u})
<1>0. /\ TypeInv /\ TypeOK /\ HolderIdentified /\ HolderOfMailbox
  BY DEF RegisterInv, EvidenceInv, IdentityInv, TypeInv
<1>1. p \in Participants /\ u \in Users /\ u \in Mailbox[p]
  BY <1>0, LinkEffect
<1>2. losers \in SUBSET (Mailbox[p] \ {u})
  BY <1>0, <1>1, SubjectAssumption DEF HolderOfMailbox
<1>3. \A v \in losers : identity[v] = p
  BY <1>0, <1>1, SubjectAssumption DEF HolderIdentified
<1>4. identity[u] \in {NoSubject, p}
  BY <1>0, <1>1, SubjectAssumption DEF LinkIdentity, Unidentifiable, HolderIdentified
<1>5. /\ identity' = [v \in Users |-> IF v = u THEN p ELSE IF v \in losers THEN NoSubject ELSE identity[v]]
      /\ ousted' = ousted \cup losers
  BY DEF LinkIdentity
<1>6. Step(r) /\ ~Published(r) /\ ~CommitSession(r) /\ canonical' = canonical
  BY DEF Step, Proceed, LinkIdentity, Published, CommitStart, CommitSubject, CommitSession
<1>7. Records' = Records /\ Sessions' = Sessions /\ Merges' = Merges
  BY <1>0, <1>6, RecordsStay, SessionsStay
<1> QED BY <1>1, <1>2, <1>3, <1>4, <1>5, <1>6, <1>7 DEF Register!Verified, Records, Sessions, Merges

\* RegisterIsKept: the resolver's reads (SubjectResolver), the flushes of
\* SubjectLinkageService and the unique index add up to one step for each start
\* and each verification, at the first commit of the start -- which may be that
\* of _ensure_version_row, with the session later or never.
THEOREM RegisterKept == Spec => RegisterIsKept
<1>1. Init => Register!Init
  BY DEF Init, Register!Init, Register!Subjects, Subjects, Recorded, Started
<1>2. RegisterInv /\ [Next]_vars => [Register!Next]_(Register!vars)
  <2>1. ASSUME RegisterInv, NEW r \in Requests, Step(r)
        PROVE  Register!Next \/ UNCHANGED Register!vars
    <3>0. TypeInv
      BY <2>1 DEF RegisterInv, EvidenceInv, IdentityInv
    <3>1. CASE Published(r)
      <4>1. pc[r] \in Resolved
        BY <3>1 DEF Published, CommitStart, CommitSubject, Resolved
      <4>2. Row(r) \in Register!Record /\ Row(r) \in Records' \ Records
        BY <3>0, <3>1, <4>1, RecordsGrow, RowIsRecord
      <4>3. \E x \in (Records' \ Records) \cap Register!Record : Register!Recorded(x)
        BY <2>1, <3>1, <4>2, CommitIsRecord
      <4> QED BY <4>3 DEF Register!Next, Records
    <3>2. CASE LinkIdentity(r)
      BY <2>1, <3>0, <3>2, LinkIsVerification, LinkEffect DEF Register!Next
    <3>3. CASE CommitSession(r)
      BY <3>0, <3>3, SessionIsStart DEF Register!Next, Records
    <3>4. CASE ~Published(r) /\ ~LinkIdentity(r) /\ ~CommitSession(r)
      BY <2>1, <3>0, <3>4, CoreStays, RecordsStay, SessionsStay
         DEF coreVars, Register!vars, Records, Sessions, Merges
    <3> QED BY <3>1, <3>2, <3>3, <3>4
  <2>2. ASSUME UNCHANGED vars
        PROVE  UNCHANGED Register!vars
    BY <2>2 DEF vars, coreVars, Register!vars, Row, Recorded, Started, Kind, Assignee, Actor
  <2> QED BY <2>1, <2>2, NextIsStep
<1> QED BY <1>1, <1>2, InitRegister, StepRegister, PTL DEF Spec, RegisterIsKept, Register!Spec

\* What is proved of every register.
Entailed == INSTANCE Recognition_proofs WITH
    Visits <- Requests, recorded <- Records, sessions <- Sessions, merges <- Merges, alias <- canonical

\* AnonymousInOneBrowser: whatever starts overlap, two browsers have starts of
\* one subject only if it is a participant or the subject of an account; a
\* cookie alone never makes two of them one respondent.
THEOREM StrangersStayApart == Spec => []Register!AnonymousInOneBrowser
<1>1. Entailed!Spec => []Entailed!AnonymousInOneBrowser
  BY SubjectAssumption, Entailed!AnonymousStays DEF Entailed!Subjects
<1>2. Register!Init => Entailed!Init
  BY DEF Register!Init, Entailed!Init, Register!Subjects, Entailed!Subjects, Records, Sessions, Merges
<1>3. [Register!Next]_(Register!vars) => [Entailed!Next]_(Entailed!vars)
  BY DEF Register!Next, Register!Recorded, Register!Started, Register!Verified, Register!Record,
     Register!Subjects, Register!Assigned, Register!Identified, Register!FirstIdentified,
     Register!Anonymous, Register!Absorbed, Register!Recognised, Register!Authority,
     Register!Follows, Register!vars,
     Entailed!Next, Entailed!Recorded, Entailed!Started, Entailed!Verified, Entailed!Record,
     Entailed!Subjects, Entailed!Assigned, Entailed!Identified, Entailed!FirstIdentified,
     Entailed!Anonymous, Entailed!Absorbed, Entailed!Recognised, Entailed!Authority,
     Entailed!Follows, Entailed!vars, Records, Sessions, Merges
<1>4. Entailed!AnonymousInOneBrowser => Register!AnonymousInOneBrowser
  BY DEF Entailed!AnonymousInOneBrowser, Register!AnonymousInOneBrowser, Entailed!Authority,
     Register!Authority, Records
<1> QED BY <1>1, <1>2, <1>3, <1>4, RegisterKept, PTL
    DEF RegisterIsKept, Register!Spec, Entailed!Spec

-----------------------------------------------------------------------------
(* Nobody waits in a circle, and nobody goes back.  ENABLED is beyond the     *)
(* provers, so waiting is stated by the guards that keep a request waiting.   *)

UnderWay(r) == pc[r] # "idle" /\ ~Ended(r)

\* q has flushed a row or an index entry that r is about to write.
WaitsFor(r, q) ==
    /\ q # r
    /\ \/ /\ pc[r] \in {"linking", "attaching"}
          /\ pc[q] \in Flushed /\ plan[q].attach /\ Actor(q) = Actor(r)
       \/ /\ pc[r] = "merging" /\ canonical[plan[r].weaker] # plan[r].final
          /\ pc[q] \in Flushed /\ plan[q].weaker = plan[r].weaker
       \/ /\ pc[r] = "touching"
          /\ pc[q] = "ready" /\ victim[q] = victim[r]

Waits(r) == \E q \in Requests : WaitsFor(r, q)

Rank(s) ==
    CASE s = "idle" -> 0
      [] s = "verifying" -> 1
      [] s = "linking" -> 2
      [] s = "arrived" -> 3
      [] s = "looked" -> 4
      [] s \in {"merging", "attaching"} -> 5
      [] s = "token" -> 6
      [] s = "touching" -> 7
      [] s = "ready" -> 8
      [] s = "kept" -> 9
      [] s \in {"committed", "closed"} -> 10
      [] s \in {"done", "left", "failed"} -> 11

\* Locks are taken in one order: who is waited for is further on.
LEMMA WaitsForFurther ==
    ASSUME NEW r \in Requests, NEW q \in Requests, WaitsFor(r, q)
    PROVE  Rank(pc[r]) < Rank(pc[q])
BY DEF WaitsFor, Rank, Flushed

\* WaitsFor is all that a step waits for: whoever waits stays or fails.
LEMMA WaitersStay ==
    ASSUME TypeInv, NEW r \in Requests, Waits(r), [Next]_vars
    PROVE  pc'[r] \in {pc[r], "failed"}
<1>1. PICK q \in Requests : WaitsFor(r, q)
  BY DEF Waits
<1>2. CASE UNCHANGED vars
  BY <1>2 DEF vars
<1>3. ASSUME NEW p \in Requests, p # r, Step(p)
      PROVE  pc'[r] = pc[r]
  BY <1>3, OthersStay
<1>4. CASE Step(r)
  <2>1. /\ pc[r] \in {"linking", "attaching", "merging", "touching"}
        /\ pc[r] \in {"linking", "attaching"} => IdentityLocked(r, Actor(r))
    BY <1>1 DEF WaitsFor, IdentityLocked
  <2>2. ~MergeSubject(r) /\ ~AlreadyMerged(r) /\ ~TouchToken(r)
    BY <1>1 DEF WaitsFor, MergeSubject, AlreadyMerged, TouchToken
  <2>3. RequestFails(r)
    BY <1>4, <2>1, <2>2
       DEF Step, Proceed, Arrive, ReadParticipant, LinkIdentity, LookUpToken, Resolve, AttachIdentity,
           IdentityConflict, ChooseToken, CommitStart, CommitSubject, CommitSession, CloseVerification,
           Answer, AnswerLost, StartFailsLate
  <2> QED BY <2>3 DEF RequestFails, Goto, TypeInv, TypeOK
<1> QED BY <1>2, <1>3, <1>4, NextIsStep

\* No step leads back, so a request takes at most eleven.
LEMMA StepsForward ==
    ASSUME TypeInv, NEW r \in Requests, [Next]_vars
    PROVE  pc'[r] = pc[r] \/ Rank(pc[r]) < Rank(pc'[r])
<1>1. CASE UNCHANGED vars
  BY <1>1 DEF vars
<1>2. ASSUME NEW p \in Requests, p # r, Step(p)
      PROVE  pc'[r] = pc[r]
  BY <1>2, OthersStay
<1>3. CASE Step(r)
  <2> USE DEF TypeInv, TypeOK, Goto, Rank
  <2>1. CASE \E b \in Browsers, e \in Entries : Arrive(r, b, e)
    BY <2>1 DEF Arrive
  <2>2. CASE ReadParticipant(r) \/ LinkIdentity(r) \/ LookUpToken(r) \/ Resolve(r)
    BY <2>2 DEF ReadParticipant, LinkIdentity, LookUpToken, Resolve
  <2>3. CASE MergeSubject(r) \/ AlreadyMerged(r) \/ AttachIdentity(r) \/ IdentityConflict(r)
    BY <2>3 DEF MergeSubject, AlreadyMerged, AttachIdentity, IdentityConflict
  <2>4. CASE \/ ChooseToken(r) \/ TouchToken(r) \/ CommitStart(r) \/ CommitSubject(r) \/ CommitSession(r)
           \/ CloseVerification(r)
    BY <2>4 DEF ChooseToken, TouchToken, CommitStart, CommitSubject, CommitSession, CloseVerification
  <2>5. CASE Answer(r) \/ AnswerLost(r) \/ RequestFails(r) \/ StartFailsLate(r)
    <3>1. pc[r] \in Steps
      OBVIOUS
    <3> QED BY <2>5, <3>1 DEF Answer, AnswerLost, RequestFails, StartFailsLate, Steps
  <2> QED BY <1>3, <2>1, <2>2, <2>3, <2>4, <2>5 DEF Step, Proceed
<1> QED BY <1>1, <1>2, <1>3, NextIsStep

\* Of the requests under way one waits for nobody, however many there are: the
\* row locks of subjects, identities and tokens are taken in one order, and a
\* request never returns to an earlier one.
THEOREM NobodyWaitsInACircle ==
    Spec => /\ []((\E r \in Requests : UnderWay(r)) => \E r \in Requests : UnderWay(r) /\ ~Waits(r))
            /\ [][\A r \in Requests :
                      /\ pc'[r] # pc[r] => Rank(pc[r]) < Rank(pc'[r])
                      /\ Waits(r) => pc'[r] \in {pc[r], "failed"}]_vars
<1> DEFINE Forward ==
      \A r \in Requests : /\ pc'[r] # pc[r] => Rank(pc[r]) < Rank(pc'[r])
                          /\ Waits(r) => pc'[r] \in {pc[r], "failed"}
<1>1. ASSUME NEW r \in Requests, UnderWay(r)
      PROVE  \E q \in Requests : UnderWay(q) /\ ~Waits(q)
  <2>1. CASE \E q \in Requests : pc[q] = "ready"
    BY <2>1 DEF UnderWay, Ended, Waits, WaitsFor
  <2>2. CASE /\ \A q \in Requests : pc[q] # "ready"
             /\ \E q \in Requests : pc[q] \in {"touching", "token"}
    BY <2>2 DEF UnderWay, Ended, Waits, WaitsFor
  <2>3. CASE \A q \in Requests : pc[q] \notin Flushed
    BY <1>1, <2>3 DEF Waits, WaitsFor, Flushed
  <2> QED BY <2>1, <2>2, <2>3 DEF Flushed
<1>2. (\E r \in Requests : UnderWay(r)) => \E r \in Requests : UnderWay(r) /\ ~Waits(r)
  BY <1>1
<1>3. TypeInv /\ [Next]_vars => [Forward]_vars
  BY StepsForward, WaitersStay
<1> QED BY <1>2, <1>3, InitType, StepType, PTL DEF Spec
=============================================================================
