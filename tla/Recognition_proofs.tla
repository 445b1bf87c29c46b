------------------------- MODULE Recognition_proofs -------------------------
(***************************************************************************)
(* What the register of visits, sessions, merges and identities entails,   *)
(* whoever implements it.                                                  *)
(***************************************************************************)
EXTENDS Recognition, TLAPS

TypeOK ==
    /\ recorded \subseteq Record
    /\ sessions \subseteq recorded
    /\ identity \in [Users -> Subjects \cup {NoSubject}]

\* Merges go to a subject with evidence, and it keeps it.
MergedIsAuthority == \A s, t : <<s, t>> \in merges => t \in Subjects /\ Authority(t)

\* A subject without evidence is one that some visit was given.
AnonymousIsOfVisit ==
    \A x \in recorded : ~Authority(x.subject) => \E y \in recorded : y.visit = x.subject

Inv == TypeOK /\ MergedIsAuthority /\ AnonymousIsOfVisit /\ AnonymousInOneBrowser

-----------------------------------------------------------------------------
LEMMA AuthorityStays ==
    ASSUME NoSubject \notin Subjects, TypeOK, Next, NEW s \in Subjects, Authority(s)
    PROVE  Authority(s)'
<1>1. ASSUME NEW u \in Users, identity[u] = s, identity'[u] # s
      PROVE  s \in Participants
  <2>1. CASE \E x \in (recorded' \ recorded) \cap Record : Recorded(x)
    <3>1. PICK x \in Record : Recorded(x)
      BY <2>1
    <3>2. CASE Assigned(x) \/ Identified(x) \/ Anonymous(x)
      BY <1>1, <3>2 DEF Assigned, Identified, Anonymous
    <3>3. CASE FirstIdentified(x)
      BY <1>1, <3>3 DEF FirstIdentified, TypeOK
    <3> QED BY <3>1, <3>2, <3>3 DEF Recorded
  <2>2. CASE \E p \in Participants, v \in Users : Verified(p, v)
    <3>1. PICK p \in Participants, v \in Users : Verified(p, v)
      BY <2>2
    <3>2. CASE u = v
      BY <1>1, <3>1, <3>2 DEF Verified
    <3>3. CASE u # v
      BY <1>1, <3>1, <3>3 DEF Verified
    <3> QED BY <3>2, <3>3
  <2>3. CASE \E x \in recorded : Started(x)
    BY <1>1, <2>3 DEF Started
  <2> QED BY <2>1, <2>2, <2>3 DEF Next
<1> QED BY <1>1 DEF Authority

\* What a visit with evidence is of has evidence; without, it is whom the
\* browser is taken for, or new.
LEMMA RecordedFollows ==
    ASSUME Inv, NEW x \in Record, Recorded(x)
    PROVE  /\ \/ Authority(x.subject)
              \/ Authority(x.subject)'
              \/ x.subject = x.visit
              \/ \E y \in recorded : y.browser = x.browser /\ y.subject = x.subject
           /\ \A s, t : <<s, t>> \in merges' => <<s, t>> \in merges \/ (t = x.subject /\ Authority(t))
<1>0. TypeOK /\ MergedIsAuthority
  BY DEF Inv
<1>1. ASSUME NEW b, x.subject \in Recognised(b) \cup {x.visit}, b = x.browser
      PROVE  \/ Authority(x.subject) \/ x.subject = x.visit
             \/ \E y \in recorded : y.browser = x.browser /\ y.subject = x.subject
  BY <1>0, <1>1 DEF Recognised, Follows, MergedIsAuthority, TypeOK
<1>2. ASSUME NEW b, NEW s, Absorbed(b, s), s = x.subject
      PROVE  \A q, t : <<q, t>> \in merges' => <<q, t>> \in merges \/ (t = x.subject /\ Authority(t))
  BY <1>2 DEF Absorbed
<1>3. CASE Assigned(x)
  <2>1. x.assignee \in Participants
    BY <1>3 DEF Assigned, Record
  <2>2. Authority(x.subject)
    BY <1>0, <1>3, <2>1 DEF Assigned, Follows, Authority, MergedIsAuthority
  <2> QED BY <1>2, <1>3, <2>2 DEF Assigned
<1>4. CASE Identified(x)
  <2>1. x.user \in Users
    BY <1>4 DEF Identified, Record
  <2>2. Authority(x.subject)
    BY <1>0, <1>4, <2>1 DEF Identified, Follows, Authority, MergedIsAuthority
  <2> QED BY <1>2, <1>4, <2>2 DEF Identified
<1>5. CASE FirstIdentified(x)
  <2>1. x.user \in Users /\ identity'[x.user] = x.subject
    BY <1>0, <1>5 DEF FirstIdentified, Record, TypeOK
  <2> QED BY <1>5, <2>1 DEF FirstIdentified, Authority
<1>6. CASE Anonymous(x)
  BY <1>1, <1>6 DEF Anonymous
<1> QED BY <1>3, <1>4, <1>5, <1>6 DEF Recorded

LEMMA StepInv ==
    ASSUME NoSubject \notin Subjects, Inv, [Next]_vars
    PROVE  Inv'
<1>0. TypeOK /\ MergedIsAuthority /\ AnonymousIsOfVisit /\ AnonymousInOneBrowser
  BY DEF Inv
<1>1. CASE UNCHANGED vars
  BY <1>0, <1>1 DEF Inv, vars, TypeOK, MergedIsAuthority, AnonymousIsOfVisit, AnonymousInOneBrowser, Authority
<1>2. CASE \E p \in Participants, u \in Users : Verified(p, u)
  <2>1. Next /\ recorded' = recorded /\ sessions' = sessions /\ merges' = merges
    BY <1>2 DEF Verified, Next
  <2>2. TypeOK'
    BY <1>0, <1>2 DEF Verified, TypeOK, Subjects
  <2>3. \A s \in Subjects : Authority(s) => Authority(s)'
    BY <1>0, <2>1, AuthorityStays
  <2>4. \A x \in recorded : x.subject \in Subjects
    BY <1>0 DEF TypeOK, Record
  <2>5. MergedIsAuthority'
    BY <1>0, <2>1, <2>3 DEF MergedIsAuthority, Authority
  <2>6. AnonymousIsOfVisit' /\ AnonymousInOneBrowser'
    BY <1>0, <2>1, <2>3, <2>4 DEF AnonymousIsOfVisit, AnonymousInOneBrowser, Authority
  <2> QED BY <2>2, <2>5, <2>6 DEF Inv
<1>3. CASE \E x \in (recorded' \ recorded) \cap Record : Recorded(x)
  <2>1. PICK x \in Record : Recorded(x)
    BY <1>3
  <2>2. Next /\ recorded' = recorded \cup {x} /\ sessions' \subseteq recorded' /\ \A y \in recorded : y.visit # x.visit
    BY <1>0, <1>3, <2>1 DEF Recorded, Next, TypeOK
  <2>3. TypeOK'
    BY <1>0, <2>1, <2>2 DEF TypeOK, Recorded, Assigned, Identified, FirstIdentified, Anonymous, Record
  <2>4. \A s \in Subjects : Authority(s) => Authority(s)'
    BY <1>0, <2>2, AuthorityStays
  <2>5. \A y \in recorded' : y.subject \in Subjects
    BY <2>3 DEF TypeOK, Record
  <2>6. x.subject \in Subjects
    BY <2>1 DEF Record
  <2>7. MergedIsAuthority'
    <3> SUFFICES ASSUME NEW s, NEW t, <<s, t>> \in merges'
                 PROVE  t \in Subjects /\ Authority(t)'
      BY DEF MergedIsAuthority, Authority
    <3>1. t \in Subjects /\ Authority(t)
      BY <1>0, <2>1, <2>6, RecordedFollows DEF MergedIsAuthority
    <3> QED BY <2>4, <3>1
  <2>8. AnonymousIsOfVisit' /\ AnonymousInOneBrowser'
    <3>1. ASSUME NEW y \in recorded, ~Authority(y.subject)'
          PROVE  ~Authority(y.subject) /\ \E z \in recorded : z.visit = y.subject
      BY <1>0, <2>2, <2>4, <2>5, <3>1 DEF AnonymousIsOfVisit
    <3>2. ASSUME ~Authority(x.subject)'
          PROVE  \/ x.subject = x.visit
                 \/ \E y \in recorded : y.browser = x.browser /\ y.subject = x.subject
      BY <2>1, <2>4, <2>6, <3>2, RecordedFollows
    <3>3. AnonymousIsOfVisit'
      <4> SUFFICES ASSUME NEW y \in recorded', ~Authority(y.subject)'
                   PROVE  \E z \in recorded' : z.visit = y.subject
        BY DEF AnonymousIsOfVisit, Authority
      <4>1. CASE y \in recorded
        BY <2>2, <3>1, <4>1
      <4>2. CASE y = x
        BY <2>2, <3>1, <3>2, <4>2
      <4> QED BY <2>2, <4>1, <4>2
    <3>4. AnonymousInOneBrowser'
      <4>1. ASSUME NEW y \in recorded, NEW z \in recorded, y.subject = z.subject, ~Authority(y.subject)'
            PROVE  y.browser = z.browser
        BY <1>0, <3>1, <4>1 DEF AnonymousInOneBrowser
      <4>2. ASSUME NEW y \in recorded, y.subject = x.subject, ~Authority(x.subject)'
            PROVE  y.browser = x.browser
        <5>1. ~Authority(y.subject)'
          BY <4>2 DEF Authority
        <5>2. \E z \in recorded : z.visit = x.subject
          BY <3>1, <4>2, <5>1
        <5>3. PICK z \in recorded : z.browser = x.browser /\ z.subject = x.subject
          BY <2>2, <3>2, <4>2, <5>2
        <5> QED BY <4>1, <4>2, <5>1, <5>3
      <4> QED BY <2>2, <4>1, <4>2 DEF AnonymousInOneBrowser, Authority
    <3> QED BY <3>3, <3>4
  <2> QED BY <2>3, <2>7, <2>8 DEF Inv
<1>4. CASE \E x \in recorded : Started(x)
  BY <1>0, <1>4 DEF Started, Inv, TypeOK, MergedIsAuthority, AnonymousIsOfVisit, AnonymousInOneBrowser, Authority
<1> QED BY <1>1, <1>2, <1>3, <1>4 DEF Next

\* AnonymousInOneBrowser: recognition by cookies alone (SubjectTokenService.lookup)
\* never makes two browsers one respondent; that takes a participant or an account.
THEOREM AnonymousStays ==
    ASSUME NoSubject \notin Subjects
    PROVE  Spec => []AnonymousInOneBrowser
<1>1. Init => Inv
  BY DEF Init, Inv, TypeOK, MergedIsAuthority, AnonymousIsOfVisit, AnonymousInOneBrowser
<1>2. Inv /\ [Next]_vars => Inv'
  BY StepInv
<1>3. Inv => AnonymousInOneBrowser
  BY DEF Inv
<1> QED BY <1>1, <1>2, <1>3, PTL DEF Spec
=============================================================================
