------------------------ MODULE VersionContent_proofs ------------------------
(***************************************************************************)
(* Proofs about VersionContent, for any number of requests and any parts.  *)
(***************************************************************************)
EXTENDS VersionContent, TLAPS

-----------------------------------------------------------------------------
(* The parts of the inductive invariants.                                  *)

\* Which requests take which steps.
Routed(r) ==
    /\ pc[r] # "idle" => req[r] \in Calls
    /\ pc[r] \in {"editing", "writing", "written"} => req[r] \in Edits
    /\ pc[r] \in {"listing", "compiling", "scoring"} => Kind(r) = "publish"
    /\ pc[r] \in {"marking", "marked"} => Kind(r) \in {"publish", "archive"}
    /\ pc[r] \in {"cloning", "cloningRules"} => Kind(r) = "copy"
    /\ pc[r] \in {"numbering", "inserting"} \cup Inserted => Kind(r) \in {"copy", "new"}

TypeInv == TypeOK /\ \A r \in Requests : Routed(r)

LEMMA CallTypes ==
    ASSUME NEW c \in Calls
    PROVE  /\ c.kind \in {"create", "update", "delete", "publish", "archive", "copy", "new"}
           /\ c.kind # "new" => c.version \in Versions
           /\ c \in Edits <=> c.kind \in {"create", "update", "delete"}
           /\ c \in Edits => c.part \in Parts /\ c.value \in Values \cup {Absent}
BY DEF Calls, Edits

LEMMA InitType == Init => TypeInv
<1> SUFFICES ASSUME Init PROVE TypeInv
  OBVIOUS
<1>1. Blank \in Contents
  BY DEF Blank, Contents
<1>2. content \in [Versions -> Contents]
  BY <1>1 DEF Init
<1>3. TypeOK
  BY <1>1, <1>2 DEF Init, TypeOK, Steps, Versions
<1> QED BY <1>3 DEF Init, TypeInv, Routed, Inserted

-----------------------------------------------------------------------------
(* Steps, and what they leave alone.                                       *)

Step(r) == (\E c \in Calls : Arrive(r, c)) \/ Edit(r) \/ Publish(r) \/ CreateVersion(r) \/ RequestFails(r)

LEMMA NextIsStep == [Next]_vars => (\E r \in Requests : Step(r)) \/ UNCHANGED vars
BY DEF Next, Step, Rest

LEMMA OthersStay ==
    ASSUME TypeInv, NEW r \in Requests, Step(r), NEW q \in Requests, q # r
    PROVE  /\ pc'[q] = pc[q] /\ req'[q] = req[q] /\ seen'[q] = seen[q]
           /\ read'[q] = read[q] /\ next'[q] = next[q]
BY DEF TypeInv, TypeOK, Step, Arrive, Edit, Publish, CreateVersion, Goto, EndRequest, FindPart, InsertPart,
   WritePart, CommitEdit, ListQuestions, ListNodes, ListScoringRules, Mark, CommitPublish, CommitArchive,
   ReadNumber, InsertVersion, CloneNodes, CloneScoringRules, CommitVersion, RequestFails

LEMMA TablesStay ==
    ASSUME NEW r \in Requests, Step(r), ~CommitEdit(r), ~CommitPublish(r), ~CommitArchive(r), ~CommitVersion(r)
    PROVE  UNCHANGED tables
BY DEF tables, Step, Arrive, Edit, Publish, CreateVersion, FindPart, InsertPart,
   WritePart, ListQuestions, ListNodes, ListScoringRules, Mark,
   ReadNumber, InsertVersion, CloneNodes, CloneScoringRules, RequestFails

LEMMA OwnRouted ==
    ASSUME TypeInv, NEW r \in Requests, Step(r)
    PROVE  Routed(r)'
<1> USE DEF Goto, EndRequest, Inserted
<1>0. TypeOK /\ Routed(r)
  BY DEF TypeInv
<1>1. ASSUME NEW c \in Calls, Arrive(r, c) PROVE Routed(r)'
  <2>1. PICK step \in Steps : Begins(c, step) /\ pc'[r] = step
    BY <1>0, <1>1 DEF Arrive, TypeOK
  <2>2. req'[r] = c
    BY <1>0, <1>1 DEF Arrive, TypeOK
  <2> QED BY <2>1, <2>2, CallTypes DEF Begins, Routed, Kind
<1>2. CASE Edit(r)
  BY <1>0, <1>2 DEF TypeOK, Edit, FindPart, InsertPart, WritePart, CommitEdit, Routed, Kind, tables
<1>3. CASE Publish(r)
  BY <1>0, <1>3 DEF TypeOK, Publish, ListQuestions, ListNodes, ListScoringRules, Mark, CommitPublish,
     CommitArchive, Routed, Kind, tables
<1>4. CASE CreateVersion(r) \/ RequestFails(r)
  BY <1>0, <1>4 DEF TypeOK, CreateVersion, ReadNumber, InsertVersion, CloneNodes, CloneScoringRules, CommitVersion,
     RequestFails, UnderWay, Routed, Kind, tables
<1> QED BY <1>1, <1>2, <1>3, <1>4 DEF Step

LEMMA StepTypeOK ==
    ASSUME TypeInv, NEW r \in Requests, Step(r)
    PROVE  TypeOK'
<1> USE DEF Goto, EndRequest, Steps, tables
<1>0. TypeOK /\ Routed(r) /\ Blank \in Contents
  BY DEF TypeInv, Blank, Contents
<1>1. ASSUME NEW c \in Calls, Arrive(r, c) PROVE TypeOK'
  BY <1>0, <1>1 DEF Arrive, TypeOK
<1>2. CASE FindPart(r) \/ InsertPart(r) \/ WritePart(r) \/ Mark(r) \/ InsertVersion(r) \/ RequestFails(r)
  BY <1>0, <1>2 DEF TypeOK, FindPart, InsertPart, WritePart, Mark, InsertVersion, RequestFails
<1>3. CASE CommitEdit(r)
  <2>1. Target(r) \in Versions /\ Part(r) \in Parts /\ req[r].value \in Values \cup {Absent}
    BY <1>0, <1>3, CallTypes DEF CommitEdit, Routed, Target, Part
  <2>2. [content[Target(r)] EXCEPT ![Part(r)] = req[r].value] \in Contents
    BY <1>0, <2>1 DEF TypeOK, Contents
  <2>3. content' \in [Versions -> Contents]
    BY <1>0, <1>3, <2>1, <2>2 DEF CommitEdit, TypeOK
  <2> QED BY <1>0, <1>3, <2>3 DEF CommitEdit, TypeOK
<1>4. CASE ListQuestions(r) \/ ListNodes(r) \/ ListScoringRules(r) \/ CloneNodes(r) \/ CloneScoringRules(r)
  <2>1. Target(r) \in Versions
    BY <1>0, <1>4, CallTypes DEF ListQuestions, ListNodes, ListScoringRules, CloneNodes, CloneScoringRules, Routed,
       Kind, Target
  <2>2. content[Target(r)] \in Contents /\ read[r] \in Contents
    BY <1>0, <2>1 DEF TypeOK
  <2>3. /\ [n \in Parts |-> IF n \in Nodes THEN content[Target(r)][n] ELSE Absent] \in Contents
        /\ [n \in Parts |-> IF n \in ScoringRules THEN content[Target(r)][n] ELSE read[r][n]] \in Contents
        /\ [n \in Parts |-> IF n \notin Nodes \/ content[Target(r)][n] = Absent THEN Absent
                            ELSE IF read[r][n] # Absent THEN read[r][n] ELSE content[Target(r)][n]] \in Contents
    BY <2>2 DEF Contents
  <2>4. \E f \in Contents : read' = [read EXCEPT ![r] = f]
    BY <1>0, <1>4, <2>3 DEF TypeOK, ListQuestions, ListNodes, ListScoringRules, CloneNodes, CloneScoringRules
  <2> QED BY <1>0, <1>4, <2>4 DEF TypeOK, ListQuestions, ListNodes, ListScoringRules, CloneNodes,
       CloneScoringRules
<1>5. CASE CommitPublish(r) \/ CommitArchive(r)
  <2>1. Target(r) \in Versions /\ read[r] \in Contents
    BY <1>0, <1>5, CallTypes DEF CommitPublish, CommitArchive, Routed, Kind, Target, TypeOK
  <2> QED BY <1>0, <1>5, <2>1, ContentAssumption DEF TypeOK, CommitPublish, CommitArchive
<1>6. CASE ReadNumber(r)
  BY <1>0, <1>6 DEF TypeOK, ReadNumber, Numbers
<1>7. CASE CommitVersion(r)
  <2>1. r \in Versions
    BY DEF Versions
  <2> QED BY <1>0, <1>7, <2>1 DEF TypeOK, CommitVersion
<1> QED BY <1>1, <1>2, <1>3, <1>4, <1>5, <1>6, <1>7 DEF Step, Edit, Publish, CreateVersion

LEMMA StepType == TypeInv /\ [Next]_vars => TypeInv'
<1> SUFFICES ASSUME TypeInv, [Next]_vars PROVE TypeInv'
  OBVIOUS
<1>1. CASE UNCHANGED vars
  BY <1>1 DEF vars, tables, TypeInv, TypeOK, Routed, Kind
<1>2. ASSUME NEW r \in Requests, Step(r) PROVE TypeInv'
  <2>1. ASSUME NEW q \in Requests, q # r PROVE Routed(q)'
    BY <1>2, <2>1, OthersStay DEF TypeInv, Routed, Kind
  <2> QED BY <2>1, <1>2, OwnRouted, StepTypeOK DEF TypeInv
<1> QED BY <1>1, <1>2, NextIsStep

\* Every table and request keeps its type, and a published version has a
\* compiled schema (SurveyService.publish_version).
THEOREM TypeCorrect == Spec => []TypeOK
<1>1. TypeInv => TypeOK
  BY DEF TypeInv
<1> QED BY <1>1, InitType, StepType, PTL DEF Spec

-----------------------------------------------------------------------------
(* The life of a version, and who ran at the same time as whom.            *)

Frozen(v) == status[v] \in {"published", "archived"}

LifeInv ==
    /\ \A r \in Requests : pc[r] # "done" => status[r] = "none"
    /\ \A r \in Requests : UnderWay(r) /\ Kind(r) # "new" => status[Target(r)] # "none"
    /\ \A v \in Versions : compiled[v] # NoSchema => Frozen(v)
    /\ active # NoVersion => Frozen(active)
    /\ \A r \in Requests : seen[r] # NoVersion => Frozen(seen[r])

RivalInv ==
    /\ \A r, q \in Requests : UnderWay(r) /\ UnderWay(q) /\ q # r => q \in rivals[r]
    /\ \A r, q \in Requests : q \in rivals[r] => r \in rivals[q]
    /\ \A r \in Requests : pc[r] = "idle" => rivals[r] = {}

\* What happens to a request in a step.
LEMMA OwnStable ==
    ASSUME TypeInv, NEW r \in Requests, Step(r)
    PROVE  /\ pc[r] \notin {"done", "failed"}
           /\ pc[r] # "idle" => pc'[r] # "idle" /\ req'[r] = req[r]
           /\ UnderWay(r)' => UnderWay(r) \/ \E c \in Calls : Arrive(r, c)
           /\ seen'[r] \in {seen[r], NoVersion, active}
           /\ pc[r] = "idle" => pc'[r] # "done" /\ seen'[r] = active
<1> USE DEF TypeOK, Goto, EndRequest, UnderWay
<1>0. TypeOK
  BY DEF TypeInv
<1>1. ASSUME NEW c \in Calls, Arrive(r, c)
      PROVE  pc[r] = "idle" /\ pc'[r] # "done" /\ seen'[r] = active
  <2>1. PICK step \in Steps : Begins(c, step) /\ pc'[r] = step
    BY <1>0, <1>1 DEF Arrive
  <2> QED BY <1>0, <1>1, <2>1 DEF Arrive, Begins
<1>2. CASE \E c \in Calls : Arrive(r, c)
  BY <1>1, <1>2
<1>3. CASE Edit(r)
  BY <1>0, <1>3 DEF Edit, FindPart, InsertPart, WritePart, CommitEdit
<1>4. CASE Publish(r)
  BY <1>0, <1>4 DEF Publish, ListQuestions, ListNodes, ListScoringRules, Mark, CommitPublish, CommitArchive
<1>5. CASE CreateVersion(r) \/ RequestFails(r)
  BY <1>0, <1>5 DEF CreateVersion, ReadNumber, InsertVersion, CloneNodes, CloneScoringRules, CommitVersion,
     RequestFails
<1> QED BY <1>2, <1>3, <1>4, <1>5 DEF Step

LEMMA RivalsOnArrival ==
    ASSUME TypeInv, NEW r \in Requests, NEW c \in Calls, Arrive(r, c)
    PROVE  /\ rivals'[r] = {p \in Requests : UnderWay(p)} /\ ~UnderWay(r) /\ pc[r] = "idle" /\ req'[r] = c
           /\ UnderWay(r)'
           /\ \A q \in Requests \ {r} : rivals'[q] = IF UnderWay(q) THEN rivals[q] \cup {r} ELSE rivals[q]
<1>1. PICK step \in Steps : Begins(c, step) /\ pc'[r] = step
  BY DEF Arrive, TypeInv, TypeOK, Goto
<1> QED BY <1>1 DEF Arrive, Begins, TypeInv, TypeOK, Goto, UnderWay

LEMMA RivalsOtherwise ==
    ASSUME NEW r \in Requests, Step(r), ~(\E c \in Calls : Arrive(r, c))
    PROVE  rivals' = rivals
BY DEF Step, Edit, Publish, CreateVersion, Goto, EndRequest, FindPart, InsertPart,
   WritePart, CommitEdit, ListQuestions, ListNodes, ListScoringRules, Mark, CommitPublish, CommitArchive,
   ReadNumber, InsertVersion, CloneNodes, CloneScoringRules, CommitVersion, RequestFails

LEMMA StepRivals ==
    ASSUME TypeInv, RivalInv, NEW r \in Requests, Step(r)
    PROVE  RivalInv'
<1>1. CASE \E c \in Calls : Arrive(r, c)
  <2>0. PICK c \in Calls : Arrive(r, c)
    BY <1>1
  <2>1. /\ rivals'[r] = {p \in Requests : UnderWay(p)} /\ ~UnderWay(r) /\ rivals[r] = {} /\ pc'[r] # "idle"
        /\ \A q \in Requests \ {r} : rivals'[q] = IF UnderWay(q) THEN rivals[q] \cup {r} ELSE rivals[q]
    BY <2>0, RivalsOnArrival DEF RivalInv, UnderWay
  <2>5. ASSUME NEW q \in Requests, q # r
        PROVE  (UnderWay(q)' <=> UnderWay(q)) /\ (pc'[q] = "idle" <=> pc[q] = "idle") /\ r \notin rivals[q]
    <3>1. (UnderWay(q)' <=> UnderWay(q)) /\ (pc'[q] = "idle" <=> pc[q] = "idle")
      BY <2>5, OthersStay DEF UnderWay
    <3> QED BY <3>1, <2>1 DEF RivalInv
  <2>6. \A q \in Requests : pc[q] = "idle" => ~UnderWay(q)
    BY DEF UnderWay
  <2>2. ASSUME NEW p \in Requests, NEW q \in Requests, q \in rivals'[p] PROVE p \in rivals'[q]
    <3>1. CASE p = r
      BY <2>1, <2>2, <3>1
    <3>2. CASE p # r /\ q # r
      <4>1. q \in rivals[p]
        BY <2>1, <2>2, <3>2
      <4>2. p \in rivals[q]
        BY <4>1 DEF RivalInv
      <4> QED BY <2>1, <3>2, <4>2
    <3>3. CASE p # r /\ q = r
      BY <2>1, <2>2, <2>5, <3>3
    <3> QED BY <3>1, <3>2, <3>3
  <2>3. ASSUME NEW p \in Requests, NEW q \in Requests, UnderWay(p)', UnderWay(q)', p # q
        PROVE  p \in rivals'[q]
    BY <2>1, <2>3, <2>5 DEF RivalInv
  <2>4. ASSUME NEW q \in Requests, pc'[q] = "idle" PROVE rivals'[q] = {}
    BY <2>1, <2>4, <2>5, <2>6 DEF RivalInv
  <2> QED BY <2>2, <2>3, <2>4 DEF RivalInv
<1>2. CASE ~(\E c \in Calls : Arrive(r, c))
  <2>1. rivals' = rivals
    BY <1>2, RivalsOtherwise
  <2>2. \A q \in Requests : (UnderWay(q)' => UnderWay(q)) /\ (pc'[q] = "idle" => pc[q] = "idle")
    BY <1>2, OwnStable, OthersStay DEF UnderWay
  <2> QED BY <2>1, <2>2 DEF RivalInv
<1> QED BY <1>1, <1>2

\* Rivals are not forgotten, and requests that are done stay so.
LEMMA RivalsGrow ==
    ASSUME TypeInv, RivalInv, NEW r \in Requests, Step(r), NEW q \in Requests
    PROVE  /\ rivals[q] \subseteq rivals'[q]
           /\ pc[q] = "done" => pc'[q] = "done" /\ req'[q] = req[q]
<1>1. rivals[q] \subseteq rivals'[q]
  <2>1. ASSUME NEW c \in Calls, Arrive(r, c) PROVE rivals[q] \subseteq rivals'[q]
    BY <2>1, RivalsOnArrival DEF RivalInv
  <2> QED BY <2>1, RivalsOtherwise
<1> QED BY <1>1, OwnStable, OthersStay

\* What the four kinds of commit do to the versions.
LEMMA CommitEffects ==
    ASSUME TypeInv, LifeInv, NEW r \in Requests, Step(r), NEW v \in Versions
    PROVE  /\ CommitPublish(r) =>
                 /\ Target(r) \in Versions /\ status[Target(r)] # "none"
                 /\ status'[v] = IF v = Target(r) THEN "published"
                                 ELSE IF v = seen[r] THEN "archived" ELSE status[v]
                 /\ compiled'[v] = IF v = Target(r) THEN read[r] ELSE compiled[v]
                 /\ content' = content /\ number' = number /\ active' = Target(r)
                 /\ UnderWay(r) /\ pc'[r] = "done" /\ req'[r] = req[r] /\ Kind(r) = "publish"
           /\ CommitArchive(r) =>
                 /\ Target(r) \in Versions /\ status[Target(r)] # "none"
                 /\ status'[v] = IF v = Target(r) THEN "archived" ELSE status[v]
                 /\ compiled' = compiled /\ content' = content /\ number' = number
                 /\ active' \in {active, NoVersion}
                 /\ UnderWay(r) /\ pc'[r] = "done" /\ req'[r] = req[r] /\ Kind(r) = "archive"
           /\ CommitVersion(r) =>
                 /\ status[r] = "none" /\ r \in Versions
                 /\ status'[v] = IF v = r THEN "draft" ELSE status[v]
                 /\ number'[v] = IF v = r THEN next[r] ELSE number[v]
                 /\ content'[v] = IF v = r THEN read[r] ELSE content[v]
                 /\ compiled' = compiled /\ active' = active /\ pc'[r] = "done"
           /\ CommitEdit(r) =>
                 /\ status' = status /\ compiled' = compiled /\ active' = active /\ number' = number
                 /\ req[r] \in Edits /\ Target(r) \in Versions
                 /\ \A n \in Parts : content'[v][n] = IF v = Target(r) /\ n = Part(r) THEN req[r].value
                                                      ELSE content[v][n]
                 /\ v # Target(r) => content'[v] = content[v]
                 /\ UnderWay(r) /\ pc[r] = "written" /\ pc'[r] = "done" /\ req'[r] = req[r]
<1>0. TypeOK /\ Routed(r)
  BY DEF TypeInv
<1>1. CASE CommitPublish(r)
  <2>1. Target(r) \in Versions /\ UnderWay(r)
    BY <1>0, <1>1, CallTypes DEF CommitPublish, Routed, Kind, Target, UnderWay
  <2> QED BY <1>0, <1>1, <2>1 DEF CommitPublish, CommitArchive, CommitVersion, CommitEdit, TypeOK, EndRequest, Goto, LifeInv
<1>2. CASE CommitArchive(r)
  <2>1. Target(r) \in Versions /\ UnderWay(r)
    BY <1>0, <1>2, CallTypes DEF CommitArchive, Routed, Kind, Target, UnderWay
  <2> QED BY <1>0, <1>2, <2>1 DEF CommitPublish, CommitArchive, CommitVersion, CommitEdit, TypeOK, EndRequest, Goto, LifeInv
<1>3. CASE CommitVersion(r)
  BY <1>0, <1>3 DEF CommitPublish, CommitArchive, CommitVersion, CommitEdit, TypeOK, EndRequest, Goto, LifeInv, Versions
<1>4. CASE CommitEdit(r)
  <2>1. Target(r) \in Versions /\ UnderWay(r) /\ req[r] \in Edits
    BY <1>0, <1>4, CallTypes DEF CommitEdit, Routed, Target, UnderWay
  <2>2. content' = [content EXCEPT ![Target(r)] = [content[Target(r)] EXCEPT ![Part(r)] = req[r].value]]
    BY <1>4 DEF CommitEdit
  <2>3. \A n \in Parts : content'[v][n] = IF v = Target(r) /\ n = Part(r) THEN req[r].value ELSE content[v][n]
    BY <1>0, <2>1, <2>2 DEF TypeOK, Contents
  <2>4. v # Target(r) => content'[v] = content[v]
    BY <1>0, <2>1, <2>2 DEF TypeOK
  <2> QED BY <1>0, <1>4, <2>1, <2>3, <2>4 DEF CommitPublish, CommitArchive, CommitVersion, CommitEdit, TypeOK,
          EndRequest, Goto
<1> QED BY <1>1, <1>2, <1>3, <1>4

LEMMA StepLife ==
    ASSUME TypeInv, LifeInv, NEW r \in Requests, Step(r)
    PROVE  LifeInv'
<1>0. TypeOK
  BY DEF TypeInv
<1>1. ASSUME NEW v \in Versions
      PROVE  /\ status[v] # "none" => status'[v] # "none"
             /\ Frozen(v) => Frozen(v)'
  BY <1>0, <1>1, CommitEffects, TablesStay DEF Frozen, tables
<1>2. ASSUME NEW q \in Requests, pc'[q] # "done" PROVE status'[q] = "none"
  <2>1. pc[q] # "done" /\ status[q] = "none" /\ q \in Versions
    BY <1>2, OwnStable, OthersStay DEF LifeInv, Versions
  <2>2. \A p \in Requests : seen[p] # q
    BY <2>1, ContentAssumption DEF LifeInv, Frozen, Versions
  <2> QED BY <1>0, <1>2, <2>1, <2>2, CommitEffects, TablesStay DEF tables
<1>3. ASSUME NEW q \in Requests, UnderWay(q)', Kind(q)' # "new" PROVE status'[Target(q)'] # "none"
  <2>1. CASE UnderWay(q)
    <3>1. Kind(q)' = Kind(q) /\ Target(q)' = Target(q)
      BY <2>1, OwnStable, OthersStay DEF UnderWay, Kind, Target
    <3>2. Target(q) \in Versions /\ status[Target(q)] # "none"
      BY <1>3, <2>1, <3>1, CallTypes DEF LifeInv, TypeInv, Routed, UnderWay, Kind, Target
    <3> QED BY <1>1, <3>1, <3>2
  <2>2. CASE ~UnderWay(q)
    <3>1. PICK c \in Calls : q = r /\ Arrive(r, c)
      BY <1>3, <2>2, OwnStable, OthersStay DEF UnderWay
    <3>2. PICK step \in Steps : Begins(c, step)
      BY <3>1 DEF Arrive
    <3>3. req'[q] = c /\ status' = status
      BY <1>0, <3>1 DEF Arrive, TypeOK, tables
    <3> QED BY <1>3, <3>2, <3>3, CallTypes DEF Begins, Editable, Kind, Target
  <2> QED BY <2>1, <2>2
<1>4. ASSUME NEW v \in Versions, compiled'[v] # NoSchema PROVE Frozen(v)'
  <2>1. CASE CommitPublish(r) /\ v = Target(r)
    BY <2>1, CommitEffects DEF Frozen
  <2>2. CASE ~(CommitPublish(r) /\ v = Target(r))
    <3>1. compiled'[v] = compiled[v]
      BY <2>2, CommitEffects, TablesStay DEF tables
    <3> QED BY <1>1, <1>4, <3>1 DEF LifeInv
  <2> QED BY <2>1, <2>2
<1>5. active' # NoVersion => active' \in Versions /\ Frozen(active)'
  <2>1. CASE CommitPublish(r)
    <3>1. Target(r) \in Versions /\ active' = Target(r)
      BY <1>0, <2>1, CommitEffects DEF CommitPublish, Versions
    <3>2. status'[Target(r)] = "published"
      BY <2>1, <3>1, CommitEffects
    <3> QED BY <3>1, <3>2 DEF Frozen
  <2>2. CASE ~CommitPublish(r)
    <3>1. active' \in {active, NoVersion}
      <4>1. CASE CommitEdit(r) \/ CommitVersion(r)
        BY <4>1 DEF CommitEdit, CommitVersion
      <4>2. CASE CommitArchive(r)
        BY <4>2 DEF CommitArchive
      <4> QED BY <2>2, <4>1, <4>2, TablesStay DEF tables
    <3>2. active # NoVersion => active \in Versions /\ Frozen(active)
      BY <1>0 DEF LifeInv, TypeOK
    <3>3. ASSUME active' # NoVersion PROVE active' = active /\ active \in Versions /\ Frozen(active)
      BY <3>1, <3>2, <3>3
    <3> QED BY <1>1, <3>3 DEF Frozen
  <2> QED BY <2>1, <2>2
<1>6. ASSUME NEW q \in Requests, seen'[q] # NoVersion PROVE Frozen(seen[q])'
  <2>1. seen'[q] \in {seen[q], active, NoVersion}
    BY OwnStable, OthersStay
  <2>2. seen'[q] \in Versions /\ Frozen(seen'[q])
    BY <1>0, <1>6, <2>1 DEF LifeInv, TypeOK, Frozen
  <2> QED BY <1>1, <2>2 DEF Frozen
<1> QED BY <1>2, <1>3, <1>4, <1>5, <1>6 DEF LifeInv

LEMMA InitLife == Init => LifeInv /\ RivalInv
<1> SUFFICES ASSUME Init PROVE LifeInv /\ RivalInv
  OBVIOUS
<1>1. \A r \in Requests : status[r] = "none" /\ ~UnderWay(r) /\ rivals[r] = {} /\ seen[r] = NoVersion
  BY ContentAssumption DEF Init, UnderWay, Versions
<1>2. active = NoVersion /\ \A v \in Versions : compiled[v] = NoSchema
  BY DEF Init
<1> QED BY <1>1, <1>2 DEF LifeInv, RivalInv

Base == TypeInv /\ LifeInv /\ RivalInv

LEMMA InitBase == Init => Base
BY InitType, InitLife DEF Base

LEMMA StepBase == Base /\ [Next]_vars => Base'
<1> SUFFICES ASSUME Base, [Next]_vars PROVE Base'
  OBVIOUS
<1>1. CASE UNCHANGED vars
  <2>1. LifeInv' /\ RivalInv'
    BY <1>1 DEF Base, vars, tables, LifeInv, RivalInv, UnderWay, Frozen, Kind, Target
  <2> QED BY <1>1, <2>1, StepType DEF Base
<1>2. ASSUME NEW r \in Requests, Step(r) PROVE Base'
  BY <1>2, StepType, StepLife, StepRivals DEF Base
<1> QED BY <1>1, <1>2, NextIsStep

-----------------------------------------------------------------------------
(* Why an edit may meet a version that is no draft.                        *)

\* q has changed the status of v.
Settled(q, v) == pc[q] = "done" /\ Kind(q) \in {"publish", "archive"} /\ Target(q) = v

HasPublished(q, v) == pc[q] = "done" /\ Kind(q) = "publish" /\ Target(q) = v

EditInv ==
    \A r \in Requests : UnderWay(r) /\ req[r] \in Edits =>
        /\ Frozen(Target(r)) => \E q \in rivals[r] : Settled(q, Target(r))
        /\ compiled[Target(r)] # NoSchema => \E q \in rivals[r] : HasPublished(q, Target(r))

LEMMA StepEdit ==
    ASSUME Base, EditInv, NEW p \in Requests, Step(p)
    PROVE  EditInv'
<1>0. TypeOK /\ TypeInv /\ LifeInv /\ RivalInv
  BY DEF TypeInv, Base
<1> SUFFICES ASSUME NEW r \in Requests, UnderWay(r)', req'[r] \in Edits
             PROVE  /\ Frozen(Target(r))' => \E q \in rivals'[r] : Settled(q, Target(r))'
                    /\ compiled'[Target(r)'] # NoSchema => \E q \in rivals'[r] : HasPublished(q, Target(r))'
  BY DEF EditInv
<1>1. CASE ~UnderWay(r)
  <2>1. PICK c \in Calls : p = r /\ Arrive(r, c)
    BY <1>0, <1>1, OwnStable, OthersStay DEF UnderWay
  <2>2. PICK step \in Steps : Begins(c, step)
    BY <2>1 DEF Arrive
  <2>3. req'[r] = c /\ status' = status /\ compiled' = compiled
    BY <1>0, <2>1 DEF Arrive, TypeOK, tables
  <2>4. Target(r)' \in Versions /\ status'[Target(r)'] = "draft"
    BY <2>2, <2>3, CallTypes DEF Begins, Editable, Target
  <2>5. ~Frozen(Target(r))'
    BY <2>4 DEF Frozen
  <2> QED BY <1>0, <2>3, <2>4, <2>5 DEF LifeInv, Frozen
<1>2. CASE UnderWay(r)
  <2>1. req'[r] = req[r] /\ Target(r)' = Target(r) /\ Target(r) \in Versions
    BY <1>0, <1>2, OwnStable, OthersStay, CallTypes DEF UnderWay, Target, TypeInv, Routed
  <2> DEFINE v == Target(r)
  <2>2. ASSUME NEW q \in rivals[r]
        PROVE  q \in rivals'[r] /\ (Settled(q, v) => Settled(q, v)') /\ (HasPublished(q, v) => HasPublished(q, v)')
    <3>1. q \in Requests
      BY <1>0 DEF TypeOK
    <3>2. q \in rivals'[r] /\ (pc[q] = "done" => pc'[q] = "done" /\ req'[q] = req[q])
      BY <1>0, <3>1, RivalsGrow
    <3>3. Settled(q, v) => Settled(q, v)'
      BY <2>1, <3>2 DEF Settled, Kind, Target
    <3>4. HasPublished(q, v) => HasPublished(q, v)'
      BY <2>1, <3>2 DEF HasPublished, Kind, Target
    <3> QED BY <3>2, <3>3, <3>4
  <2>3. /\ Frozen(v) => \E q \in rivals[r] : Settled(q, v)
        /\ compiled[v] # NoSchema => \E q \in rivals[r] : HasPublished(q, v)
    BY <1>2, <2>1 DEF EditInv
  <2>4. CASE v = Target(p) /\ (CommitPublish(p) \/ CommitArchive(p))
    <3>1. /\ UnderWay(p) /\ Kind(p) \in {"publish", "archive"}
          /\ pc'[p] = "done" /\ req'[p] = req[p]
          /\ CommitPublish(p) => Kind(p) = "publish"
          /\ CommitArchive(p) => compiled' = compiled
      BY <1>0, <2>1, <2>4, CommitEffects
    <3>2. p # r
      BY <3>1 DEF UnderWay
    <3>3. p \in rivals'[r]
      BY <1>0, <1>2, <3>1, <3>2, RivalsGrow DEF RivalInv
    <3>4. Settled(p, v)' /\ (CommitPublish(p) => HasPublished(p, v)')
      BY <2>1, <2>4, <3>1 DEF Settled, HasPublished, Kind, Target
    <3>5. CASE CommitPublish(p)
      BY <2>1, <3>3, <3>4, <3>5
    <3>6. CASE CommitArchive(p)
      <4>1. compiled'[v] = compiled[v]
        BY <3>1, <3>6
      <4>2. compiled'[v] # NoSchema => \E q \in rivals'[r] : HasPublished(q, v)'
        BY <2>2, <2>3, <4>1
      <4> QED BY <2>1, <3>3, <3>4, <4>2
    <3> QED BY <2>4, <3>5, <3>6
  <2>5. CASE ~(v = Target(p) /\ (CommitPublish(p) \/ CommitArchive(p)))
    <3>1. compiled'[v] = compiled[v]
      BY <1>0, <2>1, <2>5, CommitEffects, TablesStay DEF tables
    <3>2. seen[p] = v => Frozen(v)
      BY <1>0, <2>1, ContentAssumption DEF LifeInv
    <3>3. Frozen(v)' => Frozen(v)
      <4>1. CASE CommitPublish(p)
        BY <1>0, <2>1, <2>5, <3>2, <4>1, CommitEffects DEF Frozen
      <4>2. CASE ~CommitPublish(p)
        BY <1>0, <2>1, <2>5, <4>2, CommitEffects, TablesStay DEF tables, Frozen
      <4> QED BY <4>1, <4>2
    <3> QED BY <2>1, <2>2, <2>3, <3>1, <3>3
  <2> QED BY <2>4, <2>5
<1> QED BY <1>1, <1>2

-----------------------------------------------------------------------------
(* What has been read of a version is what it says, but for rivals.        *)

\* The parts that a request has read and not written yet.
ReadSoFar(r) ==
    IF pc[r] \in {"compiling", "scoring", "cloningRules"} THEN Nodes
    ELSE IF (pc[r] \in {"marking", "marked"} /\ Kind(r) = "publish") \/ (pc[r] = "cloned" /\ Kind(r) = "copy")
         THEN Parts
         ELSE {}

\* Does a say what b says of part n, but for an edit by a rival of r?
Agrees(a, b, r, v, n) == a = b \/ \E q \in rivals[r] : Edited(q, v, n)

ReadInv ==
    \A r \in Requests : \A n \in ReadSoFar(r) :
        Agrees(read[r][n], content[Target(r)][n], r, Target(r), n)

LEMMA EditedStays ==
    ASSUME TypeInv, RivalInv, NEW p \in Requests, Step(p), NEW r \in Requests, NEW v, NEW n,
           \E q \in rivals[r] : Edited(q, v, n)
    PROVE  \E q \in rivals'[r] : Edited(q, v, n)'
<1>1. PICK q \in rivals[r] : Edited(q, v, n)
  OBVIOUS
<1>2. q \in Requests
  BY <1>1 DEF TypeInv, TypeOK
<1>3. q \in rivals'[r] /\ pc'[q] = "done" /\ req'[q] = req[q]
  BY <1>1, <1>2, RivalsGrow DEF Edited
<1>4. Edited(q, v, n)'
  BY <1>1, <1>3 DEF Edited, Target, Part
<1> QED BY <1>3, <1>4

\* An edit of a version by another request makes it a rival.
LEMMA ContentMoves ==
    ASSUME Base, NEW p \in Requests, Step(p), NEW r \in Requests, UnderWay(r), r # p,
           NEW v \in Versions, status[v] # "none", NEW n \in Parts, content'[v][n] # content[v][n]
    PROVE  \E q \in rivals'[r] : Edited(q, v, n)'
<1>0. TypeInv /\ LifeInv /\ RivalInv
  BY DEF Base
<1>1. CommitEdit(p)
  BY <1>0, CommitEffects, TablesStay DEF tables
<1>2. v = Target(p) /\ n = Part(p) /\ req[p] \in Edits /\ UnderWay(p) /\ pc'[p] = "done" /\ req'[p] = req[p]
  BY <1>0, <1>1, CommitEffects
<1>3. Edited(p, v, n)'
  BY <1>2 DEF Edited, Target, Part
<1>4. p \in rivals'[r]
  BY <1>0, <1>2, RivalsGrow DEF RivalInv
<1> QED BY <1>3, <1>4

LEMMA StepRead ==
    ASSUME Base, ReadInv, NEW p \in Requests, Step(p)
    PROVE  ReadInv'
<1>0. TypeOK /\ TypeInv /\ LifeInv /\ RivalInv /\ Routed(p)
  BY DEF TypeInv, Base
<1> SUFFICES ASSUME NEW r \in Requests, NEW n \in ReadSoFar(r)'
             PROVE  Agrees(read[r][n], content[Target(r)][n], r, Target(r), n)'
  BY DEF ReadInv
<1>1. n \in Parts
  BY DEF ReadSoFar, Parts
<1>2. CASE r # p
  <2>1. /\ pc'[r] = pc[r] /\ req'[r] = req[r] /\ read'[r] = read[r] /\ Target(r)' = Target(r)
        /\ n \in ReadSoFar(r)
    BY <1>0, <1>2, OthersStay DEF ReadSoFar, Kind, Target
  <2>2. UnderWay(r) /\ Target(r) \in Versions /\ status[Target(r)] # "none"
    BY <1>0, <2>1, CallTypes DEF ReadSoFar, UnderWay, LifeInv, TypeInv, Routed, Kind, Target
  <2>3. Agrees(read[r][n], content[Target(r)][n], r, Target(r), n)
    BY <2>1 DEF ReadInv
  <2>4. CASE \E q \in rivals[r] : Edited(q, Target(r), n)
    <3>1. \E q \in rivals'[r] : Edited(q, Target(r), n)'
      BY <1>0, <2>1, <2>4, EditedStays DEF Edited, Target, Part
    <3> QED BY <2>1, <3>1 DEF Agrees
  <2>5. CASE read[r][n] = content[Target(r)][n]
    <3>1. CASE content'[Target(r)][n] = content[Target(r)][n]
      BY <2>1, <2>5, <3>1 DEF Agrees
    <3>2. CASE content'[Target(r)][n] # content[Target(r)][n]
      <4>1. \E q \in rivals'[r] : Edited(q, Target(r), n)'
        BY <1>1, <1>2, <2>1, <2>2, <3>2, ContentMoves DEF Edited, Target, Part
      <4> QED BY <2>1, <4>1 DEF Agrees
    <3> QED BY <3>1, <3>2
  <2> QED BY <2>3, <2>4, <2>5 DEF Agrees
<1>3. CASE r = p
  <2>1. CASE ListQuestions(p) \/ ListNodes(p) \/ ListScoringRules(p) \/ CloneNodes(p) \/ CloneScoringRules(p)
    <3>1. /\ content' = content /\ req' = req /\ rivals' = rivals /\ Target(p)' = Target(p)
          /\ \A q \in Requests : pc[q] = "done" => pc'[q] = "done"
      BY <1>0, <2>1 DEF TypeOK, Goto, tables, Target, ListQuestions, ListNodes, ListScoringRules, CloneNodes,
         CloneScoringRules
    <3>2. /\ n \in ReadSoFar(p) \/ read'[p][n] = content[Target(p)][n]
          /\ read'[p][n] \in {read[p][n], content[Target(p)][n]}
      <4>1. CASE ListQuestions(p) \/ CloneNodes(p)
        BY <1>0, <1>1, <1>3, <2>1, <4>1 DEF TypeOK, Goto, ReadSoFar, Kind, ListQuestions, CloneNodes, Parts, Routed
      <4>2. CASE ListNodes(p)
        BY <1>0, <1>1, <1>3, <4>2 DEF TypeOK, Goto, ReadSoFar, ListNodes
      <4>3. CASE ListScoringRules(p) \/ CloneScoringRules(p)
        BY <1>0, <1>1, <1>3, <4>3 DEF TypeOK, Goto, ReadSoFar, ListScoringRules, CloneScoringRules, Parts
      <4> QED BY <2>1, <4>1, <4>2, <4>3
    <3>3. read'[p][n] = content[Target(p)][n] \/ \E q \in rivals[p] : Edited(q, Target(p), n)
      BY <1>3, <3>2 DEF ReadInv, Agrees
    <3>4. CASE \E q \in rivals[p] : Edited(q, Target(p), n)
      <4>1. \E q \in rivals'[p] : Edited(q, Target(p), n)'
        BY <1>0, <3>1, <3>4, EditedStays DEF Edited, Target, Part
      <4> QED BY <1>3, <3>1, <4>1 DEF Agrees
    <3> QED BY <1>3, <3>1, <3>3, <3>4 DEF Agrees
  <2>2. CASE Mark(p)
    <3>1. /\ content' = content /\ req' = req /\ rivals' = rivals /\ read' = read /\ Target(p)' = Target(p)
          /\ n \in ReadSoFar(p)
      BY <1>0, <1>3, <2>2 DEF TypeOK, Goto, tables, Target, Mark, ReadSoFar, Kind
    <3>2. Agrees(read[p][n], content[Target(p)][n], p, Target(p), n)
      BY <3>1 DEF ReadInv
    <3>3. CASE \E q \in rivals[p] : Edited(q, Target(p), n)
      <4>1. \E q \in rivals'[p] : Edited(q, Target(p), n)'
        BY <1>0, <3>1, <3>3, EditedStays DEF Edited, Target, Part
      <4> QED BY <1>3, <3>1, <4>1 DEF Agrees
    <3> QED BY <1>3, <3>1, <3>2, <3>3 DEF Agrees
  <2>3. CASE InsertVersion(p) \/ ReadNumber(p)
    BY <1>0, <1>3, <2>3 DEF TypeOK, Goto, ReadSoFar, InsertVersion, ReadNumber, Kind, Routed, tables
  <2>4. ASSUME NEW c \in Calls, Arrive(p, c) PROVE FALSE
    <3>1. PICK step \in Steps : Begins(c, step) /\ pc'[p] = step
      BY <1>0, <2>4 DEF Arrive, TypeOK, Goto
    <3>2. req'[p] = c
      BY <1>0, <2>4 DEF Arrive, TypeOK
    <3> QED BY <1>3, <3>1, <3>2 DEF Begins, ReadSoFar, Kind
  <2>5. CASE Edit(p) \/ CommitPublish(p) \/ CommitArchive(p) \/ CommitVersion(p) \/ RequestFails(p)
    BY <1>0, <1>3, <2>5 DEF TypeOK, Goto, EndRequest, ReadSoFar, Edit, FindPart, InsertPart, WritePart, CommitEdit,
       CommitPublish, CommitArchive, CommitVersion, RequestFails
  <2> QED BY <2>1, <2>2, <2>3, <2>4, <2>5 DEF Step, Publish, CreateVersion
<1> QED BY <1>2, <1>3

-----------------------------------------------------------------------------
(* The theorems about content.                                             *)

ContentInv == Base /\ EditInv /\ ReadInv

LEMMA InitContent == Init => ContentInv
<1> SUFFICES ASSUME Init PROVE EditInv /\ ReadInv
  BY InitBase DEF ContentInv
<1>1. \A r \in Requests : pc[r] = "idle"
  BY DEF Init
<1> QED BY <1>1 DEF EditInv, ReadInv, UnderWay, ReadSoFar

LEMMA StepContent == ContentInv /\ [Next]_vars => ContentInv'
<1> SUFFICES ASSUME ContentInv, [Next]_vars PROVE ContentInv'
  OBVIOUS
<1>1. CASE UNCHANGED vars
  <2>1. EditInv'
    BY <1>1 DEF ContentInv, vars, tables, EditInv, UnderWay, Frozen, Settled, HasPublished, Kind, Target
  <2>2. ReadInv'
    BY <1>1 DEF ContentInv, vars, tables, ReadInv, ReadSoFar, Agrees, Edited, Kind, Target, Part
  <2> QED BY <2>1, <2>2, StepBase DEF ContentInv
<1>2. ASSUME NEW r \in Requests, Step(r) PROVE ContentInv'
  BY <1>2, StepBase, StepEdit, StepRead DEF ContentInv
<1> QED BY <1>1, <1>2, NextIsStep

\* A version that is no draft changes only by edits that ran at the same time as
\* its publication or archival (ContentService checks the status on a plain read).
THEOREM FrozenStay == Spec => FrozenButForRivals
<1> DEFINE A == \A v \in Versions :
          status[v] \in {"published", "archived"} /\ content'[v] # content[v] =>
              \E r, q \in Requests :
                  /\ pc[r] = "written" /\ Target(r) = v /\ q \in rivals[r]
                  /\ pc[q] = "done" /\ Kind(q) \in {"publish", "archive"} /\ Target(q) = v
<1>1. ASSUME ContentInv, NEW p \in Requests, Step(p) PROVE A
  <2> SUFFICES ASSUME NEW v \in Versions, Frozen(v), content'[v] # content[v]
               PROVE  \E r, q \in Requests :
                         /\ pc[r] = "written" /\ Target(r) = v /\ q \in rivals[r] /\ Settled(q, v)
    BY DEF Frozen, Settled
  <2>0. TypeOK /\ TypeInv /\ LifeInv
    BY <1>1 DEF ContentInv, Base, TypeInv
  <2>1. CommitEdit(p) \/ (CommitVersion(p) /\ v = p)
    BY <1>1, <2>0, CommitEffects, TablesStay DEF tables
  <2>2. ~(CommitVersion(p) /\ v = p)
    BY <1>1, <2>0, CommitEffects DEF Frozen
  <2>3. v = Target(p) /\ UnderWay(p) /\ req[p] \in Edits /\ pc[p] = "written"
    BY <1>1, <2>0, <2>1, <2>2, CommitEffects
  <2>4. PICK q \in rivals[p] : Settled(q, v)
    BY <1>1, <2>3 DEF ContentInv, EditInv
  <2>5. q \in Requests
    BY <2>0, <2>4 DEF TypeOK
  <2> QED BY <2>3, <2>4, <2>5
<1>2. UNCHANGED vars => A
  BY DEF vars, tables
<1>3. ContentInv /\ [Next]_vars => [A]_vars
  BY <1>1, <1>2, NextIsStep
<1> QED BY <1>3, InitContent, StepContent, PTL DEF Spec, FrozenButForRivals

\* A copy says what its source says, but for edits that ran at the same time
\* (SurveyService.copy_version_to_draft).
THEOREM CopiesAgree == Spec => CopyIsSource
<1> DEFINE A == \A r \in Requests : pc[r] = "cloned" /\ pc'[r] = "done" /\ Kind(r) = "copy" =>
          \A n \in Parts : \/ content'[r][n] = content[Target(r)][n]
                           \/ \E q \in rivals[r] : Edited(q, Target(r), n)
<1>1. ASSUME ContentInv, NEW p \in Requests, Step(p) PROVE A
  <2> SUFFICES ASSUME NEW r \in Requests, pc[r] = "cloned", pc'[r] = "done", Kind(r) = "copy", NEW n \in Parts
               PROVE  \/ content'[r][n] = content[Target(r)][n]
                      \/ \E q \in rivals[r] : Edited(q, Target(r), n)
    OBVIOUS
  <2>0. TypeOK /\ TypeInv /\ LifeInv
    BY <1>1 DEF ContentInv, Base, TypeInv
  <2>1. r = p
    BY <1>1, <2>0, OthersStay
  <2>2. CommitVersion(p)
    BY <1>1, <2>0, <2>1 DEF TypeOK, Step, Arrive, Edit, Publish, CreateVersion, Goto, EndRequest, FindPart,
       InsertPart, WritePart, CommitEdit, ListQuestions, ListNodes, ListScoringRules, Mark, CommitPublish,
       CommitArchive, ReadNumber, InsertVersion, CloneNodes, CloneScoringRules, RequestFails
  <2>3. content'[r] = read[r]
    BY <1>1, <2>0, <2>1, <2>2, CommitEffects DEF Versions
  <2>4. n \in ReadSoFar(r)
    BY DEF ReadSoFar
  <2> QED BY <1>1, <2>3, <2>4 DEF ContentInv, ReadInv, Agrees
<1>2. ASSUME UNCHANGED vars PROVE A
  BY <1>2 DEF vars
<1>3. ContentInv /\ [Next]_vars => [A]_vars
  BY <1>1, <1>2, NextIsStep
<1> QED BY <1>3, InitContent, StepContent, PTL DEF Spec, CopyIsSource

LEMMA StepSnapshot ==
    ASSUME ContentInv, SnapshotIsContent, NEW s \in Requests, Step(s)
    PROVE  SnapshotIsContent'
<1>0. TypeOK /\ TypeInv /\ LifeInv /\ RivalInv
  BY DEF ContentInv, Base, TypeInv
<1> DEFINE Excused(v, n) == \E p, r \in Requests : HasPublished(p, v) /\ r \in rivals[p] /\ Edited(r, v, n)
<1> SUFFICES ASSUME NEW v \in Versions, compiled'[v] # NoSchema, NEW n \in Parts,
                    compiled'[v][n] # content'[v][n]
             PROVE  Excused(v, n)'
  BY DEF SnapshotIsContent, HasPublished
<1>1. ASSUME Excused(v, n) PROVE Excused(v, n)'
  <2>1. PICK p \in Requests, r \in Requests : HasPublished(p, v) /\ r \in rivals[p] /\ Edited(r, v, n)
    BY <1>1
  <2>2. /\ r \in rivals'[p] /\ pc'[p] = "done" /\ req'[p] = req[p]
        /\ pc'[r] = "done" /\ req'[r] = req[r]
    BY <1>0, <2>1, RivalsGrow DEF HasPublished, Edited
  <2>3. HasPublished(p, v)' /\ Edited(r, v, n)'
    BY <2>1, <2>2 DEF HasPublished, Edited, Kind, Target, Part
  <2> QED BY <2>2, <2>3
<1>2. CASE CommitPublish(s) /\ v = Target(s)
  <2>1. /\ compiled'[v] = read[s] /\ content' = content
        /\ pc'[s] = "done" /\ req'[s] = req[s] /\ Kind(s) = "publish"
    BY <1>0, <1>2, CommitEffects
  <2>2. n \in ReadSoFar(s)
    BY <1>2, <2>1 DEF ReadSoFar, CommitPublish
  <2>3. PICK q \in rivals[s] : Edited(q, v, n)
    BY <1>2, <2>1, <2>2 DEF ContentInv, ReadInv, Agrees
  <2>4. q \in Requests
    BY <1>0, <2>3 DEF TypeOK
  <2>5. q \in rivals'[s] /\ pc'[q] = "done" /\ req'[q] = req[q]
    BY <1>0, <2>3, <2>4, RivalsGrow DEF Edited
  <2>6. HasPublished(s, v)' /\ Edited(q, v, n)'
    BY <1>2, <2>1, <2>3, <2>5 DEF HasPublished, Edited, Kind, Target, Part
  <2> QED BY <2>4, <2>5, <2>6
<1>3. CASE ~(CommitPublish(s) /\ v = Target(s))
  <2>1. compiled'[v] = compiled[v]
    BY <1>0, <1>3, CommitEffects, TablesStay DEF tables
  <2>2. CASE content'[v][n] = content[v][n]
    BY <1>1, <2>1, <2>2 DEF SnapshotIsContent, HasPublished
  <2>3. CASE content'[v][n] # content[v][n]
    <3>1. status[v] # "none"
      BY <2>1 DEF Base, LifeInv, Frozen, ContentInv
    <3>2. CommitEdit(s)
      BY <1>0, <2>3, <3>1, CommitEffects, TablesStay DEF tables
    <3>3. /\ v = Target(s) /\ n = Part(s) /\ UnderWay(s) /\ req[s] \in Edits
          /\ pc'[s] = "done" /\ req'[s] = req[s]
      BY <1>0, <2>3, <3>2, CommitEffects
    <3>4. PICK p \in rivals[s] : HasPublished(p, v)
      BY <2>1, <3>3 DEF ContentInv, EditInv
    <3>5. p \in Requests /\ s \in rivals[p]
      BY <1>0, <3>4 DEF TypeOK, RivalInv
    <3>6. s \in rivals'[p] /\ pc'[p] = "done" /\ req'[p] = req[p]
      BY <1>0, <3>4, <3>5, RivalsGrow DEF HasPublished
    <3>7. HasPublished(p, v)' /\ Edited(s, v, n)'
      BY <3>3, <3>4, <3>6 DEF HasPublished, Edited, Kind, Target, Part
    <3> QED BY <3>5, <3>6, <3>7
  <2> QED BY <2>2, <2>3
<1> QED BY <1>2, <1>3

\* The compiled schema differs from the parts of its version only where an edit
\* ran at the same time as the publication (SurveyService.publish_version).
THEOREM SnapshotsAgree == Spec => []SnapshotIsContent
<1>1. Init => SnapshotIsContent
  BY DEF Init, SnapshotIsContent
<1>2. ASSUME ContentInv, SnapshotIsContent, [Next]_vars PROVE SnapshotIsContent'
  <2>1. CASE UNCHANGED vars
    BY <1>2, <2>1 DEF vars, tables, SnapshotIsContent, Edited, Kind, Target, Part
  <2> QED BY <1>2, <2>1, NextIsStep, StepSnapshot
<1> QED BY <1>1, <1>2, InitContent, StepContent, PTL DEF Spec

-----------------------------------------------------------------------------
(* Version numbers.                                                        *)

Exists(v) == status[v] # "none"

NumberInv ==
    /\ \A v \in Versions : Exists(v) <=> number[v] # 0
    /\ \A r \in Requests : pc[r] \in {"inserting"} \cup Inserted =>
          /\ next[r] # 0
          /\ \A k \in 1 .. (next[r] - 1) : \E w \in Versions : Exists(w) /\ number[w] = k
    /\ \A r \in Requests : pc[r] \in Inserted => NumberFree(r)

DenseInv == Base /\ NumberInv /\ NumbersDense

LEMMA InitDense == Init => DenseInv
<1> SUFFICES ASSUME Init PROVE NumberInv /\ NumbersDense
  BY InitBase DEF DenseInv
<1>1. \A v \in Versions : Exists(v) <=> v = FirstVersion
  BY DEF Init, Exists
<1>2. \A v \in Versions : number[v] = IF v = FirstVersion THEN 1 ELSE 0
  BY DEF Init
<1>3. \A r \in Requests : pc[r] = "idle"
  BY DEF Init
<1>4. FirstVersion \in Versions
  BY DEF Versions
<1>5. NumberInv
  BY <1>1, <1>2, <1>3 DEF NumberInv, Inserted
<1>6. NumbersDense
  BY <1>1, <1>2, <1>4 DEF NumbersDense, Exists
<1> QED BY <1>5, <1>6

\* A step that inserts no version and reads no number.
LEMMA StepDenseOther ==
    ASSUME DenseInv, NEW s \in Requests, Step(s), ~CommitVersion(s), ~ReadNumber(s), ~InsertVersion(s)
    PROVE  NumberInv' /\ NumbersDense'
<1>0. TypeOK /\ TypeInv /\ LifeInv /\ Routed(s)
  BY DEF DenseInv, Base, TypeInv
<1>1. number' = number
  BY <1>0, CommitEffects, TablesStay DEF tables, CommitPublish, CommitArchive, CommitEdit
<1>2. ASSUME NEW v \in Versions PROVE Exists(v)' <=> Exists(v)
  <2>1. CASE CommitPublish(s)
    <3>1. status[Target(s)] # "none" /\ (seen[s] = v => status[v] # "none")
      BY <1>0, <1>2, <2>1, CommitEffects, ContentAssumption DEF LifeInv, Frozen
    <3> QED BY <1>0, <1>2, <2>1, <3>1, CommitEffects DEF Exists
  <2>2. CASE ~CommitPublish(s)
    BY <1>0, <1>2, <2>2, CommitEffects, TablesStay DEF Exists, tables
  <2> QED BY <2>1, <2>2
<1>3. ASSUME NEW r \in Requests, pc'[r] \in {"inserting"} \cup Inserted
      PROVE  pc[r] \in {"inserting"} \cup Inserted /\ next'[r] = next[r] /\ (pc'[r] \in Inserted => pc[r] \in Inserted)
  <2>1. CASE r # s
    BY <1>0, <1>3, <2>1, OthersStay
  <2>2. CASE r = s
    <3>1. ASSUME NEW c \in Calls, Arrive(s, c) PROVE FALSE
      <4>1. PICK step \in Steps : Begins(c, step) /\ pc'[s] = step
        BY <1>0, <3>1 DEF Arrive, TypeOK, Goto
      <4> QED BY <1>3, <2>2, <4>1 DEF Begins, Inserted
    <3>2. CASE CloneNodes(s) \/ CloneScoringRules(s)
      BY <1>0, <1>3, <2>2, <3>2 DEF TypeOK, Goto, CloneNodes, CloneScoringRules, Inserted
    <3>3. CASE Edit(s) \/ Publish(s) \/ RequestFails(s)
      BY <1>0, <1>3, <2>2, <3>3 DEF TypeOK, Goto, EndRequest, Inserted, Edit, Publish, FindPart, InsertPart,
         WritePart, CommitEdit, ListQuestions, ListNodes, ListScoringRules, Mark, CommitPublish, CommitArchive,
         RequestFails
    <3> QED BY <3>1, <3>2, <3>3 DEF Step, CreateVersion
  <2> QED BY <2>1, <2>2
<1>4. Numbers' = Numbers
  BY <1>1 DEF Numbers
<1>5. NumbersDense'
  BY <1>1, <1>2 DEF DenseInv, NumbersDense, Exists
<1>6. ASSUME NEW r \in Requests, pc'[r] \in Inserted PROVE NumberFree(r)'
  <2>1. next'[r] = next[r] /\ NumberFree(r)
    BY <1>3, <1>6 DEF DenseInv, NumberInv
  <2>2. \A q \in Requests : pc'[q] \in Inserted => pc[q] \in Inserted /\ next'[q] = next[q]
    BY <1>3
  <2> QED BY <1>4, <2>1, <2>2 DEF NumberFree, Inserted
<1>7. NumberInv'
  BY <1>1, <1>2, <1>3, <1>6 DEF DenseInv, NumberInv, Inserted
<1> QED BY <1>5, <1>7

LEMMA StepDenseCreate ==
    ASSUME DenseInv, NEW s \in Requests, Step(s), ReadNumber(s) \/ InsertVersion(s)
    PROVE  NumberInv' /\ NumbersDense'
<1>0. TypeOK /\ TypeInv
  BY DEF DenseInv, Base, TypeInv
<1>1. status' = status /\ number' = number
  BY DEF ReadNumber, InsertVersion, tables
<1>2. NumbersDense' /\ Numbers' = Numbers /\ \A v \in Versions : Exists(v)' <=> Exists(v)
  BY <1>1 DEF DenseInv, NumbersDense, Numbers, Exists
<1>3. ASSUME NEW q \in Requests, q # s PROVE pc'[q] = pc[q] /\ next'[q] = next[q]
  BY <1>0, <1>3, OthersStay
<1>4. CASE ReadNumber(s)
  <2>1. PICK m \in Numbers : (\A k \in Numbers : k <= m) /\ next' = [next EXCEPT ![s] = m + 1]
    BY <1>4 DEF ReadNumber
  <2>2. PICK v \in Versions : number[v] = m
    BY <2>1 DEF Numbers
  <2>3. m \in Nat /\ next'[s] = m + 1 /\ pc'[s] = "inserting"
    BY <1>0, <1>4, <2>1, <2>2 DEF TypeOK, ReadNumber, Goto
  <2>4. \A k \in 1 .. m : \E w \in Versions : Exists(w) /\ number[w] = k
    <3>1. CASE m = 0
      BY <3>1
    <3>2. CASE m # 0
      BY <2>2, <2>3, <3>2 DEF DenseInv, NumberInv, NumbersDense, Exists
    <3> QED BY <3>1, <3>2
  <2>5. next'[s] # 0 /\ next'[s] - 1 = m /\ pc'[s] \notin Inserted
    BY <2>3 DEF Inserted
  <2>6. ASSUME NEW r \in Requests, pc'[r] \in {"inserting"} \cup Inserted
        PROVE  /\ next'[r] # 0
               /\ \A k \in 1 .. (next'[r] - 1) : \E w \in Versions : Exists(w)' /\ number'[w] = k
    BY <1>1, <1>2, <1>3, <2>4, <2>5, <2>6 DEF DenseInv, NumberInv
  <2>7. ASSUME NEW r \in Requests, pc'[r] \in Inserted PROVE NumberFree(r)'
    <3>1. r # s /\ NumberFree(r)
      BY <1>3, <2>5, <2>7 DEF DenseInv, NumberInv
    <3> QED BY <1>2, <1>3, <2>5, <3>1 DEF NumberFree, Inserted
  <2> QED BY <1>1, <1>2, <2>6, <2>7 DEF DenseInv, NumberInv, Inserted
<1>5. CASE InsertVersion(s)
  <2>1. next' = next /\ pc'[s] \in Inserted /\ pc[s] = "inserting" /\ NumberFree(s)
    BY <1>0, <1>5 DEF InsertVersion, TypeOK, Goto, Inserted
  <2>2. \A r \in Requests : pc'[r] \in {"inserting"} \cup Inserted => pc[r] \in {"inserting"} \cup Inserted
    BY <1>3, <2>1
  <2>3. ASSUME NEW r \in Requests, pc'[r] \in Inserted PROVE NumberFree(r)'
    <3>1. NumberFree(r) /\ (r # s => pc[r] \in Inserted)
      BY <1>3, <2>1, <2>3 DEF DenseInv, NumberInv
    <3>2. ASSUME NEW q \in Requests \ {r}, pc'[q] \in Inserted PROVE next[q] # next[r]
      <4>1. CASE q = s
        BY <2>1, <3>1, <3>2, <4>1 DEF NumberFree
      <4>2. CASE q # s
        BY <1>3, <3>1, <3>2, <4>2 DEF NumberFree
      <4> QED BY <4>1, <4>2
    <3> QED BY <1>2, <2>1, <3>1, <3>2 DEF NumberFree, Inserted
  <2> QED BY <1>1, <1>2, <2>1, <2>2, <2>3 DEF DenseInv, NumberInv, Inserted
<1> QED BY <1>4, <1>5

LEMMA StepDenseCommit ==
    ASSUME DenseInv, NEW s \in Requests, Step(s), CommitVersion(s)
    PROVE  NumberInv' /\ NumbersDense'
<1>0. TypeOK /\ TypeInv /\ LifeInv
  BY DEF DenseInv, Base, TypeInv
<1>1. /\ pc[s] \in Inserted /\ pc'[s] = "done" /\ s \in Versions /\ ~Exists(s) /\ number[s] = 0
      /\ next[s] \in Nat /\ next[s] # 0 /\ NumberFree(s)
      /\ \A k \in 1 .. (next[s] - 1) : \E w \in Versions : Exists(w) /\ number[w] = k
  <2>1. pc[s] \in Inserted /\ pc'[s] = "done" /\ s \in Versions /\ ~Exists(s)
    BY <1>0, CommitEffects DEF CommitVersion, Inserted, Exists, Versions
  <2>2. next[s] \in Nat
    BY <1>0 DEF TypeOK
  <2> QED BY <2>1, <2>2 DEF DenseInv, NumberInv, Inserted
<1>2. \A v \in Versions : /\ Exists(v)' <=> Exists(v) \/ v = s
                          /\ number'[v] = IF v = s THEN next[s] ELSE number[v]
  BY <1>0, CommitEffects DEF Exists
<1>3. ASSUME NEW q \in Requests, q # s PROVE pc'[q] = pc[q] /\ next'[q] = next[q]
  BY <1>0, <1>3, OthersStay
<1>4. \A w \in Versions : number[w] \in Nat /\ number[w] # next[s]
  BY <1>0, <1>1 DEF TypeOK, NumberFree, Numbers
<1>5. \A k : (\E w \in Versions : Exists(w) /\ number[w] = k) => (\E w \in Versions : Exists(w)' /\ number'[w] = k)
  BY <1>1, <1>2
<1>6. NumbersDense'
  <2>1. ASSUME NEW v \in Versions, Exists(v)', NEW w \in Versions, Exists(w)', number'[w] = number'[v]
        PROVE  w = v
    BY <1>1, <1>2, <1>4, <2>1 DEF DenseInv, NumbersDense, Exists
  <2>2. ASSUME NEW v \in Versions, Exists(v)', NEW k \in 1 .. number'[v]
        PROVE  \E w \in Versions : Exists(w)' /\ number'[w] = k
    <3>1. CASE v # s
      BY <1>2, <1>5, <2>2, <3>1 DEF DenseInv, NumbersDense, Exists
    <3>2. CASE v = s /\ k # next[s]
      <4>1. k \in 1 .. (next[s] - 1)
        BY <1>1, <1>2, <2>2, <3>2
      <4> QED BY <1>1, <1>5, <4>1
    <3>3. CASE v = s /\ k = next[s]
      BY <1>2, <2>2, <3>3
    <3> QED BY <3>1, <3>2, <3>3
  <2> QED BY <2>1, <2>2 DEF NumbersDense, Exists
<1>7. ASSUME NEW r \in Requests, pc'[r] \in {"inserting"} \cup Inserted
      PROVE  /\ next'[r] # 0
             /\ \A k \in 1 .. (next'[r] - 1) : \E w \in Versions : Exists(w)' /\ number'[w] = k
  <2>1. r # s
    BY <1>1, <1>7 DEF Inserted
  <2> QED BY <1>3, <1>5, <1>7, <2>1 DEF DenseInv, NumberInv
<1>8. ASSUME NEW r \in Requests, pc'[r] \in Inserted PROVE NumberFree(r)'
  <2>1. r # s
    BY <1>1, <1>8 DEF Inserted
  <2>2. NumberFree(r) /\ pc[r] \in Inserted /\ next'[r] = next[r]
    BY <1>3, <1>8, <2>1 DEF DenseInv, NumberInv
  <2>3. next[r] # next[s]
    BY <1>1, <2>1, <2>2 DEF NumberFree
  <2>4. next'[r] \notin Numbers'
    BY <1>2, <2>2, <2>3 DEF NumberFree, Numbers
  <2>5. ASSUME NEW q \in Requests \ {r}, pc'[q] \in Inserted PROVE next'[q] # next'[r]
    <3>1. q # s
      BY <1>1, <2>5 DEF Inserted
    <3> QED BY <1>3, <2>2, <2>5, <3>1 DEF NumberFree
  <2> QED BY <2>4, <2>5 DEF NumberFree, Inserted
<1>9. ASSUME NEW v \in Versions PROVE Exists(v)' <=> number'[v] # 0
  BY <1>1, <1>2 DEF DenseInv, NumberInv
<1> QED BY <1>6, <1>7, <1>8, <1>9 DEF NumberInv, Inserted

\* Versions are numbered without repetition and without gaps, although the next
\* number is read without a lock (create_version of surveys_repo.py).
THEOREM NumberedDensely == Spec => []NumbersDense
<1>1. DenseInv => NumbersDense
  BY DEF DenseInv
<1>2. ASSUME DenseInv, [Next]_vars PROVE DenseInv'
  <2>1. CASE UNCHANGED vars
    <3>1. NumberInv' /\ NumbersDense'
      BY <1>2, <2>1 DEF DenseInv, vars, tables, NumberInv, NumbersDense, Exists, NumberFree, Numbers, Inserted
    <3> QED BY <1>2, <3>1, StepBase DEF DenseInv
  <2>2. ASSUME NEW s \in Requests, Step(s) PROVE DenseInv'
    BY <1>2, <2>2, StepBase, StepDenseOther, StepDenseCreate, StepDenseCommit DEF DenseInv
  <2> QED BY <1>2, <2>1, <2>2, NextIsStep
<1> QED BY <1>1, <1>2, InitDense, PTL DEF Spec

-----------------------------------------------------------------------------
(* Refinement of Publication *)

\* What the request that has marked its version can rely on until it commits.
MarkInv ==
    \A r \in Requests : pc[r] = "marked" =>
        /\ \A q \in Requests : pc[q] = "marked" => q = r
        /\ Kind(r) = "publish" => Published \subseteq {seen[r], Target(r)}
        /\ Kind(r) = "archive" /\ active = Target(r) => seen[r] = Target(r)

AtomicInv == Base /\ MarkInv

\* Only the request that has marked its version changes what is published.
LEMMA PublishedMoves ==
    ASSUME Base, NEW r \in Requests, Step(r), pc[r] # "marked"
    PROVE  Published' = Published /\ active' = active
<1>1. ~CommitPublish(r) /\ ~CommitArchive(r)
  BY DEF CommitPublish, CommitArchive
<1>2. ASSUME NEW v \in Versions PROVE status'[v] = "published" <=> status[v] = "published"
  BY <1>1, CommitEffects, TablesStay DEF Base, tables
<1>3. active' = active
  BY <1>1, CommitEffects, TablesStay DEF Base, tables, Versions
<1> QED BY <1>2, <1>3 DEF Published

LEMMA StepMark ==
    ASSUME AtomicInv, NEW r \in Requests, Step(r)
    PROVE  MarkInv'
<1>0. Base /\ TypeInv /\ TypeOK
  BY DEF AtomicInv, Base, TypeInv
<1>1. ASSUME NEW q \in Requests, q # r
      PROVE  pc'[q] = pc[q] /\ req'[q] = req[q] /\ seen'[q] = seen[q]
  BY <1>0, <1>1, OthersStay
<1>2. CASE pc[r] = "marked"
  <2>1. pc'[r] # "marked"
    <3>1. CommitPublish(r) \/ CommitArchive(r) \/ RequestFails(r)
      BY <1>2 DEF Step, Arrive, Edit, Publish, CreateVersion, FindPart, InsertPart, WritePart, CommitEdit,
         ListQuestions, ListNodes, ListScoringRules, Mark, ReadNumber, InsertVersion, CloneNodes,
         CloneScoringRules, CommitVersion
    <3> QED BY <1>0, <3>1 DEF CommitPublish, CommitArchive, RequestFails, EndRequest, Goto, TypeOK
  <2>2. \A q \in Requests : pc'[q] # "marked"
    BY <1>1, <1>2, <2>1 DEF AtomicInv, MarkInv
  <2> QED BY <2>2 DEF MarkInv
<1>3. CASE pc[r] # "marked" /\ ~Mark(r)
  <2>1. pc'[r] # "marked"
    <3>1. ASSUME NEW c \in Calls, Arrive(r, c) PROVE pc'[r] # "marked"
      <4>1. PICK step \in Steps : Begins(c, step) /\ pc'[r] = step
        BY <1>0, <3>1 DEF Arrive, TypeOK, Goto
      <4> QED BY <4>1 DEF Begins
    <3>2. CASE Edit(r) \/ CreateVersion(r) \/ RequestFails(r)
      BY <1>0, <3>2 DEF TypeOK, Goto, EndRequest, Edit, FindPart, InsertPart, WritePart, CommitEdit,
         CreateVersion, ReadNumber, InsertVersion, CloneNodes, CloneScoringRules, CommitVersion, RequestFails
    <3>3. CASE Publish(r)
      BY <1>0, <1>3, <3>3 DEF TypeOK, Goto, EndRequest, Publish, ListQuestions, ListNodes, ListScoringRules,
         CommitPublish, CommitArchive
    <3> QED BY <3>1, <3>2, <3>3 DEF Step
  <2>2. Published' = Published /\ active' = active
    BY <1>0, <1>3, PublishedMoves
  <2> QED BY <1>1, <2>1, <2>2 DEF AtomicInv, MarkInv, Kind, Target
<1>4. CASE Mark(r)
  <2>1. pc[r] = "marking" /\ UNCHANGED <<status, active, req, seen>>
    BY <1>4 DEF Mark, tables
  <2>2. \A q \in Requests : q # r => pc'[q] # "marked"
    BY <1>1, <1>4 DEF Mark
  <2>3. /\ Kind(r) = "publish" => Published \subseteq {seen[r], Target(r)}
        /\ Kind(r) # "publish" /\ active = Target(r) => seen[r] = Target(r)
    BY <1>4 DEF Mark
  <2> QED BY <2>1, <2>2, <2>3 DEF MarkInv, Published, Kind, Target
<1> QED BY <1>2, <1>3, <1>4

LEMMA InitAtomic == Init => AtomicInv /\ Atomic!Init
<1> SUFFICES ASSUME Init PROVE AtomicInv /\ Atomic!Init
  OBVIOUS
<1>1. MarkInv
  BY DEF Init, MarkInv
<1>2. Atomic!Init
  BY DEF Init, Claimed, UnderWay, Atomic!Init
<1> QED BY <1>1, <1>2, InitBase DEF AtomicInv

\* The claim of a request whose step is no arrival stays, or is dropped when it ends.
LEMMA OwnClaim ==
    ASSUME TypeInv, NEW r \in Requests, Step(r), ~(\E c \in Calls : Arrive(r, c))
    PROVE  /\ Claimed(r)' \in {Claimed(r), NoVersion}
           /\ \A q \in Requests : q # r => Claimed(q)' = Claimed(q)
<1>1. pc[r] # "idle" /\ req'[r] = req[r]
  <2>1. pc[r] # "idle"
    BY DEF Step, Edit, FindPart, InsertPart, WritePart, CommitEdit, Publish, ListQuestions, ListNodes,
       ListScoringRules, Mark, CommitPublish, CommitArchive, CreateVersion, ReadNumber, InsertVersion,
       CloneNodes, CloneScoringRules, CommitVersion, RequestFails, UnderWay
  <2> QED BY <2>1, OwnStable
<1>2. UnderWay(r)' => UnderWay(r)
  BY OwnStable
<1>3. ASSUME NEW q \in Requests, q # r PROVE Claimed(q)' = Claimed(q)
  BY <1>3, OthersStay DEF Claimed, UnderWay, Kind, Target
<1> QED BY <1>1, <1>2, <1>3 DEF Claimed, Kind, Target

LEMMA StepIsPublication ==
    ASSUME AtomicInv, NEW r \in Requests, Step(r)
    PROVE  [Atomic!Next]_(Atomic!vars)
<1>0. Base /\ TypeInv /\ LifeInv /\ TypeOK /\ Routed(r)
  BY DEF AtomicInv, Base, TypeInv
<1> DEFINE claim == [q \in Requests |-> Claimed(q)]
<1>a. FirstVersion \in Versions
  BY DEF Versions
<1>1. ASSUME NEW c \in Calls, Arrive(r, c)
      PROVE  (c.version \in Versions /\ Atomic!Claim(r, c.version)) \/ UNCHANGED Atomic!vars
  <2>1. PICK step \in Steps : Begins(c, step) /\ pc'[r] = step
    BY <1>0, <1>1 DEF Arrive, Goto, TypeOK
  <2>2. /\ pc[r] = "idle" /\ req'[r] = c /\ UNCHANGED <<status, active>>
        /\ step \notin {"idle", "done", "failed"}
    BY <1>0, <1>1, <2>1 DEF Arrive, tables, TypeOK, Begins
  <2>3. \A q \in Requests : q # r => Claimed(q)' = Claimed(q)
    BY <1>0, OthersStay DEF Claimed, UnderWay, Kind, Target
  <2>4. Claimed(r) = NoVersion /\ Claimed(r)' = IF c.kind = "publish" THEN c.version ELSE NoVersion
    BY <2>1, <2>2 DEF Claimed, UnderWay, Kind, Target
  <2>5. CASE c.kind = "publish"
    <3>1. status[c.version] = "draft" /\ c.version \in Versions
      BY <2>1, <2>5, CallTypes DEF Begins
    <3>2. claim' = [claim EXCEPT ![r] = c.version]
      BY <2>3, <2>4, <2>5
    <3> QED BY <2>2, <2>4, <3>1, <3>2 DEF Atomic!Claim
  <2>6. CASE c.kind # "publish"
    BY <2>2, <2>3, <2>4, <2>6 DEF Atomic!vars
  <2> QED BY <2>5, <2>6
<1>2. ASSUME CommitPublish(r)
      PROVE  Atomic!Publish(r)
  <2>1. /\ Target(r) \in Versions /\ Target(r) # NoVersion /\ active' = Target(r)
        /\ Kind(r) = "publish" /\ UnderWay(r) /\ pc'[r] = "done" /\ pc[r] = "marked"
    <3>1. /\ Target(r) \in Versions /\ active' = Target(r)
          /\ Kind(r) = "publish" /\ UnderWay(r) /\ pc'[r] = "done"
      BY <1>0, <1>2, <1>a, CommitEffects
    <3> QED BY <1>2, <3>1, ContentAssumption DEF CommitPublish
  <2>2. ASSUME NEW v \in Versions, v # Target(r)
        PROVE  status'[v] = IF status[v] = "published" THEN "archived" ELSE status[v]
    <3>1. status[v] = "published" => v = seen[r]
      BY <2>1, <2>2 DEF AtomicInv, MarkInv, Published
    <3>2. v = seen[r] => status[v] \in {"published", "archived"}
      BY <1>0, ContentAssumption DEF LifeInv, Frozen
    <3>3. status'[v] = IF v = seen[r] THEN "archived" ELSE status[v]
      BY <1>0, <1>2, <2>2, CommitEffects
    <3> QED BY <3>1, <3>2, <3>3
  <2>3. status' = [v \in Versions |-> IF v = Target(r) THEN "published"
                                      ELSE IF status[v] = "published" THEN "archived" ELSE status[v]]
    BY <1>2, <2>2 DEF CommitPublish
  <2>4. Claimed(r) = Target(r) /\ Claimed(r)' = NoVersion
    BY <2>1 DEF Claimed, UnderWay
  <2>5. claim' = [claim EXCEPT ![r] = NoVersion]
    BY <1>0, <2>4, OthersStay DEF Claimed, UnderWay, Kind, Target
  <2> QED BY <2>1, <2>3, <2>4, <2>5 DEF Atomic!Publish, Atomic!Drop
<1>3. ASSUME CommitArchive(r)
      PROVE  Target(r) \in Versions /\ Atomic!Archive(Target(r))
  <2>1. /\ Target(r) \in Versions /\ Target(r) # NoVersion /\ status[Target(r)] # "none"
        /\ Kind(r) = "archive" /\ req'[r] = req[r] /\ pc[r] = "marked"
    <3>1. /\ Target(r) \in Versions /\ status[Target(r)] # "none"
          /\ Kind(r) = "archive" /\ req'[r] = req[r]
      BY <1>0, <1>3, <1>a, CommitEffects
    <3> QED BY <1>3, <3>1, ContentAssumption DEF CommitArchive
  <2>2. status' = [status EXCEPT ![Target(r)] = "archived"]
    BY <1>3 DEF CommitArchive
  <2>3. active' \in {active, NoVersion} \ {Target(r)}
    BY <1>3, <2>1 DEF CommitArchive, AtomicInv, MarkInv
  <2>4. claim' = claim
    BY <1>0, <2>1, OthersStay DEF Claimed, UnderWay, Kind, Target
  <2> QED BY <2>1, <2>2, <2>3, <2>4 DEF Atomic!Archive
<1>4. ASSUME CommitVersion(r)
      PROVE  r \in Versions /\ Atomic!Create(r)
  <2>1. status[r] = "none" /\ r \in Versions /\ Kind(r) \in {"copy", "new"}
    BY <1>0, <1>4 DEF CommitVersion, LifeInv, Versions, Routed, Inserted
  <2>2. req' = req /\ active' = active /\ status' = [status EXCEPT ![r] = "draft"]
    BY <1>4 DEF CommitVersion, EndRequest
  <2>3. claim' = claim
    BY <1>0, <2>1, <2>2, OthersStay DEF Claimed, UnderWay, Kind, Target
  <2> QED BY <2>1, <2>2, <2>3 DEF Atomic!Create
<1>5. ASSUME ~(\E c \in Calls : Arrive(r, c)), ~CommitPublish(r), ~CommitArchive(r), ~CommitVersion(r)
      PROVE  Atomic!Withdraw(r) \/ UNCHANGED Atomic!vars
  <2>1. UNCHANGED <<status, active>>
    <3>1. CASE CommitEdit(r)
      BY <3>1 DEF CommitEdit
    <3>2. CASE ~CommitEdit(r)
      BY <1>5, <3>2, TablesStay DEF tables
    <3> QED BY <3>1, <3>2
  <2>2. Claimed(r)' \in {Claimed(r), NoVersion} /\ \A q \in Requests : q # r => Claimed(q)' = Claimed(q)
    BY <1>0, <1>5, OwnClaim
  <2>3. CASE Claimed(r)' = Claimed(r)
    BY <2>1, <2>2, <2>3 DEF Atomic!vars
  <2>4. CASE Claimed(r)' # Claimed(r)
    <3>1. claim[r] # NoVersion /\ claim' = [claim EXCEPT ![r] = NoVersion]
      BY <2>2, <2>4
    <3> QED BY <2>1, <3>1 DEF Atomic!Withdraw, Atomic!Drop
  <2> QED BY <2>3, <2>4
<1> QED BY <1>1, <1>2, <1>3, <1>4, <1>5 DEF Atomic!Next

\* Publications and archivings among edits and copies implement Publication, as those of
\* SurveyPublishing do.
THEOREM PublishingRefinesPublication == Spec => PublishesAtomically
<1>1. AtomicInv /\ [Next]_vars => AtomicInv'
  <2>1. ASSUME AtomicInv, UNCHANGED vars PROVE MarkInv'
    BY <2>1 DEF vars, tables, AtomicInv, MarkInv, Published, Kind, Target
  <2> QED BY <2>1, StepBase, StepMark, NextIsStep DEF AtomicInv
<1>2. AtomicInv /\ [Next]_vars => [Atomic!Next]_(Atomic!vars)
  <2>1. UNCHANGED vars => UNCHANGED Atomic!vars
    BY DEF vars, tables, Claimed, UnderWay, Kind, Target, Atomic!vars
  <2> QED BY <2>1, StepIsPublication, NextIsStep
<1> QED BY <1>1, <1>2, InitAtomic, PTL DEF Spec, PublishesAtomically, Atomic!Spec

\* What an implementation of Publication has, whatever else its requests do: the
\* survey refers to a published version or to none, and no other is published beside.
OneIsPublished ==
    /\ \A v, w \in Versions : status[v] = "published" /\ status[w] = "published" => v = w
    /\ active # NoVersion => status[active] = "published"

LEMMA PublicationKeepsOne ==
    ASSUME TypeInv, OneIsPublished, [Atomic!Next]_(Atomic!vars)
    PROVE  OneIsPublished'
<1> USE DEF TypeInv, TypeOK, OneIsPublished
<1>1. CASE UNCHANGED Atomic!vars
  BY <1>1 DEF Atomic!vars
<1>2. ASSUME NEW v \in Versions, Atomic!Create(v) PROVE OneIsPublished'
  BY <1>2, ContentAssumption DEF Atomic!Create
<1>3. ASSUME NEW v \in Versions, Atomic!Archive(v) PROVE OneIsPublished'
  BY <1>3, ContentAssumption DEF Atomic!Archive
<1>4. ASSUME NEW r \in Requests, Atomic!Publish(r) PROVE OneIsPublished'
  <2>1. Claimed(r) # NoVersion /\ active' = Claimed(r)
        /\ status' = [v \in Versions |-> IF v = Claimed(r) THEN "published"
                                         ELSE IF status[v] = "published" THEN "archived" ELSE status[v]]
    BY <1>4 DEF Atomic!Publish
  <2>2. Claimed(r) \in Versions
    BY <2>1, CallTypes DEF Claimed, UnderWay, Routed, Kind, Target
  <2> QED BY <2>1, <2>2
<1>5. ASSUME NEW r \in Requests, Atomic!Withdraw(r) \/ \E v \in Versions : Atomic!Claim(r, v)
      PROVE  OneIsPublished'
  BY <1>5 DEF Atomic!Withdraw, Atomic!Drop, Atomic!Claim
<1> QED BY <1>1, <1>2, <1>3, <1>4, <1>5 DEF Atomic!Next

\* The trigger protect_active_published_version and the index
\* uq_survey_versions_one_published hold against edits and copies as well, by way of
\* what publications amount to.
THEOREM OnePublished == Spec => []OneIsPublished
<1>1. Atomic!Init /\ TypeInv => OneIsPublished
  BY DEF Atomic!Init, TypeInv, TypeOK, OneIsPublished
<1>2. TypeInv /\ OneIsPublished /\ [Atomic!Next]_(Atomic!vars) => OneIsPublished'
  BY PublicationKeepsOne
<1> QED BY <1>1, <1>2, InitType, StepType, PublishingRefinesPublication, PTL
    DEF Spec, PublishesAtomically, Atomic!Spec
=============================================================================
