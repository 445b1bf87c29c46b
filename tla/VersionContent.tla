--------------------------- MODULE VersionContent ---------------------------
(***************************************************************************)
(* The content of a survey's versions: authors edit the parts of a draft   *)
(* while it is published, archived or copied.                              *)
(*                                                                         *)
(* Every request checks the status of its version on a plain read and      *)
(* writes later, in a READ COMMITTED transaction.  A trigger looks at the  *)
(* status again when a part is written, but it sees what is committed; the *)
(* foreign key's lock does not stop a change of the status.                *)
(*                                                                         *)
(* What a request has written is kept with the request until it commits.   *)
(* How publications wait for each other is the matter of SurveyPublishing: *)
(* here one of them at a time has marked its version.                      *)
(***************************************************************************)
EXTENDS Integers

CONSTANTS
    Requests,      \* requests, each served once
    Nodes,         \* questions and rules, by the id that the client gives them
    ScoringRules,  \* scoring rules, by their key
    Values,        \* what a part says
    FirstVersion, NoVersion, Absent, NoSchema, NoRequest

VARIABLES
    status,    \* survey_versions.status, "none" before the version is inserted
    active,    \* surveys.published_version_id
    number,    \* survey_versions.version_number
    content,   \* survey_questions and survey_scoring_rules of each version
    compiled,  \* survey_versions.compiled_schema
    pc, req,   \* step and request
    seen,      \* the active version that the request read
    read,      \* the parts that the request has read
    next,      \* the version number that the request inserts
    rivals     \* history: requests under way at the same time

tables == <<status, active, number, content, compiled>>
vars == <<tables, pc, req, seen, read, next, rivals>>

Parts == Nodes \cup ScoringRules

\* A new version is named by the request that inserts it.
Versions == {FirstVersion} \cup Requests

Contents == [Parts -> Values \cup {Absent}]
Blank == [n \in Parts |-> Absent]

Edits ==
    [kind : {"create", "update"}, version : Versions, part : Parts, value : Values]
    \cup [kind : {"delete"}, version : Versions, part : Parts, value : {Absent}]

Calls ==
    Edits
    \cup [kind : {"publish", "archive", "copy"}, version : Versions]
    \cup [kind : {"new"}, version : {NoVersion}]

ASSUME ContentAssumption ==
    /\ FirstVersion \notin Requests
    /\ NoVersion \notin Versions
    /\ Absent \notin Values
    /\ NoSchema \notin Contents
    /\ NoRequest \notin Calls
    /\ Nodes \cap ScoringRules = {}

Steps == {"idle", "editing", "writing", "written",
          "listing", "compiling", "scoring", "marking", "marked",
          "numbering", "inserting", "cloning", "cloningRules", "cloned", "done", "failed"}

TypeOK ==
    /\ status \in [Versions -> {"none", "draft", "published", "archived"}]
    /\ active \in Versions \cup {NoVersion}
    /\ number \in [Versions -> Nat]
    /\ content \in [Versions -> Contents]
    /\ compiled \in [Versions -> Contents \cup {NoSchema}]
    /\ pc \in [Requests -> Steps]
    /\ req \in [Requests -> Calls \cup {NoRequest}]
    /\ seen \in [Requests -> Versions \cup {NoVersion}]
    /\ read \in [Requests -> Contents]
    /\ next \in [Requests -> Nat]
    /\ rivals \in [Requests -> SUBSET Requests]
    /\ \A v \in Versions : status[v] = "published" => compiled[v] # NoSchema

\* A survey with one draft.
Init ==
    /\ status = [v \in Versions |-> IF v = FirstVersion THEN "draft" ELSE "none"]
    /\ active = NoVersion
    /\ number = [v \in Versions |-> IF v = FirstVersion THEN 1 ELSE 0]
    /\ \E c \in Contents : content = [v \in Versions |-> IF v = FirstVersion THEN c ELSE Blank]
    /\ compiled = [v \in Versions |-> NoSchema]
    /\ pc = [r \in Requests |-> "idle"]
    /\ req = [r \in Requests |-> NoRequest]
    /\ seen = [r \in Requests |-> NoVersion]
    /\ read = [r \in Requests |-> Blank]
    /\ next = [r \in Requests |-> 0]
    /\ rivals = [r \in Requests |-> {}]

Goto(r, step) == pc' = [pc EXCEPT ![r] = step]

Kind(r) == req[r].kind
Target(r) == req[r].version
Part(r) == req[r].part

\* The request is over, what it has read is gone.
EndRequest(r, outcome) ==
    /\ Goto(r, outcome)
    /\ seen' = [seen EXCEPT ![r] = NoVersion]
    /\ read' = [read EXCEPT ![r] = Blank]
    /\ next' = [next EXCEPT ![r] = 0]
    /\ UNCHANGED <<req, rivals>>

UnderWay(r) == pc[r] \notin {"idle", "done", "failed"}

-----------------------------------------------------------------------------
(* The first reads *)

\* Mutant: the status is not checked, the trigger is left.
EditableByTrigger(v) == status[v] \in {"draft", "archived"}

\* ensure_is_editable
Editable(v) == status[v] = "draft"

\* Where a call that is not refused begins: ensure_is_draft, ensure_can_archive.
Begins(c, step) ==
    \/ c.kind \in {"create", "update", "delete"} /\ Editable(c.version) /\ step = "editing"
    \/ c.kind = "publish" /\ status[c.version] = "draft" /\ step = "listing"
    \/ c.kind = "archive" /\ status[c.version] \in {"draft", "published"} /\ step = "marking"
    \/ c.kind = "copy" /\ status[c.version] # "none" /\ step = "numbering"
    \/ c.kind = "new" /\ step = "numbering"

Arrive(r, c) ==
    /\ pc[r] = "idle"
    /\ \E step \in Steps : Begins(c, step) /\ Goto(r, step)
    /\ req' = [req EXCEPT ![r] = c]
    /\ seen' = [seen EXCEPT ![r] = active]
    /\ rivals' = [q \in Requests |-> IF q = r THEN {p \in Requests : UnderWay(p)}
                                     ELSE IF UnderWay(q) THEN rivals[q] \cup {r} ELSE rivals[q]]
    /\ UNCHANGED <<tables, read, next>>

-----------------------------------------------------------------------------
(* ContentService: edits of one part *)

\* get_node, get_scoring_rule; no UPDATE is sent for what the part says already.
FindPart(r) ==
    LET old == content[Target(r)][Part(r)]
    IN  /\ pc[r] = "editing" /\ Kind(r) \in {"update", "delete"}
        /\ old # Absent
        /\ Goto(r, IF req[r].value = old THEN "done" ELSE "writing")
        /\ UNCHANGED <<tables, req, seen, read, next, rivals>>

\* prevent_changes_to_published_version_parts: on the committed status.
Writable(r) == status[Target(r)] # "published"

\* The trigger runs before an insert looks at the unique indexes.
InsertPart(r) ==
    /\ pc[r] = "editing" /\ Kind(r) = "create"
    /\ Writable(r)
    /\ Goto(r, "writing")
    /\ UNCHANGED <<tables, req, seen, read, next, rivals>>

\* Has another request written the part, and not committed?
PartLocked(r) ==
    \E q \in Requests \ {r} :
        pc[q] = "written" /\ Target(q) = Target(r) /\ Part(q) = Part(r)

\* The flush: a key may not be taken, an updated row has to be there.  (A scoring
\* rule that was created again is taken for the one that was read.)
WritePart(r) ==
    LET old == content[Target(r)][Part(r)]
    IN  /\ pc[r] = "writing" /\ ~PartLocked(r)
        /\ \/ Kind(r) = "create" /\ old = Absent
           \/ Kind(r) = "update" /\ old # Absent /\ Writable(r)
           \/ Kind(r) = "delete" /\ (old # Absent => Writable(r))
        /\ Goto(r, "written")
        /\ UNCHANGED <<tables, req, seen, read, next, rivals>>

CommitEdit(r) ==
    /\ pc[r] = "written"
    /\ content' = [content EXCEPT ![Target(r)] = [@ EXCEPT ![Part(r)] = req[r].value]]
    /\ EndRequest(r, "done")
    /\ UNCHANGED <<status, active, number, compiled>>

-----------------------------------------------------------------------------
(* publish_version, archive_version *)

\* ensure_has_questions looks at all nodes.
ListQuestions(r) ==
    /\ pc[r] = "listing"
    /\ \E n \in Nodes : content[Target(r)][n] # Absent
    /\ read' = [read EXCEPT ![r] =
                   [n \in Parts |-> IF n \in Nodes THEN content[Target(r)][n] ELSE Absent]]
    /\ Goto(r, "compiling")
    /\ UNCHANGED <<tables, req, seen, next, rivals>>

\* The nodes that are there now; those listed before say what they said then.
ListNodes(r) ==
    LET now == content[Target(r)]
    IN  /\ pc[r] = "compiling"
        /\ read' = [read EXCEPT ![r] =
              [n \in Parts |-> IF n \notin Nodes \/ now[n] = Absent THEN Absent
                               ELSE IF @[n] # Absent THEN @[n] ELSE now[n]]]
        /\ Goto(r, "scoring")
        /\ UNCHANGED <<tables, req, seen, next, rivals>>

\* Mutant: scoring rules are not compiled.
ListNoScoringRules(r) ==
    /\ pc[r] = "scoring"
    /\ Goto(r, "marking")
    /\ UNCHANGED <<tables, req, seen, read, next, rivals>>

ListScoringRules(r) ==
    /\ pc[r] = "scoring"
    /\ read' = [read EXCEPT ![r] =
                   [n \in Parts |-> IF n \in ScoringRules THEN content[Target(r)][n] ELSE @[n]]]
    /\ Goto(r, "marking")
    /\ UNCHANGED <<tables, req, seen, next, rivals>>

Published == {v \in Versions : status[v] = "published"}

\* The updates of status and reference.  Beside the version that was read as active
\* no other may be published (uq_survey_versions_one_published), and one that was not
\* read as active must not have become so (protect_active_published_version).
Mark(r) ==
    /\ pc[r] = "marking"
    /\ \A q \in Requests : pc[q] # "marked"
    /\ IF Kind(r) = "publish" THEN Published \subseteq {seen[r], Target(r)}
       ELSE active = Target(r) => seen[r] = Target(r)
    /\ Goto(r, "marked")
    /\ UNCHANGED <<tables, req, seen, read, next, rivals>>

\* Mutant: compiled_schema is not assigned.
CommitPublishUncompiled(r) ==
    /\ pc[r] = "marked" /\ Kind(r) = "publish"
    /\ status' = [v \in Versions |-> IF v = Target(r) THEN "published"
                                     ELSE IF v = seen[r] THEN "archived" ELSE status[v]]
    /\ active' = Target(r)
    /\ EndRequest(r, "done")
    /\ UNCHANGED <<number, content, compiled>>

CommitPublish(r) ==
    /\ pc[r] = "marked" /\ Kind(r) = "publish"
    /\ status' = [v \in Versions |-> IF v = Target(r) THEN "published"
                                     ELSE IF v = seen[r] THEN "archived" ELSE status[v]]
    /\ active' = Target(r)
    /\ compiled' = [compiled EXCEPT ![Target(r)] = read[r]]
    /\ EndRequest(r, "done")
    /\ UNCHANGED <<number, content>>

CommitArchive(r) ==
    /\ pc[r] = "marked" /\ Kind(r) = "archive"
    /\ status' = [status EXCEPT ![Target(r)] = "archived"]
    /\ active' = IF seen[r] = Target(r) THEN NoVersion ELSE active
    /\ EndRequest(r, "done")
    /\ UNCHANGED <<number, content, compiled>>

-----------------------------------------------------------------------------
(* create_version, copy_version_to_draft *)

Numbers == {number[v] : v \in Versions}

ReadNumber(r) ==
    /\ pc[r] = "numbering"
    /\ \E m \in Numbers :
          /\ \A k \in Numbers : k <= m
          /\ next' = [next EXCEPT ![r] = m + 1]
    /\ Goto(r, "inserting")
    /\ UNCHANGED <<tables, req, seen, read, rivals>>

\* Requests with an uncommitted version.
Inserted == {"cloning", "cloningRules", "cloned"}

\* Mutant: no unique index on survey and version number.
NumberAlwaysFree(r) == TRUE

\* uq_survey_versions_survey_id_version_number; the insert waits for another.
NumberFree(r) ==
    /\ next[r] \notin Numbers
    /\ \A q \in Requests \ {r} : pc[q] \in Inserted => next[q] # next[r]

InsertVersion(r) ==
    /\ pc[r] = "inserting"
    /\ NumberFree(r)
    /\ Goto(r, IF Kind(r) = "copy" THEN "cloning" ELSE "cloned")
    /\ UNCHANGED <<tables, req, seen, read, next, rivals>>

CloneNodes(r) ==
    /\ pc[r] = "cloning"
    /\ read' = [read EXCEPT ![r] =
                   [n \in Parts |-> IF n \in Nodes THEN content[Target(r)][n] ELSE Absent]]
    /\ Goto(r, "cloningRules")
    /\ UNCHANGED <<tables, req, seen, next, rivals>>

\* Mutant: only the nodes are cloned.
CloneNoScoringRules(r) ==
    /\ pc[r] = "cloningRules"
    /\ Goto(r, "cloned")
    /\ UNCHANGED <<tables, req, seen, read, next, rivals>>

CloneScoringRules(r) ==
    /\ pc[r] = "cloningRules"
    /\ read' = [read EXCEPT ![r] =
                   [n \in Parts |-> IF n \in ScoringRules THEN content[Target(r)][n] ELSE @[n]]]
    /\ Goto(r, "cloned")
    /\ UNCHANGED <<tables, req, seen, next, rivals>>

CommitVersion(r) ==
    /\ pc[r] = "cloned"
    /\ status' = [status EXCEPT ![r] = "draft"]
    /\ number' = [number EXCEPT ![r] = next[r]]
    /\ content' = [content EXCEPT ![r] = read[r]]
    /\ EndRequest(r, "done")
    /\ UNCHANGED <<active, compiled>>

-----------------------------------------------------------------------------

\* A refusal by a check, a trigger or an index, a row that is not there, or any
\* other error: the transaction is rolled back.
RequestFails(r) ==
    /\ UnderWay(r)
    /\ EndRequest(r, "failed")
    /\ UNCHANGED tables

Edit(r) == FindPart(r) \/ InsertPart(r) \/ WritePart(r) \/ CommitEdit(r)

Publish(r) ==
    ListQuestions(r) \/ ListNodes(r) \/ ListScoringRules(r) \/ Mark(r)
    \/ CommitPublish(r) \/ CommitArchive(r)

CreateVersion(r) ==
    ReadNumber(r) \/ InsertVersion(r) \/ CloneNodes(r) \/ CloneScoringRules(r) \/ CommitVersion(r)

\* All requests have been served, or none can be.
Rest == (\A r \in Requests : ~UnderWay(r)) /\ UNCHANGED vars

Next ==
    \/ \E r \in Requests :
          (\E c \in Calls : Arrive(r, c)) \/ Edit(r) \/ Publish(r) \/ CreateVersion(r) \/ RequestFails(r)
    \/ Rest

Spec == Init /\ [][Next]_vars

-----------------------------------------------------------------------------
(* Properties *)

\* r has changed part n of v.
Edited(r, v, n) ==
    pc[r] = "done" /\ req[r] \in Edits /\ Target(r) = v /\ Part(r) = n

\* What a version said when it was published is what it says: its snapshot
\* differs from its parts only where an edit ran at the same time as the publication.
SnapshotIsContent ==
    \A v \in Versions : compiled[v] # NoSchema =>
        \A n \in Parts :
            \/ compiled[v][n] = content[v][n]
            \/ \E p, r \in Requests : /\ pc[p] = "done" /\ Kind(p) = "publish" /\ Target(p) = v
                                      /\ r \in rivals[p] /\ Edited(r, v, n)

\* A version that is no draft, archived ones included, which no trigger protects,
\* changes only by edits that ran at the same time as its publication or archival.
FrozenButForRivals ==
    [][\A v \in Versions :
          status[v] \in {"published", "archived"} /\ content'[v] # content[v] =>
              \E r, q \in Requests :
                  /\ pc[r] = "written" /\ Target(r) = v /\ q \in rivals[r]
                  /\ pc[q] = "done" /\ Kind(q) \in {"publish", "archive"} /\ Target(q) = v]_vars

\* Versions are numbered without repetition and without gaps, whichever of the
\* requests that read the same maximum commit.
NumbersDense ==
    \A v \in Versions : status[v] # "none" =>
        /\ \A w \in Versions : status[w] # "none" /\ number[w] = number[v] => w = v
        /\ \A k \in 1 .. number[v] : \E w \in Versions : status[w] # "none" /\ number[w] = k

\* A copy says what its source says, but for edits that ran at the same time.
CopyIsSource ==
    [][\A r \in Requests : pc[r] = "cloned" /\ pc'[r] = "done" /\ Kind(r) = "copy" =>
          \A n \in Parts : \/ content'[r][n] = content[Target(r)][n]
                           \/ \E q \in rivals[r] : Edited(q, Target(r), n)]_vars

\* What a publication is about to publish.
Claimed(r) == IF UnderWay(r) /\ Kind(r) = "publish" THEN Target(r) ELSE NoVersion

Atomic == INSTANCE Publication WITH
    Publishers <- Requests,
    claim <- [r \in Requests |-> Claimed(r)]

\* Publications as they are seen here, without the locks of SurveyPublishing, implement
\* Publication as those do: one commit puts the version in place of the one before it.
PublishesAtomically == Atomic!Spec
=============================================================================
