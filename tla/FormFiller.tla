----------------------------- MODULE FormFiller -----------------------------
(***************************************************************************)
(* The form: which question of a survey is asked next, and what the        *)
(* respondent can do about it.                                             *)
(*                                                                         *)
(* Nothing of the flow is stored.  On every change the form walks through  *)
(* the survey from its first node: it evaluates the rules on the current   *)
(* answers, passes the questions that were committed, in the order of the  *)
(* commits, and stops at the first other one.                              *)
(*                                                                         *)
(* The builder's preview walks the survey as it was made.  The page that   *)
(* respondents see walks what was published, in which a question is known  *)
(* by the id of its row.                                                   *)
(***************************************************************************)
EXTENDS Integers, Sequences

CONSTANTS
    Keys,       \* node_key of questions
    NodeId,     \* the id of each question's row
    Values,     \* answers
    Malformed,  \* answers that are not valid, an unfinished address for one
    Empty,      \* answers that were emptied again
    Absent,     \* no answer yet
    Surveys     \* surveys as they were made

VARIABLES
    authored,   \* the survey
    page,       \* where it is shown
    answers,    \* the form
    committed,  \* committedQuestionIds
    progress,   \* deriveSurveyProgress of them
    handed,     \* history: what onAnswerCommit was given last for each question
    left        \* has the page gone on to the submission, or closed the survey?

vars == <<authored, page, answers, committed, progress, handed, left>>

Ids == {NodeId[k] : k \in Keys}

ASSUME FormAssumption ==
    /\ NodeId \in [Keys -> Ids]
    /\ \A k, l \in Keys : NodeId[k] = NodeId[l] => k = l
    /\ Keys \cap Ids = {}
    /\ Malformed \subseteq Values /\ Empty \subseteq Values
    /\ Malformed \cap Empty = {}
    /\ Absent \notin Values

-----------------------------------------------------------------------------
(* The survey: a sequence of questions and rules.  A rule's condition is the  *)
(* set of the answers to its target for which it holds; a branch sets          *)
(* properties of questions, and may go elsewhere.                             *)

QuestionAt(s, i) == s[i].type = "question"

Questions(s) == {s[i].key : i \in {j \in DOMAIN s : QuestionAt(s, j)}}

Actions == {"nothing", "skip_to", "end_and_submit", "end_and_discard"}

\* A question_key is the key of one question of a version (a unique index of Core),
\* and a branch does one thing.
ASSUME SurveyAssumption ==
    \A s \in Surveys :
        /\ s \in Seq({s[i] : i \in DOMAIN s})
        /\ \A i \in DOMAIN s :
              \/ s[i] \in [type : {"question"}, key : Keys]
              \/ s[i].type = "rule" /\ {s[i].then.do, s[i].else.do} \subseteq Actions
        /\ \A i, j \in DOMAIN s :
              QuestionAt(s, i) /\ QuestionAt(s, j) /\ s[i].key = s[j].key => i = j

\* prepareSurvey: where the question k is.
IndexOf(s, k) == CHOOSE i \in DOMAIN s : QuestionAt(s, i) /\ s[i].key = k

\* normalizeNode: a published node has the id of its row, and no node_key.
Normalized(s) ==
    [i \in DOMAIN s |-> IF QuestionAt(s, i) THEN [s[i] EXCEPT !.key = NodeId[@]] ELSE s[i]]

Holds(c, a) == (IF c.target \in DOMAIN a THEN a[c.target] ELSE Absent) \in c.holds

RuleMatches(rule, a) ==
    \/ rule.match = "ALL" /\ \A c \in rule.conditions : Holds(c, a)
    \/ rule.match = "ANY" /\ \E c \in rule.conditions : Holds(c, a)
    \/ rule.match = "NONE" /\ \A c \in rule.conditions : ~Holds(c, a)

\* applyQuestionStateUpdates: the questions of s with the property, those in old
\* before.  Targets that are no questions are passed over.
Updated(s, old, entries, property) ==
    LET Set(to) == {q \in Questions(s) : [target |-> q, property |-> property, to |-> to] \in entries}
    IN  (old \cup Set(TRUE)) \ Set(FALSE)

-----------------------------------------------------------------------------
(* deriveSurveyProgress.  A walk is at a node, has passed some of the committed *)
(* questions c, and knows the questions that are visible and required.        *)

\* Mutant: a question counts as passed as soon as it has an answer.
PassesAnswered(w, k, a, c) == a[k] # Absent

\* The question k is the next of the committed ones.
Passes(w, k, a, c) == w.passed < Len(c) /\ c[w.passed + 1] = k

AtQuestion(w, k, a, c) ==
    IF k \notin w.visible THEN [w EXCEPT !.cursor = @ + 1]
    ELSE IF Passes(w, k, a, c) THEN [w EXCEPT !.cursor = @ + 1, !.passed = @ + 1]
    ELSE [w EXCEPT !.status = "active"]

AtRule(s, w, rule, a) ==
    LET b == IF RuleMatches(rule, a) THEN rule.then ELSE rule.else
        v == [w EXCEPT !.visible = Updated(s, @, b.set, "visible"),
                       !.required = Updated(s, @, b.set, "required")]
    IN  CASE b.do = "nothing" -> [v EXCEPT !.cursor = @ + 1]
          [] b.do = "skip_to" /\ b.to \in Questions(s) -> [v EXCEPT !.cursor = IndexOf(s, b.to)]
          [] b.do = "skip_to" /\ b.to \notin Questions(s) -> [v EXCEPT !.status = "invalid"]
          [] b.do = "end_and_submit" -> [v EXCEPT !.status = "submitted"]
          [] b.do = "end_and_discard" -> [v EXCEPT !.status = "discarded"]

\* The safety counter takes longer walks for loops.
MaxSteps(s) == 4 * Len(s) + 8

\* One turn of the loop; a walk that has ended stays as it is.
Visit(s, a, c, w) ==
    IF w.status # "walking" THEN w
    ELSE IF w.cursor > Len(s) THEN [w EXCEPT !.status = "submitted"]
    ELSE IF QuestionAt(s, w.cursor) THEN AtQuestion(w, s[w.cursor].key, a, c)
    ELSE AtRule(s, w, s[w.cursor], a)

Start(s) ==
    [cursor |-> 1, passed |-> 0, visible |-> Questions(s), required |-> Questions(s),
     status |-> "walking"]

\* The walk after n turns.
Turns(s, a, c) ==
    LET turn[n \in Nat] == IF n = 0 THEN Start(s) ELSE Visit(s, a, c, turn[n - 1])
    IN  turn

\* The safety counter stops a walk that is still at a node.
Counted(s, w) ==
    IF w.status # "walking" THEN w
    ELSE IF w.cursor > Len(s) THEN [w EXCEPT !.status = "submitted"]
    ELSE [w EXCEPT !.status = "invalid"]

Progress(s, a, c) == Counted(s, Turns(s, a, c)[MaxSteps(s)])

-----------------------------------------------------------------------------
(* FormFiller *)

\* The survey that the form is given.
Shown == IF page = "respond" THEN Normalized(authored) ELSE authored

\* Every rendering derives the progress again, from the survey, answers and commits.
Derived == progress' = Progress(Shown, answers', committed')

\* The question that is asked.
Current == Shown[progress.cursor].key

Blank == [q \in Questions(Shown) |-> Absent]

TypeOK ==
    /\ authored \in Surveys
    /\ page \in {"preview", "respond"}
    /\ answers \in [Questions(Shown) -> Values \cup {Absent}]
    /\ committed \in Seq(Questions(Shown)) /\ Len(committed) <= MaxSteps(Shown)
    /\ progress.passed \in 0 .. Len(committed)
    /\ progress.visible \cup progress.required \subseteq Questions(Shown)
    /\ progress.status \in {"active", "submitted", "discarded", "invalid"}
    /\ progress.status = "active" => QuestionAt(Shown, progress.cursor) /\ Current \in progress.visible
    /\ handed \in [Questions(Shown) -> (Values \ Malformed) \cup {Absent}]
    /\ left \in BOOLEAN

Init ==
    /\ authored \in Surveys
    /\ page \in {"preview", "respond"}
    /\ answers = Blank
    /\ committed = <<>>
    /\ progress = Progress(Shown, answers, committed)
    /\ handed = Blank
    /\ left = FALSE

\* handleAnswerChange
Change(v) ==
    /\ ~left /\ progress.status = "active"
    /\ answers' = [answers EXCEPT ![Current] = v]
    /\ UNCHANGED <<authored, page, committed, handed, left>>
    /\ Derived

\* validateQuestionAnswer
Acceptable(q) ==
    /\ answers[q] \notin Malformed
    /\ answers[q] \in Empty \cup {Absent} => q \notin progress.required

\* Mutant: the question is committed behind those that the walk has not passed.
ContinueUntrimmed ==
    /\ ~left /\ progress.status = "active"
    /\ Acceptable(Current)
    /\ handed' = [handed EXCEPT ![Current] = IF answers[Current] = Absent THEN @ ELSE answers[Current]]
    /\ committed' = Append(committed, Current)
    /\ UNCHANGED <<authored, page, answers, left>>
    /\ Derived

\* Mutant: the answer to a question is handed over once.
ContinueOnce ==
    /\ ~left /\ progress.status = "active"
    /\ Acceptable(Current)
    /\ handed' = [handed EXCEPT ![Current] = IF @ = Absent THEN answers[Current] ELSE @]
    /\ committed' = Append(SubSeq(committed, 1, progress.passed), Current)
    /\ UNCHANGED <<authored, page, answers, left>>
    /\ Derived

\* handleContinue.  An answer that was emptied is handed over (the page sends none).
Continue ==
    /\ ~left /\ progress.status = "active"
    /\ Acceptable(Current)
    /\ handed' = [handed EXCEPT ![Current] = IF answers[Current] = Absent THEN @ ELSE answers[Current]]
    /\ committed' = Append(SubSeq(committed, 1, progress.passed), Current)
    /\ UNCHANGED <<authored, page, answers, left>>
    /\ Derived

\* handleBack, from a question or from the review of the answers.
Back ==
    /\ ~left
    /\ \/ progress.status = "active" /\ progress.passed > 0
       \/ progress.status = "submitted" /\ page = "respond"
    /\ committed' = SubSeq(committed, 1, progress.passed - 1)
    /\ UNCHANGED <<authored, page, answers, handed, left>>
    /\ Derived

\* handleRestart
Restart ==
    /\ ~left
    /\ \/ progress.status = "invalid"
       \/ progress.status \in {"submitted", "discarded"} /\ page = "preview"
    /\ answers' = Blank
    /\ committed' = <<>>
    /\ UNCHANGED <<authored, page, handed, left>>
    /\ Derived

\* The respondent confirms the submission, or a rule has closed the survey.
Complete ==
    /\ ~left /\ progress.status \in {"submitted", "discarded"} /\ page = "respond"
    /\ left' = TRUE
    /\ UNCHANGED <<authored, page, answers, committed, progress, handed>>

Rest == left /\ UNCHANGED vars

Next ==
    \/ \E v \in Values : Change(v)
    \/ Continue \/ Back \/ Restart \/ Complete
    \/ Rest

Spec == Init /\ [][Next]_vars

-----------------------------------------------------------------------------
(* Properties *)

Targets(b) == {e.target : e \in b.set} \cup (IF b.do = "skip_to" THEN {b.to} ELSE {})

\* validateRuleContent, validateBranchReferences: conditions on earlier questions,
\* effects on later ones.
Orderly(s) ==
    \A i \in DOMAIN s : ~QuestionAt(s, i) =>
        /\ \A c \in s[i].conditions : \E j \in 1 .. i - 1 : QuestionAt(s, j) /\ s[j].key = c.target
        /\ \A k \in Targets(s[i].then) \cup Targets(s[i].else) :
              \E j \in i + 1 .. Len(s) : QuestionAt(s, j) /\ s[j].key = k

\* What the respondent reviews and submits is what was handed over to be saved,
\* whatever way they took through the survey, back and forth (FormFiller and the
\* saves of RespondPage).
ReviewedIsHanded ==
    Orderly(authored) =>
        \A i \in 1 .. progress.passed :
            answers[committed[i]] # Absent => handed[committed[i]] = answers[committed[i]]

\* While a question is being answered the form stays with it: no rule takes the
\* respondent away, ends the survey, or drops what was committed before they continue.
TypingStays ==
    [][progress.status = "active" /\ committed' = committed /\ answers' # answers /\ Orderly(authored) =>
          progress' = progress]_vars

Stack == INSTANCE Questionnaire WITH
    Nodes <- Keys \cup Ids,
    trail <- committed,
    asked <- IF progress.status = "active" THEN {Current} ELSE {}

\* However the walk is derived anew, an orderly survey is a stack of questions: each
\* continue passes the question that was asked and no other, each step back returns to
\* the one passed last, and nothing else moves the respondent.
ActsAsStack ==
    /\ Orderly(authored) => Stack!Init
    /\ [][Orderly(authored) => Stack!Next \/ UNCHANGED Stack!vars]_vars

\* As the comment above prepareSurvey has it, nodes are known by the node_key that
\* rules refer to: the respondent is led through the survey as its author was in the
\* preview.
RespondentFollowsRules ==
    page = "respond" /\ Orderly(authored) =>
        LET author == Progress(authored, [k \in Questions(authored) |-> answers[NodeId[k]]],
                               [i \in DOMAIN committed |-> CHOOSE k \in Keys : NodeId[k] = committed[i]])
        IN  progress.status = author.status /\ progress.cursor = author.cursor
=============================================================================
