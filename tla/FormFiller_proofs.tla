-------------------------- MODULE FormFiller_proofs --------------------------
(***************************************************************************)
(* Proofs about FormFiller: what the walk computes for every survey, that  *)
(* typing leaves it alone, and that what is reviewed was handed over.      *)
(*                                                                         *)
(* The walk is a recursive function of the number of turns.  Facts about   *)
(* all its turns are shown by induction, which is stated here for sets of  *)
(* natural numbers (a fact that the provers can instantiate).              *)
(***************************************************************************)
EXTENDS FormFiller, WellFoundedInduction, TLAPS

\* A set of natural numbers that is not empty has a least member.
LEMMA LeastMember ==
    ASSUME NEW T \in SUBSET Nat, T # {}
    PROVE  \E x \in T : \A y \in T : x <= y
<1> DEFINE R == OpToRel(<, Nat)
<1>1. IsWellFoundedOn(R, Nat)
  BY NatLessThanWellFounded
<1>2. \A a, b \in Nat : a < b => <<a, b>> \in R
  BY DEF OpToRel
<1> HIDE DEF R
<1>3. PICK x \in T : \A y \in T : <<y, x>> \notin R
  BY <1>1, WFMin
<1>4. \A y \in T : ~ (y < x)
  BY <1>2, <1>3, Zenon
<1> QED
  BY <1>4

\* Induction: a set with 0 and the successors of its members has every natural number.
LEMMA Induction ==
    ASSUME NEW S \in SUBSET Nat, 0 \in S, \A n \in S : n + 1 \in S
    PROVE  S = Nat
<1> SUFFICES ASSUME Nat \ S # {} PROVE FALSE
  OBVIOUS
<1>1. PICK x \in Nat \ S : \A y \in Nat \ S : x <= y
  BY LeastMember
<1>2. x - 1 \in S
  BY <1>1
<1> QED
  BY <1>1, <1>2

-----------------------------------------------------------------------------
(* The turns of a walk *)

\* g is the walk, up to m turns.
Partial(s, a, c, g, m) ==
    g = [n \in 0 .. m |-> IF n = 0 THEN Start(s) ELSE Visit(s, a, c, g[n - 1])]

\* Two beginnings of the walk agree.
LEMMA PartialsAgree ==
    ASSUME NEW s, NEW a, NEW c, NEW m \in Nat, NEW k \in Nat, NEW g, NEW h,
           Partial(s, a, c, g, m), Partial(s, a, c, h, k)
    PROVE  \A n \in Nat : n <= m /\ n <= k => g[n] = h[n]
<1> DEFINE S == {n \in Nat : n <= m /\ n <= k => g[n] = h[n]}
<1>1. 0 \in S
  BY DEF Partial
<1>2. ASSUME NEW n \in S PROVE n + 1 \in S
  <2> SUFFICES ASSUME n + 1 <= m, n + 1 <= k PROVE g[n + 1] = h[n + 1]
    OBVIOUS
  <2>1. g[n] = h[n]
    OBVIOUS
  <2>2. g[n + 1] = Visit(s, a, c, g[n]) /\ h[n + 1] = Visit(s, a, c, h[n])
    BY DEF Partial
  <2> QED
    BY <2>1, <2>2
<1> HIDE DEF S
<1>3. S = Nat
  <2>1. S \in SUBSET Nat
    BY DEF S
  <2> QED
    BY <1>1, <1>2, <2>1, Induction
<1> QED
  BY <1>3 DEF S

\* Every beginning of the walk exists.
LEMMA PartialsExist ==
    ASSUME NEW s, NEW a, NEW c
    PROVE  \A m \in Nat : \E g : Partial(s, a, c, g, m)
<1> DEFINE S == {m \in Nat : \E g : Partial(s, a, c, g, m)}
<1>1. 0 \in S
  <2> DEFINE g == [n \in 0 .. 0 |-> Start(s)]
  <2>1. Partial(s, a, c, g, 0)
    BY DEF Partial
  <2> QED
    BY <2>1
<1>2. ASSUME NEW m \in S PROVE m + 1 \in S
  <2>1. PICK g : Partial(s, a, c, g, m)
    OBVIOUS
  <2> DEFINE h == [n \in 0 .. m + 1 |-> IF n <= m THEN g[n] ELSE Visit(s, a, c, g[m])]
  <2>2. \A n \in 0 .. m + 1 : h[n] = IF n = 0 THEN Start(s) ELSE Visit(s, a, c, h[n - 1])
    <3> TAKE n \in 0 .. m + 1
    <3>1. CASE n = 0
      BY <2>1, <3>1 DEF Partial
    <3>2. CASE n # 0 /\ n <= m
      <4>1. n - 1 \in 0 .. m /\ n - 1 \in 0 .. m + 1 /\ n \in 0 .. m
        BY <3>2
      <4>2. h[n] = g[n] /\ h[n - 1] = g[n - 1]
        BY <3>2, <4>1
      <4>3. g[n] = Visit(s, a, c, g[n - 1])
        BY <2>1, <3>2, <4>1 DEF Partial
      <4> QED
        BY <3>2, <4>2, <4>3
    <3>3. CASE n = m + 1
      BY <3>3
    <3> QED
      BY <3>1, <3>2, <3>3
  <2>3. Partial(s, a, c, h, m + 1)
    BY <2>2 DEF Partial
  <2> QED
    BY <2>3
<1> HIDE DEF S
<1>3. S = Nat
  <2>1. S \in SUBSET Nat
    BY DEF S
  <2> QED
    BY <1>1, <1>2, <2>1, Induction
<1> QED
  BY <1>3 DEF S

\* Turns is what its recursion says: the walk starts at the first node, and each
\* turn visits the node where the last one has left it.
LEMMA TurnsVisit ==
    ASSUME NEW s, NEW a, NEW c
    PROVE  /\ Turns(s, a, c)[0] = Start(s)
           /\ \A n \in Nat : Turns(s, a, c)[n + 1] = Visit(s, a, c, Turns(s, a, c)[n])
<1> DEFINE P(n) == CHOOSE g : Partial(s, a, c, g, n)
           f == [n \in Nat |-> P(n)[n]]
<1>1. \A n \in Nat : Partial(s, a, c, P(n), n)
  BY PartialsExist
<1> HIDE DEF P
<1>2. f[0] = Start(s)
  BY <1>1 DEF Partial
<1>3. ASSUME NEW n \in Nat PROVE f[n + 1] = Visit(s, a, c, f[n])
  <2>1. P(n + 1)[n + 1] = Visit(s, a, c, P(n + 1)[n])
    BY <1>1 DEF Partial
  <2>2. P(n + 1)[n] = P(n)[n]
    BY <1>1, PartialsAgree
  <2> QED
    BY <2>1, <2>2
<1>4. f = [n \in Nat |-> IF n = 0 THEN Start(s) ELSE Visit(s, a, c, f[n - 1])]
  <2>1. \A n \in Nat : f[n] = IF n = 0 THEN Start(s) ELSE Visit(s, a, c, f[n - 1])
    <3> TAKE n \in Nat
    <3>1. CASE n = 0
      BY <1>2, <3>1
    <3>2. CASE n # 0
      <4>1. n - 1 \in Nat /\ (n - 1) + 1 = n
        BY <3>2
      <4>2. f[(n - 1) + 1] = Visit(s, a, c, f[n - 1])
        BY <1>3, <4>1
      <4> QED
        BY <3>2, <4>1, <4>2
    <3> QED
      BY <3>1, <3>2
  <2> QED
    BY <2>1
<1> HIDE DEF f
<1> DEFINE t == Turns(s, a, c)
<1>5. t = [n \in Nat |-> IF n = 0 THEN Start(s) ELSE Visit(s, a, c, t[n - 1])]
  BY <1>4 DEF Turns
<1> HIDE DEF t
<1>6. t[0] = Start(s) /\ \A n \in Nat : t[n + 1] = Visit(s, a, c, t[n])
  BY <1>5
<1> QED
  BY <1>6 DEF t

-----------------------------------------------------------------------------
(* Surveys *)

\* What the walk needs of a survey, as it was made or as it was published.
Shape(s) ==
    /\ Len(s) \in Nat /\ DOMAIN s = 1 .. Len(s)
    /\ \A i \in DOMAIN s : QuestionAt(s, i) \/ {s[i].then.do, s[i].else.do} \subseteq Actions
    /\ \A i, j \in DOMAIN s :
          QuestionAt(s, i) /\ QuestionAt(s, j) /\ s[i].key = s[j].key => i = j

\* The targets of its rules in terms of where they are: a rule reads earlier questions
\* and skips to later ones.
ReadsBack(s) ==
    \A i, j \in DOMAIN s : ~QuestionAt(s, i) /\ QuestionAt(s, j) =>
        \A d \in s[i].conditions : d.target = s[j].key => j < i

SkipsAhead(s) ==
    \A i, j \in DOMAIN s : ~QuestionAt(s, i) /\ QuestionAt(s, j) =>
        \A b \in {s[i].then, s[i].else} : b.do = "skip_to" /\ b.to = s[j].key => i < j

\* normalizeNode leaves the rules as they are and renames the questions.
LEMMA NormalizedNodes ==
    ASSUME NEW s \in Surveys
    PROVE  /\ DOMAIN Normalized(s) = DOMAIN s /\ Len(Normalized(s)) = Len(s)
           /\ Len(s) \in Nat /\ DOMAIN s = 1 .. Len(s)
           /\ \A i \in DOMAIN s :
                 IF QuestionAt(s, i)
                 THEN /\ QuestionAt(Normalized(s), i) /\ s[i].key \in Keys
                      /\ Normalized(s)[i].key = NodeId[s[i].key]
                 ELSE Normalized(s)[i] = s[i] /\ ~QuestionAt(Normalized(s), i)
<1> DEFINE N == Normalized(s)
<1>1. s \in Seq({s[i] : i \in DOMAIN s})
  BY SurveyAssumption
<1>2. Len(s) \in Nat /\ DOMAIN s = 1 .. Len(s)
  BY <1>1
<1>3. DOMAIN N = 1 .. Len(s)
  BY <1>2 DEF Normalized
<1>4. \A i \in DOMAIN s : N[i] = IF QuestionAt(s, i) THEN [s[i] EXCEPT !.key = NodeId[@]] ELSE s[i]
  BY DEF Normalized
<1>5. N \in Seq({N[i] : i \in 1 .. Len(s)})
  BY <1>2 DEF Normalized
<1>6. Len(N) = Len(s)
  BY <1>2, <1>3, <1>5
<1>7. ASSUME NEW i \in DOMAIN s, QuestionAt(s, i)
      PROVE  QuestionAt(N, i) /\ s[i].key \in Keys /\ N[i].key = NodeId[s[i].key]
  <2>1. s[i] \in [type : {"question"}, key : Keys]
    BY <1>7, SurveyAssumption DEF QuestionAt
  <2> QED
    BY <1>4, <1>7, <2>1 DEF QuestionAt
<1>8. ASSUME NEW i \in DOMAIN s, ~QuestionAt(s, i) PROVE N[i] = s[i] /\ ~QuestionAt(N, i)
  BY <1>4, <1>8 DEF QuestionAt
<1> QED
  BY <1>2, <1>3, <1>6, <1>7, <1>8

LEMMA Shapes ==
    ASSUME NEW s \in Surveys
    PROVE  /\ Shape(s) /\ Shape(Normalized(s))
           /\ Questions(s) \subseteq Keys /\ Questions(Normalized(s)) \subseteq Ids
<1>0. PICK N : N = Normalized(s)
  OBVIOUS
<1>1. DOMAIN N = DOMAIN s /\ Len(N) = Len(s) /\ Len(s) \in Nat /\ DOMAIN s = 1 .. Len(s)
  BY <1>0, NormalizedNodes
<1>2. \A i \in DOMAIN s :
        /\ QuestionAt(N, i) <=> QuestionAt(s, i)
        /\ QuestionAt(s, i) => s[i].key \in Keys /\ N[i].key = NodeId[s[i].key]
        /\ ~QuestionAt(s, i) => N[i] = s[i]
  BY <1>0, NormalizedNodes
<1>3. \A i \in DOMAIN s : QuestionAt(s, i) \/ {s[i].then.do, s[i].else.do} \subseteq Actions
  BY SurveyAssumption DEF QuestionAt
<1>4. \A i, j \in DOMAIN s : QuestionAt(s, i) /\ QuestionAt(s, j) /\ s[i].key = s[j].key => i = j
  BY SurveyAssumption
<1>5. \A i, j \in DOMAIN s : QuestionAt(s, i) /\ QuestionAt(s, j) /\ N[i].key = N[j].key => i = j
  BY <1>2, <1>4, FormAssumption DEF QuestionAt
<1>6. Shape(s)
  BY <1>1, <1>3, <1>4 DEF Shape, QuestionAt
<1>7. Shape(N)
  BY <1>1, <1>2, <1>3, <1>5 DEF Shape, QuestionAt
<1>8. Questions(s) \subseteq Keys
  BY <1>2 DEF Questions, QuestionAt
<1>9. Questions(N) \subseteq Ids
  BY <1>1, <1>2 DEF Questions, QuestionAt, Ids
<1> QED
  BY <1>0, <1>6, <1>7, <1>8, <1>9

\* What the builder's import demands of rules gives the order of positions; for what was
\* published too, whose rules find none of the questions.
LEMMA OrderlyPositions ==
    ASSUME NEW s \in Surveys, Orderly(s)
    PROVE  /\ ReadsBack(s) /\ SkipsAhead(s)
           /\ ReadsBack(Normalized(s)) /\ SkipsAhead(Normalized(s))
<1>0. PICK N : N = Normalized(s)
  OBVIOUS
<1>1. DOMAIN N = DOMAIN s /\ Len(s) \in Nat /\ DOMAIN s = 1 .. Len(s)
  BY <1>0, NormalizedNodes
<1>2. \A i \in DOMAIN s :
        /\ QuestionAt(N, i) <=> QuestionAt(s, i)
        /\ QuestionAt(s, i) => s[i].key \in Keys /\ N[i].key = NodeId[s[i].key]
        /\ ~QuestionAt(s, i) => N[i] = s[i]
  BY <1>0, NormalizedNodes
<1>3. \A i, j \in DOMAIN s : QuestionAt(s, i) /\ QuestionAt(s, j) /\ s[i].key = s[j].key => i = j
  BY SurveyAssumption
<1>4. ASSUME NEW i \in DOMAIN s, ~QuestionAt(s, i), NEW d \in s[i].conditions
      PROVE  \E j \in DOMAIN s : j < i /\ QuestionAt(s, j) /\ s[j].key = d.target
  <2>1. \E j \in 1 .. i - 1 : QuestionAt(s, j) /\ s[j].key = d.target
    BY <1>4 DEF Orderly
  <2> QED
    BY <1>1, <2>1
<1>5. ASSUME NEW i \in DOMAIN s, ~QuestionAt(s, i), NEW b \in {s[i].then, s[i].else}, b.do = "skip_to"
      PROVE  \E j \in DOMAIN s : i < j /\ QuestionAt(s, j) /\ s[j].key = b.to
  <2>1. b.to \in Targets(s[i].then) \cup Targets(s[i].else)
    BY <1>5 DEF Targets
  <2>2. \E j \in i + 1 .. Len(s) : QuestionAt(s, j) /\ s[j].key = b.to
    BY <1>5, <2>1 DEF Orderly
  <2> QED
    BY <1>1, <2>2
<1>6. \A k \in Keys : NodeId[k] \notin Keys
  BY FormAssumption DEF Ids
<1>7. ReadsBack(s)
  BY <1>3, <1>4 DEF ReadsBack
<1>8. SkipsAhead(s)
  BY <1>3, <1>5 DEF SkipsAhead
<1>9. ReadsBack(N)
  <2> SUFFICES ASSUME NEW i \in DOMAIN s, NEW j \in DOMAIN s, ~QuestionAt(s, i), QuestionAt(s, j),
                      NEW d \in s[i].conditions, d.target = N[j].key
               PROVE  FALSE
    BY <1>1, <1>2 DEF ReadsBack, QuestionAt
  <2>1. d.target \in Keys
    BY <1>2, <1>4 DEF QuestionAt
  <2> QED
    BY <1>2, <1>6, <2>1 DEF QuestionAt
<1>10. SkipsAhead(N)
  <2> SUFFICES ASSUME NEW i \in DOMAIN s, NEW j \in DOMAIN s, ~QuestionAt(s, i), QuestionAt(s, j),
                      NEW b \in {s[i].then, s[i].else}, b.do = "skip_to", b.to = N[j].key
               PROVE  FALSE
    BY <1>1, <1>2 DEF SkipsAhead, QuestionAt
  <2>1. b.to \in Keys
    BY <1>2, <1>5 DEF QuestionAt
  <2> QED
    BY <1>2, <1>6, <2>1 DEF QuestionAt
<1> QED
  BY <1>0, <1>7, <1>8, <1>9, <1>10

-----------------------------------------------------------------------------
(* One turn *)

Walks(s, c) ==
    [cursor : 1 .. Len(s) + 1, passed : 0 .. Len(c),
     visible : SUBSET Questions(s), required : SUBSET Questions(s),
     status : {"walking", "active", "submitted", "discarded", "invalid"}]

\* The question that is asked is a visible one.
Asks(s, w) ==
    w.cursor \in DOMAIN s /\ QuestionAt(s, w.cursor) /\ s[w.cursor].key \in w.visible

\* The walk v comes from w by passing a question.
PassedOne(s, c, w, v) ==
    /\ w.cursor \in DOMAIN s /\ QuestionAt(s, w.cursor)
    /\ v.passed = w.passed + 1 /\ v.cursor = w.cursor + 1
    /\ c[v.passed] = s[w.cursor].key

\* A question is found where it is.
LEMMA QuestionFound ==
    ASSUME NEW s, NEW k \in Questions(s)
    PROVE  IndexOf(s, k) \in DOMAIN s /\ QuestionAt(s, IndexOf(s, k)) /\ s[IndexOf(s, k)].key = k
<1>1. \E i \in DOMAIN s : QuestionAt(s, i) /\ s[i].key = k
  BY DEF Questions
<1> QED
  BY <1>1 DEF IndexOf

LEMMA UpdatedQuestions ==
    ASSUME NEW s, NEW old \in SUBSET Questions(s), NEW entries, NEW property
    PROVE  Updated(s, old, entries, property) \in SUBSET Questions(s)
BY DEF Updated

\* A walk goes to a node, or ends.
LEMMA Moved ==
    ASSUME NEW s, NEW c, NEW w \in Walks(s, c), NEW i \in 1 .. Len(s) + 1,
           NEW v, v = [w EXCEPT !.cursor = i]
    PROVE  /\ v \in Walks(s, c) /\ v.cursor = i /\ v.passed = w.passed
           /\ v.visible = w.visible /\ v.status = w.status
BY DEF Walks

LEMMA Marked ==
    ASSUME NEW s, NEW c, NEW w \in Walks(s, c), NEW st \in {"active", "submitted", "discarded", "invalid"},
           NEW v, v = [w EXCEPT !.status = st]
    PROVE  /\ v \in Walks(s, c) /\ v.cursor = w.cursor /\ v.passed = w.passed
           /\ v.visible = w.visible /\ v.status = st
BY DEF Walks

LEMMA QuestionTurn ==
    ASSUME NEW s, NEW a, NEW c, Shape(s), Len(c) \in Nat,
           NEW w \in Walks(s, c), w.status = "walking", w.cursor \in DOMAIN s, QuestionAt(s, w.cursor),
           NEW v, v = Visit(s, a, c, w)
    PROVE  \/ /\ v.status = "active" /\ v.cursor = w.cursor /\ v.passed = w.passed
              /\ Asks(s, v) /\ v \in Walks(s, c)
           \/ /\ v.status = "walking" /\ v.cursor = w.cursor + 1
              /\ v.passed = w.passed \/ PassedOne(s, c, w, v)
              /\ v \in Walks(s, c)
<1>1. v = AtQuestion(w, s[w.cursor].key, a, c)
  BY DEF Visit, Shape
<1>2. Len(s) \in Nat /\ w.cursor \in 1 .. Len(s) /\ w.cursor + 1 \in 1 .. Len(s) + 1
  BY DEF Shape
<1>3. CASE s[w.cursor].key \notin w.visible
  <2>1. v = [w EXCEPT !.cursor = w.cursor + 1]
    BY <1>1, <1>3 DEF AtQuestion
  <2> QED
    BY <1>2, <2>1, Moved
<1>4. CASE s[w.cursor].key \in w.visible /\ Passes(w, s[w.cursor].key, a, c)
  <2>1. v = [w EXCEPT !.cursor = @ + 1, !.passed = @ + 1]
    BY <1>1, <1>4 DEF AtQuestion
  <2>2. w.passed < Len(c) /\ c[w.passed + 1] = s[w.cursor].key
    BY <1>4 DEF Passes
  <2>3. v \in Walks(s, c) /\ v.status = "walking" /\ v.cursor = w.cursor + 1 /\ v.passed = w.passed + 1
    <3>1. PICK u : u = [w EXCEPT !.cursor = w.cursor + 1]
      OBVIOUS
    <3>2. u \in Walks(s, c) /\ u.cursor = w.cursor + 1 /\ u.passed = w.passed /\ u.status = "walking"
      BY <1>2, <3>1, Moved
    <3>3. v = [u EXCEPT !.passed = w.passed + 1]
      BY <2>1, <3>1 DEF Walks
    <3>4. w.passed + 1 \in 0 .. Len(c)
      BY <2>2 DEF Walks
    <3> QED
      BY <3>2, <3>3, <3>4 DEF Walks
  <2> QED
    BY <2>2, <2>3 DEF PassedOne
<1>5. CASE s[w.cursor].key \in w.visible /\ ~Passes(w, s[w.cursor].key, a, c)
  <2>1. v = [w EXCEPT !.status = "active"]
    BY <1>1, <1>5 DEF AtQuestion
  <2>2. v \in Walks(s, c) /\ v.status = "active" /\ v.cursor = w.cursor /\ v.passed = w.passed
        /\ v.visible = w.visible
    BY <2>1, Marked
  <2> QED
    BY <1>5, <2>2 DEF Asks
<1> QED
  BY <1>3, <1>4, <1>5

LEMMA RuleTurn ==
    ASSUME NEW s, NEW a, NEW c, Shape(s), Len(c) \in Nat,
           NEW w \in Walks(s, c), w.status = "walking", w.cursor \in DOMAIN s, ~QuestionAt(s, w.cursor),
           NEW v, v = Visit(s, a, c, w)
    PROVE  /\ v \in Walks(s, c) /\ v.passed = w.passed /\ v.status # "active"
           /\ v.status # "walking" => v.cursor = w.cursor
           /\ SkipsAhead(s) /\ v.status = "walking" => w.cursor < v.cursor
           /\ v.status = "invalid" => \E b \in {s[w.cursor].then, s[w.cursor].else} :
                                        b.do = "skip_to" /\ b.to \notin Questions(s)
<1> DEFINE rule == s[w.cursor]
<1>1. PICK b : b = IF RuleMatches(rule, a) THEN rule.then ELSE rule.else
  OBVIOUS
<1>2. b \in {rule.then, rule.else} /\ b.do \in Actions
  BY <1>1 DEF Shape
<1>3. PICK u : u = [w EXCEPT !.visible = Updated(s, @, b.set, "visible"),
                             !.required = Updated(s, @, b.set, "required")]
  OBVIOUS
<1>4. u \in Walks(s, c) /\ u.cursor = w.cursor /\ u.passed = w.passed /\ u.status = "walking"
  <2>1. Updated(s, w.visible, b.set, "visible") \in SUBSET Questions(s)
    BY UpdatedQuestions DEF Walks
  <2>2. Updated(s, w.required, b.set, "required") \in SUBSET Questions(s)
    BY UpdatedQuestions DEF Walks
  <2> QED
    BY <1>3, <2>1, <2>2 DEF Walks
<1>5. v = CASE b.do = "nothing" -> [u EXCEPT !.cursor = @ + 1]
            [] b.do = "skip_to" /\ b.to \in Questions(s) -> [u EXCEPT !.cursor = IndexOf(s, b.to)]
            [] b.do = "skip_to" /\ b.to \notin Questions(s) -> [u EXCEPT !.status = "invalid"]
            [] b.do = "end_and_submit" -> [u EXCEPT !.status = "submitted"]
            [] b.do = "end_and_discard" -> [u EXCEPT !.status = "discarded"]
  <2>1. v = AtRule(s, w, rule, a)
    BY DEF Visit, Shape
  <2> QED
    BY <1>1, <1>3, <2>1 DEF AtRule
<1>6. Len(s) \in Nat /\ w.cursor \in 1 .. Len(s) /\ DOMAIN s = 1 .. Len(s)
  BY DEF Shape
<1>7. CASE b.do = "nothing"
  <2>1. v = [u EXCEPT !.cursor = w.cursor + 1]
    BY <1>4, <1>5, <1>7
  <2>2. w.cursor + 1 \in 1 .. Len(s) + 1 /\ w.cursor < w.cursor + 1
    BY <1>6
  <2> QED
    BY <1>4, <2>1, <2>2, Moved
<1>8. CASE b.do = "skip_to" /\ b.to \in Questions(s)
  <2>1. v = [u EXCEPT !.cursor = IndexOf(s, b.to)]
    BY <1>5, <1>8
  <2>2. IndexOf(s, b.to) \in DOMAIN s /\ QuestionAt(s, IndexOf(s, b.to)) /\ s[IndexOf(s, b.to)].key = b.to
    BY <1>8, QuestionFound
  <2>3. SkipsAhead(s) => w.cursor < IndexOf(s, b.to)
    BY <1>2, <1>8, <2>2 DEF SkipsAhead
  <2>4. IndexOf(s, b.to) \in 1 .. Len(s) + 1
    BY <1>6, <2>2
  <2> QED
    BY <1>4, <2>1, <2>3, <2>4, Moved
<1>9. CASE b.do \in {"end_and_submit", "end_and_discard"}
  <2>1. PICK st \in {"submitted", "discarded"} : v = [u EXCEPT !.status = st]
    BY <1>5, <1>9
  <2> QED
    BY <1>4, <2>1, Marked
<1>10. CASE b.do = "skip_to" /\ b.to \notin Questions(s)
  <2>1. v = [u EXCEPT !.status = "invalid"]
    BY <1>5, <1>10
  <2> QED
    BY <1>2, <1>4, <1>10, <2>1, Marked
<1> QED
  BY <1>2, <1>7, <1>8, <1>9, <1>10 DEF Actions

\* What one turn can do to a walk.
LEMMA Turn ==
    ASSUME NEW s, NEW a, NEW c, Shape(s), Len(c) \in Nat, NEW w \in Walks(s, c),
           NEW v, v = Visit(s, a, c, w)
    PROVE  /\ v \in Walks(s, c)
           /\ w.status # "walking" => v = w
           /\ v.passed = w.passed \/ (PassedOne(s, c, w, v) /\ v.status = "walking")
           /\ v.status = "active" /\ w.status = "walking" => Asks(s, v)
           /\ SkipsAhead(s) => w.cursor <= v.cursor
           /\ SkipsAhead(s) /\ v.status = "walking" => w.cursor < v.cursor
<1>0. w.cursor \in Nat /\ Len(s) \in Nat
  BY DEF Walks, Shape
<1>1. CASE w.status # "walking"
  <2>1. v = w /\ w.cursor \in Nat
    BY <1>0, <1>1 DEF Visit
  <2> QED
    BY <1>1, <2>1
<1>2. CASE w.status = "walking" /\ w.cursor > Len(s)
  <2>1. v = [w EXCEPT !.status = "submitted"]
    BY <1>2 DEF Visit
  <2>2. /\ v \in Walks(s, c) /\ v.cursor = w.cursor /\ v.passed = w.passed
        /\ v.status = "submitted"
    BY <2>1, Marked
  <2> QED
    BY <1>0, <1>2, <2>2
<1>3. CASE w.status = "walking" /\ w.cursor <= Len(s)
  <2>1. w.cursor \in DOMAIN s /\ w.cursor \in Nat
    BY <1>3 DEF Walks, Shape
  <2>2. CASE QuestionAt(s, w.cursor)
    BY <1>3, <2>1, <2>2, QuestionTurn
  <2>3. CASE ~QuestionAt(s, w.cursor)
    <3>1. /\ v \in Walks(s, c) /\ v.passed = w.passed /\ v.status # "active"
          /\ v.status # "walking" => v.cursor = w.cursor
          /\ SkipsAhead(s) /\ v.status = "walking" => w.cursor < v.cursor
      BY <1>3, <2>1, <2>3, RuleTurn
    <3>2. v.cursor \in Nat
      BY <1>0, <3>1 DEF Walks
    <3> QED
      BY <1>0, <1>3, <3>1, <3>2
  <2> QED
    BY <2>2, <2>3
<1> QED
  BY <1>0, <1>1, <1>2, <1>3

-----------------------------------------------------------------------------
(* All turns *)

LEMMA TurnTypes ==
    ASSUME NEW s, NEW a, NEW c, Shape(s), Len(c) \in Nat, NEW n \in Nat
    PROVE  LET w == Turns(s, a, c)[n]
           IN  /\ w \in Walks(s, c) /\ w.passed <= n
               /\ w.status # "walking" => w.passed < n
               /\ w.status = "active" => Asks(s, w)
<1> DEFINE T == Turns(s, a, c)
           Good(k) == /\ T[k] \in Walks(s, c) /\ T[k].passed <= k
                      /\ T[k].status # "walking" => T[k].passed < k
                      /\ T[k].status = "active" => Asks(s, T[k])
           S == {k \in Nat : Good(k)}
<1>1. T[0] = Start(s) /\ \A k \in Nat : T[k + 1] = Visit(s, a, c, T[k])
  BY TurnsVisit
<1> HIDE DEF T
<1>2. 0 \in S
  <2>1. Start(s) \in Walks(s, c) /\ Start(s).passed = 0 /\ Start(s).status = "walking"
    BY DEF Start, Walks, Shape
  <2>2. Good(0)
    BY <1>1, <2>1
  <2> QED
    BY <2>2
<1>3. ASSUME NEW k \in S PROVE k + 1 \in S
  <2>1. PICK w : w = T[k]
    OBVIOUS
  <2>2. PICK v : v = T[k + 1]
    OBVIOUS
  <2>3. v = Visit(s, a, c, w)
    BY <1>1, <2>1, <2>2
  <2>4. /\ w \in Walks(s, c) /\ w.passed <= k
        /\ w.status # "walking" => w.passed < k
        /\ w.status = "active" => Asks(s, w)
    BY <2>1
  <2>5. /\ v \in Walks(s, c)
        /\ w.status # "walking" => v = w
        /\ v.passed = w.passed \/ (v.passed = w.passed + 1 /\ v.status = "walking")
        /\ v.status = "active" /\ w.status = "walking" => Asks(s, v)
    BY <2>3, <2>4, Turn DEF PassedOne
  <2>6. w.passed \in Nat
    BY <2>4 DEF Walks
  <2>7. v.passed <= k + 1 /\ (v.status # "walking" => v.passed < k + 1)
    BY <2>4, <2>5, <2>6
  <2>8. v.status = "active" => Asks(s, v)
    BY <2>4, <2>5
  <2>9. Good(k + 1)
    BY <2>2, <2>5, <2>7, <2>8
  <2> QED
    BY <2>9
<1> HIDE DEF S
<1>4. S = Nat
  <2>1. S \in SUBSET Nat
    BY DEF S
  <2> QED
    BY <1>2, <1>3, <2>1, Induction
<1> QED
  BY <1>4 DEF S, T

\* A walk whose rules skip ahead only never goes back.
LEMMA NeverBack ==
    ASSUME NEW s, NEW a, NEW c, Shape(s), Len(c) \in Nat, SkipsAhead(s), NEW m \in Nat, NEW n \in 0 .. m
    PROVE  Turns(s, a, c)[n].cursor <= Turns(s, a, c)[m].cursor
<1> DEFINE T == Turns(s, a, c)
           S == {k \in Nat : n <= k => T[n].cursor <= T[k].cursor}
<1>1. \A k \in Nat : T[k] \in Walks(s, c) /\ T[k].cursor \in Nat /\ T[k].cursor <= T[k + 1].cursor
  <2> TAKE k \in Nat
  <2>1. T[k] \in Walks(s, c) /\ T[k + 1] = Visit(s, a, c, T[k])
    BY TurnTypes, TurnsVisit
  <2>2. T[k].cursor <= T[k + 1].cursor
    BY <2>1, Turn
  <2> QED
    BY <2>1, <2>2 DEF Walks, Shape
<1> HIDE DEF T
<1>0. n \in Nat
  OBVIOUS
<1>2. 0 \in S
  BY <1>0, <1>1
<1>3. ASSUME NEW k \in S PROVE k + 1 \in S
  <2>0. k \in Nat /\ k + 1 \in Nat
    OBVIOUS
  <2>1. T[k].cursor <= T[k + 1].cursor /\ T[k].cursor \in Nat /\ T[k + 1].cursor \in Nat /\ T[n].cursor \in Nat
    BY <1>0, <1>1, <2>0
  <2>2. n <= k => T[n].cursor <= T[k + 1].cursor
    BY <1>0, <2>0, <2>1
  <2>3. n = k + 1 => T[n].cursor <= T[k + 1].cursor
    BY <2>1
  <2>4. n <= k + 1 => n <= k \/ n = k + 1
    BY <1>0, <2>0
  <2> QED
    BY <2>2, <2>3, <2>4
<1> HIDE DEF S
<1>4. S = Nat
  <2>1. S \in SUBSET Nat
    BY DEF S
  <2> QED
    BY <1>2, <1>3, <2>1, Induction
<1> QED
  BY <1>4 DEF S, T

\* Where the committed question k lies before the cursor.
Before(s, k, w) ==
    \E j \in DOMAIN s : j < w.cursor /\ QuestionAt(s, j) /\ s[j].key = k

\* What has been passed lies before the cursor.
LEMMA PassedBefore ==
    ASSUME NEW s, NEW a, NEW c, Shape(s), Len(c) \in Nat, SkipsAhead(s), NEW n \in Nat,
           NEW i \in 1 .. Turns(s, a, c)[n].passed
    PROVE  Before(s, c[i], Turns(s, a, c)[n])
<1> DEFINE T == Turns(s, a, c)
           S == {k \in Nat : \A j \in 1 .. T[k].passed : Before(s, c[j], T[k])}
<1>1. T[0] = Start(s)
  BY TurnsVisit
<1>2. \A k \in Nat : T[k] \in Walks(s, c) /\ T[k + 1] = Visit(s, a, c, T[k])
  BY TurnTypes, TurnsVisit
<1> HIDE DEF T
<1>3. 0 \in S
  BY <1>1 DEF Start
<1>4. ASSUME NEW k \in S PROVE k + 1 \in S
  <2>1. PICK w : w = T[k]
    OBVIOUS
  <2>2. PICK v : v = T[k + 1]
    OBVIOUS
  <2>0. w \in Walks(s, c) /\ v = Visit(s, a, c, w)
    BY <1>2, <2>1, <2>2
  <2>3. /\ w \in Walks(s, c) /\ v \in Walks(s, c)
        /\ v.passed = w.passed \/ PassedOne(s, c, w, v)
        /\ w.cursor <= v.cursor
    BY <2>0, Turn
  <2>4. w.cursor \in Nat /\ v.cursor \in Nat /\ w.passed \in Nat /\ DOMAIN s \subseteq Nat
    BY <2>3 DEF Walks, Shape
  <2>5. ASSUME NEW j \in 1 .. w.passed PROVE Before(s, c[j], v)
    <3>1. Before(s, c[j], w)
      BY <2>1
    <3> QED
      BY <2>3, <2>4, <3>1 DEF Before
  <2>6. ASSUME PassedOne(s, c, w, v) PROVE Before(s, c[v.passed], v)
    BY <2>4, <2>6 DEF PassedOne, Before
  <2>7. \A j \in 1 .. v.passed : Before(s, c[j], v)
    <3> TAKE j \in 1 .. v.passed
    <3>1. CASE v.passed = w.passed
      BY <2>5, <3>1
    <3>2. CASE PassedOne(s, c, w, v)
      <4>1. v.passed = w.passed + 1
        BY <3>2 DEF PassedOne
      <4>2. j \in 1 .. w.passed \/ j = v.passed
        BY <2>4, <4>1
      <4> QED
        BY <2>5, <2>6, <3>2, <4>2
    <3> QED
      BY <2>3, <3>1, <3>2
  <2> QED
    BY <2>2, <2>7
<1> HIDE DEF S
<1>5. S = Nat
  <2>1. S \in SUBSET Nat
    BY DEF S
  <2> QED
    BY <1>3, <1>4, <2>1, Induction
<1> QED
  BY <1>5 DEF S, T

\* A walk that is under way has gone further than it has taken turns.
LEMMA TurnsFewer ==
    ASSUME NEW s, NEW a, NEW c, Shape(s), Len(c) \in Nat, SkipsAhead(s), NEW n \in Nat,
           Turns(s, a, c)[n].status = "walking"
    PROVE  n < Turns(s, a, c)[n].cursor
<1> DEFINE T == Turns(s, a, c)
           S == {k \in Nat : T[k].status = "walking" => k < T[k].cursor}
<1>1. T[0] = Start(s)
  BY TurnsVisit
<1>2. \A k \in Nat : T[k] \in Walks(s, c) /\ T[k + 1] = Visit(s, a, c, T[k])
  BY TurnTypes, TurnsVisit
<1> HIDE DEF T
<1>3. 0 \in S
  BY <1>1 DEF Start
<1>4. ASSUME NEW k \in S PROVE k + 1 \in S
  <2> SUFFICES ASSUME T[k + 1].status = "walking" PROVE k + 1 < T[k + 1].cursor
    OBVIOUS
  <2>0. T[k] \in Walks(s, c) /\ T[k + 1] = Visit(s, a, c, T[k])
    BY <1>2
  <2>1. /\ T[k] \in Walks(s, c) /\ T[k + 1] \in Walks(s, c)
        /\ T[k].status # "walking" => T[k + 1] = T[k]
        /\ T[k].cursor < T[k + 1].cursor
    BY <2>0, Turn
  <2>2. T[k].cursor \in Nat /\ T[k + 1].cursor \in Nat
    BY <2>1 DEF Walks, Shape
  <2>3. k < T[k].cursor
    BY <2>1
  <2> QED
    BY <2>1, <2>2, <2>3
<1> HIDE DEF S
<1>5. S = Nat
  <2>1. S \in SUBSET Nat
    BY DEF S
  <2> QED
    BY <1>3, <1>4, <2>1, Induction
<1> QED
  BY <1>5 DEF S, T

-----------------------------------------------------------------------------
(* The progress *)

LEMMA ProgressTypes ==
    ASSUME NEW s, NEW a, NEW c, Shape(s), Len(c) \in Nat, NEW p, p = Progress(s, a, c)
    PROVE  LET w == Turns(s, a, c)[MaxSteps(s)]
           IN  /\ p \in Walks(s, c) /\ p.status # "walking"
               /\ p.cursor = w.cursor /\ p.passed = w.passed /\ p.passed <= MaxSteps(s)
               /\ p.status = "active" => Asks(s, p) /\ p.passed < MaxSteps(s)
               /\ p.status = "invalid" => w.status = "invalid" \/ (w.status = "walking" /\ w.cursor <= Len(s))
<1>1. MaxSteps(s) \in Nat
  BY DEF MaxSteps, Shape
<1>2. PICK w : w = Turns(s, a, c)[MaxSteps(s)]
  OBVIOUS
<1>3. /\ w \in Walks(s, c) /\ w.passed <= MaxSteps(s)
      /\ w.status # "walking" => w.passed < MaxSteps(s)
      /\ w.status = "active" => Asks(s, w)
  BY <1>1, <1>2, TurnTypes
<1>4. CASE w.status # "walking"
  <2>1. p = w
    BY <1>2, <1>4 DEF Progress, Counted
  <2> QED
    BY <1>2, <1>3, <1>4, <2>1
<1>5. CASE w.status = "walking"
  <2>1. PICK st \in {"submitted", "invalid"} :
            /\ p = [w EXCEPT !.status = st]
            /\ st = "invalid" => ~ (w.cursor > Len(s))
    BY <1>2, <1>5 DEF Progress, Counted
  <2>2. /\ p \in Walks(s, c) /\ p.cursor = w.cursor /\ p.passed = w.passed /\ p.status = st
    BY <1>3, <2>1, Marked
  <2>3. w.cursor \in Nat /\ Len(s) \in Nat
    BY <1>3 DEF Walks, Shape
  <2> QED
    BY <1>2, <1>3, <1>5, <2>1, <2>2, <2>3
<1> QED
  BY <1>4, <1>5

\* A turn depends on the answers by the rule at the node only.
LEMMA VisitsAgree ==
    ASSUME NEW s, NEW a, NEW b, NEW c, NEW w,
           w.status = "walking" /\ ~ (w.cursor > Len(s)) /\ ~QuestionAt(s, w.cursor) =>
               (RuleMatches(s[w.cursor], a) <=> RuleMatches(s[w.cursor], b))
    PROVE  Visit(s, a, c, w) = Visit(s, b, c, w)
<1>1. CASE w.status # "walking" \/ w.cursor > Len(s)
  BY <1>1 DEF Visit
<1>2. CASE w.status = "walking" /\ ~ (w.cursor > Len(s)) /\ QuestionAt(s, w.cursor)
  <2>1. AtQuestion(w, s[w.cursor].key, a, c) = AtQuestion(w, s[w.cursor].key, b, c)
    BY DEF AtQuestion, Passes
  <2> QED
    BY <1>2, <2>1 DEF Visit
<1>3. CASE w.status = "walking" /\ ~ (w.cursor > Len(s)) /\ ~QuestionAt(s, w.cursor)
  <2>1. RuleMatches(s[w.cursor], a) <=> RuleMatches(s[w.cursor], b)
    BY <1>3
  <2>2. AtRule(s, w, s[w.cursor], a) = AtRule(s, w, s[w.cursor], b)
    BY <2>1 DEF AtRule
  <2> QED
    BY <1>3, <2>2 DEF Visit
<1> QED
  BY <1>1, <1>2, <1>3

\* Two sets of answers that agree for the rules that the walk meets lead the same way.
LEMMA ProgressAgrees ==
    ASSUME NEW s, NEW a, NEW b, NEW c, Shape(s), Len(c) \in Nat,
           ASSUME NEW n \in 0 .. MaxSteps(s),
                  Turns(s, a, c)[n].cursor \in DOMAIN s, ~QuestionAt(s, Turns(s, a, c)[n].cursor)
           PROVE  RuleMatches(s[Turns(s, a, c)[n].cursor], a)
                      <=> RuleMatches(s[Turns(s, a, c)[n].cursor], b)
    PROVE  Progress(s, b, c) = Progress(s, a, c)
<1> DEFINE T == Turns(s, a, c)
           U == Turns(s, b, c)
           S == {n \in Nat : n <= MaxSteps(s) => U[n] = T[n]}
<1>0. MaxSteps(s) \in Nat
  BY DEF MaxSteps, Shape
<1>1. 0 \in S
  BY TurnsVisit
<1>2. ASSUME NEW n \in S PROVE n + 1 \in S
  <2> SUFFICES ASSUME n + 1 <= MaxSteps(s) PROVE U[n + 1] = T[n + 1]
    OBVIOUS
  <2>1. n \in 0 .. MaxSteps(s) /\ n \in Nat
    BY <1>0
  <2>2. U[n] = T[n]
    BY <1>0, <2>1
  <2>3. PICK w : w = T[n]
    OBVIOUS
  <2>4. w \in Walks(s, c)
    BY <2>1, <2>3, TurnTypes
  <2>5. ~ (w.cursor > Len(s)) => w.cursor \in DOMAIN s
    BY <2>4 DEF Walks, Shape
  <2>6. ~ (w.cursor > Len(s)) /\ ~QuestionAt(s, w.cursor) =>
            (RuleMatches(s[w.cursor], a) <=> RuleMatches(s[w.cursor], b))
    BY <2>1, <2>3, <2>5
  <2>7. Visit(s, a, c, w) = Visit(s, b, c, w)
    BY <2>6, VisitsAgree
  <2>8. T[n + 1] = Visit(s, a, c, w) /\ U[n + 1] = Visit(s, b, c, w)
    BY <2>1, <2>2, <2>3, TurnsVisit
  <2> QED
    BY <2>7, <2>8
<1>3. S = Nat
  <2> HIDE DEF S
  <2>1. S \in SUBSET Nat
    BY DEF S
  <2> QED
    BY <1>1, <1>2, <2>1, Induction
<1>4. U[MaxSteps(s)] = T[MaxSteps(s)]
  BY <1>0, <1>3
<1> QED
  BY <1>4 DEF Progress

\* While the respondent answers the question that is asked, the progress stays: the rules
\* that the walk meets are before that question and read what is before them.
LEMMA TypingKeepsProgress ==
    ASSUME NEW s, NEW a, NEW c, Shape(s), Len(c) \in Nat, ReadsBack(s), SkipsAhead(s),
           NEW p, p = Progress(s, a, c), p.status = "active",
           NEW b, DOMAIN b = DOMAIN a, \A k \in DOMAIN a : k # s[p.cursor].key => b[k] = a[k]
    PROVE  Progress(s, b, c) = p
<1>1. PICK q : q = s[p.cursor].key
  OBVIOUS
<1>3. Asks(s, p) /\ p.cursor = Turns(s, a, c)[MaxSteps(s)].cursor
  BY ProgressTypes
<1>4. MaxSteps(s) \in Nat
  BY DEF MaxSteps, Shape
<1>5. DOMAIN b = DOMAIN a /\ \A k \in DOMAIN a : k # q => b[k] = a[k]
  BY <1>1
<1>6. ASSUME NEW n \in 0 .. MaxSteps(s),
             Turns(s, a, c)[n].cursor \in DOMAIN s, ~QuestionAt(s, Turns(s, a, c)[n].cursor)
      PROVE  RuleMatches(s[Turns(s, a, c)[n].cursor], a)
                 <=> RuleMatches(s[Turns(s, a, c)[n].cursor], b)
  <2>1. PICK i : i = Turns(s, a, c)[n].cursor
    OBVIOUS
  <2>2. i <= p.cursor
    BY <1>3, <1>4, <2>1, NeverBack
  <2>3. i \in Nat /\ p.cursor \in Nat /\ i \in DOMAIN s /\ p.cursor \in DOMAIN s
    BY <1>3, <1>6, <2>1 DEF Asks, Shape
  <2>4. \A d \in s[i].conditions : d.target # q
    BY <1>1, <1>3, <1>6, <2>1, <2>2, <2>3 DEF ReadsBack, Asks
  <2>5. \A d \in s[i].conditions : Holds(d, a) <=> Holds(d, b)
    BY <1>5, <2>4 DEF Holds
  <2> QED
    BY <2>1, <2>5 DEF RuleMatches
<1>7. Progress(s, b, c) = Progress(s, a, c)
  BY <1>6, ProgressAgrees
<1> QED
  BY <1>7

\* A survey whose rules are in order ends as its author said, however it is answered:
\* neither the safety counter nor a missing target stops it.
THEOREM OrderlySurveysEnd ==
    ASSUME NEW s \in Surveys, Orderly(s), NEW a, NEW c, Len(c) \in Nat
    PROVE  Progress(s, a, c).status # "invalid"
<1>1. Shape(s) /\ SkipsAhead(s)
  BY Shapes, OrderlyPositions
<1> DEFINE T == Turns(s, a, c)
           S == {n \in Nat : T[n].status # "invalid"}
<1>2. T[0] = Start(s) /\ \A n \in Nat : T[n] \in Walks(s, c) /\ T[n + 1] = Visit(s, a, c, T[n])
  BY <1>1, TurnTypes, TurnsVisit
<1>3. \A i \in DOMAIN s : ~QuestionAt(s, i) =>
          \A b \in {s[i].then, s[i].else} : b.do = "skip_to" => b.to \in Questions(s)
  <2> SUFFICES ASSUME NEW i \in DOMAIN s, ~QuestionAt(s, i),
                      NEW b \in {s[i].then, s[i].else}, b.do = "skip_to"
               PROVE  b.to \in Questions(s)
    OBVIOUS
  <2>1. b.to \in Targets(s[i].then) \cup Targets(s[i].else)
    BY DEF Targets
  <2>2. PICK j \in i + 1 .. Len(s) : QuestionAt(s, j) /\ s[j].key = b.to
    BY <2>1 DEF Orderly
  <2>3. j \in DOMAIN s
    BY <1>1 DEF Shape
  <2> QED
    BY <2>2, <2>3 DEF Questions
<1> HIDE DEF T
<1>4. 0 \in S
  BY <1>2 DEF Start
<1>5. ASSUME NEW n \in S PROVE n + 1 \in S
  <2>1. PICK w : w = T[n]
    OBVIOUS
  <2>2. w \in Walks(s, c) /\ w.status # "invalid" /\ T[n + 1] = Visit(s, a, c, w)
    BY <1>2, <2>1
  <2>3. Visit(s, a, c, w).status # "invalid"
    <3>1. CASE w.status # "walking"
      BY <2>2, <3>1 DEF Visit
    <3>2. CASE w.status = "walking" /\ w.cursor > Len(s)
      BY <2>2, <3>2 DEF Visit, Walks
    <3>3. CASE w.status = "walking" /\ ~ (w.cursor > Len(s))
      <4>1. w.cursor \in DOMAIN s
        BY <1>1, <2>2, <3>3 DEF Walks, Shape
      <4>2. CASE QuestionAt(s, w.cursor)
        BY <1>1, <2>2, <3>3, <4>1, <4>2, QuestionTurn
      <4>3. CASE ~QuestionAt(s, w.cursor)
        BY <1>1, <1>3, <2>2, <3>3, <4>1, <4>3, RuleTurn
      <4> QED
        BY <4>2, <4>3
    <3> QED
      BY <3>1, <3>2, <3>3
  <2> QED
    BY <2>2, <2>3
<1> HIDE DEF S
<1>6. S = Nat
  <2>1. S \in SUBSET Nat
    BY DEF S
  <2> QED
    BY <1>4, <1>5, <2>1, Induction
<1>7. MaxSteps(s) \in Nat /\ Len(s) < MaxSteps(s)
  BY <1>1 DEF MaxSteps, Shape
<1>8. T[MaxSteps(s)].status # "invalid"
  BY <1>6, <1>7 DEF S
<1>9. ~ (T[MaxSteps(s)].status = "walking" /\ T[MaxSteps(s)].cursor <= Len(s))
  <2> SUFFICES ASSUME T[MaxSteps(s)].status = "walking" PROVE ~ (T[MaxSteps(s)].cursor <= Len(s))
    OBVIOUS
  <2>1. MaxSteps(s) < T[MaxSteps(s)].cursor
    BY <1>1, <1>7, TurnsFewer DEF T
  <2>2. T[MaxSteps(s)] \in Walks(s, c)
    BY <1>2, <1>7
  <2>3. T[MaxSteps(s)].cursor \in Nat /\ Len(s) \in Nat
    BY <1>1, <2>2 DEF Walks, Shape
  <2> QED
    BY <1>7, <2>1, <2>3
<1> QED
  BY <1>1, <1>8, <1>9, ProgressTypes DEF T

\* The rules of an orderly survey see no answer on the respondent's page: what they name
\* are no questions there, so the way through the survey is the same for every respondent
\* who commits the same questions.
THEOREM RespondentRulesAreBlind ==
    ASSUME NEW s \in Surveys, Orderly(s), NEW c, Len(c) \in Nat,
           NEW a \in [Questions(Normalized(s)) -> Values \cup {Absent}],
           NEW b \in [Questions(Normalized(s)) -> Values \cup {Absent}]
    PROVE  Progress(Normalized(s), b, c) = Progress(Normalized(s), a, c)
<1>1. PICK N : N = Normalized(s)
  OBVIOUS
<1>2. /\ Shape(N) /\ DOMAIN N = DOMAIN s /\ Len(s) \in Nat /\ DOMAIN s = 1 .. Len(s)
      /\ Questions(N) \subseteq Ids
  BY <1>1, Shapes, NormalizedNodes
<1>3. ASSUME NEW i \in DOMAIN N, ~QuestionAt(N, i)
      PROVE  RuleMatches(N[i], a) <=> RuleMatches(N[i], b)
  <2>1. N[i] = s[i] /\ ~QuestionAt(s, i)
    BY <1>1, <1>2, <1>3, NormalizedNodes
  <2>2. ASSUME NEW d \in s[i].conditions PROVE d.target \notin Questions(N)
    <3>1. PICK j \in 1 .. i - 1 : QuestionAt(s, j) /\ s[j].key = d.target
      BY <1>2, <1>3, <2>1 DEF Orderly
    <3>2. j \in DOMAIN s
      BY <1>2, <1>3
    <3>3. d.target \in Keys
      BY <3>1, <3>2, NormalizedNodes
    <3> QED
      BY <1>2, <3>3, FormAssumption
  <2>3. \A d \in N[i].conditions : Holds(d, a) <=> Holds(d, b)
    BY <1>1, <2>1, <2>2 DEF Holds
  <2> QED
    BY <2>3 DEF RuleMatches
<1>4. Progress(N, b, c) = Progress(N, a, c)
  BY <1>2, <1>3, ProgressAgrees
<1> QED
  BY <1>1, <1>4

-----------------------------------------------------------------------------
(* Committing one question more, or fewer *)

\* The questions d were committed after those of c.
Extends(c, d) ==
    /\ Len(c) \in Nat /\ Len(d) \in Nat /\ Len(c) < Len(d)
    /\ \A i \in 1 .. Len(c) : d[i] = c[i]

\* The walk w has come to the first question of d behind c, and waits there.
WaitsFor(s, c, d, w) ==
    w.status = "active" /\ w.passed = Len(c) /\ s[w.cursor].key = d[Len(c) + 1]

\* The walk with more commits goes the same way, up to the question that was the last to
\* be asked: that one it passes.
LEMMA ExtendedTurns ==
    ASSUME NEW s, NEW a, NEW c, NEW d, Shape(s), Extends(c, d), NEW n \in Nat
    PROVE  LET w == Turns(s, a, c)[n]
               v == Turns(s, a, d)[n]
           IN  v = w \/ (v.passed > Len(c) /\ WaitsFor(s, c, d, w))
<1> DEFINE T == Turns(s, a, c)
           U == Turns(s, a, d)
           Good(k) == U[k] = T[k] \/ (U[k].passed > Len(c) /\ WaitsFor(s, c, d, T[k]))
           S == {k \in Nat : Good(k)}
<1>0. Len(c) \in Nat /\ Len(d) \in Nat /\ Len(c) < Len(d)
  BY DEF Extends
<1>1. T[0] = Start(s) /\ U[0] = Start(s)
  BY TurnsVisit
<1>2. \A k \in Nat : /\ T[k] \in Walks(s, c) /\ T[k + 1] = Visit(s, a, c, T[k])
                    /\ U[k] \in Walks(s, d) /\ U[k + 1] = Visit(s, a, d, U[k])
  <2> TAKE k \in Nat
  <2>1. T[k] \in Walks(s, c) /\ T[k + 1] = Visit(s, a, c, T[k])
    BY <1>0, TurnTypes, TurnsVisit
  <2>2. U[k] \in Walks(s, d) /\ U[k + 1] = Visit(s, a, d, U[k])
    BY <1>0, TurnTypes, TurnsVisit
  <2> QED
    BY <2>1, <2>2
<1> HIDE DEF T, U
<1>3. 0 \in S
  BY <1>1
<1>4. ASSUME NEW k \in S PROVE k + 1 \in S
  <2>1. PICK w, v : w = T[k] /\ v = U[k]
    OBVIOUS
  <2>2. /\ w \in Walks(s, c) /\ T[k + 1] = Visit(s, a, c, w)
        /\ v \in Walks(s, d) /\ U[k + 1] = Visit(s, a, d, v)
    BY <1>2, <2>1
  <2>3. CASE v.passed > Len(c) /\ WaitsFor(s, c, d, w)
    <3>1. T[k + 1] = w
      BY <2>2, <2>3 DEF Visit, WaitsFor
    <3>2. U[k + 1].passed = v.passed \/ U[k + 1].passed = v.passed + 1
      BY <1>0, <2>2, Turn DEF PassedOne
    <3>3. v.passed \in Nat
      BY <2>2 DEF Walks
    <3>4. U[k + 1].passed > Len(c)
      BY <1>0, <2>3, <3>2, <3>3
    <3> QED
      BY <2>3, <3>1, <3>4
  <2>4. CASE v = w /\ (Visit(s, a, d, w) = Visit(s, a, c, w))
    BY <2>2, <2>4
  <2>5. CASE v = w /\ Visit(s, a, d, w) # Visit(s, a, c, w)
    <3>1. PICK q : q = s[w.cursor].key
      OBVIOUS
    <3>2. /\ w.status = "walking" /\ Visit(s, a, d, w) = AtQuestion(w, q, a, d)
          /\ Visit(s, a, c, w) = AtQuestion(w, q, a, c)
      <4>1. w.status = "walking" /\ ~ (w.cursor > Len(s)) /\ QuestionAt(s, w.cursor)
        BY <2>5, Zenon DEF Visit
      <4> QED
        BY <3>1, <4>1 DEF Visit
    <3>3. q \in w.visible /\ ~ (Passes(w, q, a, d) <=> Passes(w, q, a, c))
      BY <2>5, <3>2 DEF AtQuestion
    <3>4. w.passed \in 0 .. Len(c)
      BY <2>2 DEF Walks
    <3>5. w.passed = Len(c) /\ d[Len(c) + 1] = q /\ Passes(w, q, a, d) /\ ~Passes(w, q, a, c)
      <4>1. CASE w.passed < Len(c)
        <5>1. w.passed + 1 \in 1 .. Len(c) /\ w.passed < Len(d)
          BY <1>0, <3>4, <4>1
        <5>2. d[w.passed + 1] = c[w.passed + 1]
          BY <5>1 DEF Extends
        <5> QED
          BY <3>3, <4>1, <5>1, <5>2 DEF Passes
      <4>2. CASE w.passed = Len(c)
        BY <1>0, <3>3, <4>2 DEF Passes
      <4> QED
        BY <1>0, <3>4, <4>1, <4>2
    <3>6. /\ AtQuestion(w, q, a, d) = [w EXCEPT !.cursor = @ + 1, !.passed = @ + 1]
          /\ AtQuestion(w, q, a, c) = [w EXCEPT !.status = "active"]
      BY <3>3, <3>5 DEF AtQuestion
    <3>7. U[k + 1].passed = Len(c) + 1
      BY <2>2, <2>5, <3>2, <3>5, <3>6 DEF Walks
    <3>8. T[k + 1].status = "active" /\ T[k + 1].passed = Len(c) /\ T[k + 1].cursor = w.cursor
      BY <2>2, <3>2, <3>5, <3>6 DEF Walks
    <3>9. WaitsFor(s, c, d, T[k + 1])
      BY <3>1, <3>5, <3>8 DEF WaitsFor
    <3> QED
      BY <1>0, <3>7, <3>9
  <2> QED
    BY <2>1, <2>3, <2>4, <2>5
<1> HIDE DEF S
<1>5. S = Nat
  <2>1. S \in SUBSET Nat
    BY DEF S
  <2> QED
    BY <1>3, <1>4, <2>1, Induction
<1> QED
  BY <1>5 DEF S, T, U

\* The same of the progress.
LEMMA ExtendedProgress ==
    ASSUME NEW s, NEW a, NEW c, NEW d, Shape(s), Extends(c, d)
    PROVE  LET w == Progress(s, a, c)
               v == Progress(s, a, d)
           IN  (v = w /\ v.passed <= Len(c)) \/ (v.passed > Len(c) /\ WaitsFor(s, c, d, w))
<1>1. MaxSteps(s) \in Nat /\ Len(c) \in Nat /\ Len(d) \in Nat
  BY DEF MaxSteps, Shape, Extends
<1>2. PICK t, u : t = Turns(s, a, c)[MaxSteps(s)] /\ u = Turns(s, a, d)[MaxSteps(s)]
  OBVIOUS
<1>3. PICK w, v : w = Progress(s, a, c) /\ v = Progress(s, a, d)
  OBVIOUS
<1>4. w = Counted(s, t) /\ v = Counted(s, u)
  BY <1>2, <1>3 DEF Progress
<1>5. w \in Walks(s, c) /\ v.passed = u.passed
  BY <1>1, <1>2, <1>3, ProgressTypes
<1>6. CASE u = t
  <2>1. v = w /\ w.passed <= Len(c)
    BY <1>1, <1>4, <1>5, <1>6 DEF Walks
  <2> QED
    BY <1>3, <2>1
<1>7. CASE u.passed > Len(c) /\ WaitsFor(s, c, d, t)
  <2>1. w = t
    BY <1>4, <1>7 DEF Counted, WaitsFor
  <2> QED
    BY <1>3, <1>5, <1>7, <2>1
<1> QED
  BY <1>1, <1>2, <1>6, <1>7, ExtendedTurns

\* A walk that waits at a question does not have it among its commits.
LEMMA WaitsAtOther ==
    ASSUME NEW s, NEW a, NEW c, Shape(s), Len(c) \in Nat,
           NEW p, p = Progress(s, a, c), p.status = "active"
    PROVE  ~Passes(p, s[p.cursor].key, a, c)
<1> DEFINE T == Turns(s, a, c)
           S == {k \in Nat : T[k].status = "active" => ~Passes(T[k], s[T[k].cursor].key, a, c)}
<1>1. T[0] = Start(s)
  BY TurnsVisit
<1>2. \A k \in Nat : T[k] \in Walks(s, c) /\ T[k + 1] = Visit(s, a, c, T[k])
  BY TurnTypes, TurnsVisit
<1> HIDE DEF T
<1>3. 0 \in S
  BY <1>1 DEF Start
<1>4. ASSUME NEW k \in S PROVE k + 1 \in S
  <2>1. PICK w, v : w = T[k] /\ v = T[k + 1]
    OBVIOUS
  <2>2. w \in Walks(s, c) /\ v = Visit(s, a, c, w)
    BY <1>2, <2>1
  <2> SUFFICES ASSUME v.status = "active" PROVE ~Passes(v, s[v.cursor].key, a, c)
    BY <2>1
  <2>3. CASE w.status # "walking"
    <3>1. v = w
      BY <2>2, <2>3 DEF Visit
    <3> QED
      BY <2>1, <3>1
  <2>4. CASE w.status = "walking"
    <3>1. w.cursor \in DOMAIN s /\ QuestionAt(s, w.cursor)
      <4>1. ~ (w.cursor > Len(s))
        BY <2>2, <2>4 DEF Visit, Walks
      <4>2. w.cursor \in DOMAIN s
        BY <2>2, <4>1 DEF Walks, Shape
      <4> QED
        BY <2>2, <2>4, <4>2, RuleTurn
    <3>2. v = AtQuestion(w, s[w.cursor].key, a, c)
      BY <2>2, <2>4, <3>1 DEF Visit, Shape
    <3>3. v = [w EXCEPT !.status = "active"] /\ ~Passes(w, s[w.cursor].key, a, c)
      BY <2>2, <2>4, <3>2 DEF AtQuestion, Walks
    <3>4. v.cursor = w.cursor /\ v.passed = w.passed
      BY <2>2, <3>3 DEF Walks
    <3> QED
      BY <3>3, <3>4 DEF Passes
  <2> QED
    BY <2>3, <2>4
<1> HIDE DEF S
<1>5. S = Nat
  <2>1. S \in SUBSET Nat
    BY DEF S
  <2> QED
    BY <1>3, <1>4, <2>1, Induction
<1>6. MaxSteps(s) \in Nat
  BY DEF MaxSteps, Shape
<1>7. PICK t : t = T[MaxSteps(s)]
  OBVIOUS
<1>8. t \in Walks(s, c) /\ p = Counted(s, t)
  BY <1>2, <1>6, <1>7 DEF Progress, T
<1>9. p = t
  BY <1>8 DEF Counted, Walks
<1> QED
  BY <1>5, <1>6, <1>7, <1>9 DEF S

\* Commits that were not passed are not needed: without them the progress is the same.
LEMMA TrimmedProgress ==
    ASSUME NEW s, NEW a, NEW Q, NEW c \in Seq(Q), Shape(s),
           NEW p, p = Progress(s, a, c)
    PROVE  p.passed \in 0 .. Len(c) /\ Progress(s, a, SubSeq(c, 1, p.passed)) = p
<1>1. Len(c) \in Nat /\ p.passed \in 0 .. Len(c)
  <2>1. Len(c) \in Nat
    OBVIOUS
  <2>2. p \in Walks(s, c)
    BY <2>1, ProgressTypes
  <2> QED
    BY <2>1, <2>2 DEF Walks
<1>2. PICK d : d = SubSeq(c, 1, p.passed)
  OBVIOUS
<1>3. Len(d) = p.passed /\ \A i \in 1 .. Len(d) : d[i] = c[i]
  BY <1>1, <1>2
<1>4. CASE p.passed = Len(c)
  <2>1. d = c
    BY <1>1, <1>2, <1>4
  <2> QED
    BY <1>1, <1>2, <2>1
<1>5. CASE p.passed < Len(c)
  <2>1. Extends(d, c)
    BY <1>1, <1>3, <1>5 DEF Extends
  <2>2. PICK w : w = Progress(s, a, d)
    OBVIOUS
  <2>3. p = w \/ p.passed > Len(d)
    BY <2>1, <2>2, ExtendedProgress
  <2> QED
    BY <1>1, <1>2, <1>3, <2>2, <2>3
<1> QED
  BY <1>1, <1>4, <1>5

\* Once the question that is asked is committed, the walk passes it, and nothing more
\* than was committed.
LEMMA ContinuedProgress ==
    ASSUME NEW s, NEW a, NEW Q, NEW c \in Seq(Q), Shape(s),
           NEW p, p = Progress(s, a, c), p.status = "active",
           NEW d, Len(d) = p.passed + 1, d[p.passed + 1] = s[p.cursor].key,
           \A i \in 1 .. p.passed : d[i] = c[i]
    PROVE  Progress(s, a, d).passed = p.passed + 1
<1>1. PICK q, b : q = s[p.cursor].key /\ b = SubSeq(c, 1, p.passed)
  OBVIOUS
<1>2. p.passed \in 0 .. Len(c) /\ Progress(s, a, b) = p
  BY <1>1, TrimmedProgress
<1>3. /\ Len(b) = p.passed /\ Len(d) = p.passed + 1 /\ p.passed \in Nat
      /\ d[p.passed + 1] = q /\ \A i \in 1 .. Len(b) : d[i] = b[i]
  BY <1>1, <1>2
<1>4. Extends(b, d)
  BY <1>3 DEF Extends
<1>5. PICK v : v = Progress(s, a, d)
  OBVIOUS
<1>6. v.passed \in 0 .. Len(d)
  <2>1. Len(d) \in Nat
    BY <1>3
  <2>2. v \in Walks(s, d)
    BY <1>5, <2>1, ProgressTypes
  <2> QED
    BY <2>2 DEF Walks
<1>7. v = p \/ v.passed > Len(b)
  BY <1>2, <1>4, <1>5, ExtendedProgress
<1>8. v # p
  <2> SUFFICES ASSUME v = p PROVE FALSE
    OBVIOUS
  <2>0. Len(d) \in Nat /\ v.status = "active"
    BY <1>3
  <2>1. ~Passes(v, s[v.cursor].key, a, d)
    BY <1>5, <2>0, WaitsAtOther
  <2> QED
    BY <1>1, <1>3, <2>1 DEF Passes
<1> QED
  BY <1>3, <1>5, <1>6, <1>7, <1>8

\* Without the last question that was passed, the walk comes to it again, and waits.
LEMMA BackProgress ==
    ASSUME NEW s, NEW a, NEW Q, NEW c \in Seq(Q), Shape(s),
           NEW p, p = Progress(s, a, c), p.passed > 0,
           NEW d, Len(d) = p.passed - 1, \A i \in 1 .. p.passed - 1 : d[i] = c[i]
    PROVE  LET w == Progress(s, a, d)
           IN  w.status = "active" /\ w.passed = p.passed - 1 /\ s[w.cursor].key = c[p.passed]
<1>1. Len(c) \in Nat /\ p.passed \in 1 .. Len(c)
  BY TrimmedProgress
<1>2. Len(d) = p.passed - 1 /\ \A i \in 1 .. Len(d) : d[i] = c[i]
  BY <1>1
<1>3. Extends(d, c)
  BY <1>1, <1>2 DEF Extends
<1>4. PICK w : w = Progress(s, a, d)
  OBVIOUS
<1>5. p.passed > Len(d) /\ Len(d) \in Nat
  BY <1>1, <1>2
<1>6. WaitsFor(s, d, c, w)
  <2>1. PICK v : v = Progress(s, a, c)
    OBVIOUS
  <2>2. (v = w /\ v.passed <= Len(d)) \/ (v.passed > Len(d) /\ WaitsFor(s, d, c, w))
    BY <1>3, <1>4, <2>1, ExtendedProgress
  <2> QED
    BY <1>1, <1>5, <2>1, <2>2
<1>7. (p.passed - 1) + 1 = p.passed
  BY <1>1
<1> QED
  BY <1>2, <1>4, <1>6, <1>7 DEF WaitsFor

\* The question that is asked is none of those passed, if rules skip ahead only.
LEMMA AsksOther ==
    ASSUME NEW s, NEW a, NEW c, Shape(s), SkipsAhead(s), Len(c) \in Nat,
           NEW p, p = Progress(s, a, c), p.status = "active", NEW i \in 1 .. p.passed
    PROVE  c[i] # s[p.cursor].key
<1>1. MaxSteps(s) \in Nat
  BY DEF MaxSteps, Shape
<1>2. PICK w : w = Turns(s, a, c)[MaxSteps(s)]
  OBVIOUS
<1>3. p.cursor = w.cursor /\ p.passed = w.passed /\ Asks(s, p)
  BY <1>2, ProgressTypes
<1>4. Before(s, c[i], w)
  BY <1>1, <1>2, <1>3, PassedBefore
<1>5. PICK j \in DOMAIN s : j < p.cursor /\ QuestionAt(s, j) /\ s[j].key = c[i]
  BY <1>3, <1>4 DEF Before
<1>6. j # p.cursor
  BY <1>3, <1>5 DEF Asks, Shape
<1> QED
  BY <1>3, <1>5, <1>6 DEF Asks, Shape

-----------------------------------------------------------------------------
(* The form *)

\* What the form shows is derived from its answers and commits, always.
Rendered == progress = Progress(Shown, answers, committed)

LEMMA ShownShape ==
    ASSUME authored \in Surveys
    PROVE  /\ Shape(Shown)
           /\ Orderly(authored) => ReadsBack(Shown) /\ SkipsAhead(Shown)
BY Shapes, OrderlyPositions DEF Shown

\* The progress of any form is what TypeOK says of it.
LEMMA DerivedTypes ==
    ASSUME NEW s, Shape(s), NEW a, NEW c \in Seq(Questions(s)), NEW p, p = Progress(s, a, c)
    PROVE  /\ p.passed \in 0 .. Len(c) /\ p.visible \cup p.required \subseteq Questions(s)
           /\ p.status \in {"active", "submitted", "discarded", "invalid"}
           /\ p.status = "active" => /\ p.cursor \in DOMAIN s /\ QuestionAt(s, p.cursor)
                                    /\ s[p.cursor].key \in p.visible /\ s[p.cursor].key \in Questions(s)
                                    /\ p.passed < MaxSteps(s)
           /\ p.passed <= MaxSteps(s) /\ MaxSteps(s) \in Nat
<1>1. Len(c) \in Nat
  OBVIOUS
<1>2. /\ p \in Walks(s, c) /\ p.status # "walking" /\ p.passed <= MaxSteps(s)
      /\ p.status = "active" => Asks(s, p) /\ p.passed < MaxSteps(s)
  BY <1>1, ProgressTypes
<1>3. MaxSteps(s) \in Nat
  BY DEF MaxSteps, Shape
<1> QED
  BY <1>2, <1>3 DEF Walks, Asks, Questions

\* The inductive invariant.
IInv == TypeOK /\ Rendered /\ ReviewedIsHanded

LEMMA Initially == Init => IInv
<1> SUFFICES ASSUME Init PROVE IInv
  OBVIOUS
<1>1. Shape(Shown) /\ authored \in Surveys /\ page \in {"preview", "respond"} /\ left \in BOOLEAN
  BY ShownShape DEF Init
<1>2. committed = <<>> /\ committed \in Seq(Questions(Shown)) /\ Len(committed) = 0
  BY DEF Init
<1>3. progress = Progress(Shown, answers, committed)
  BY DEF Init
<1>4. /\ answers \in [Questions(Shown) -> Values \cup {Absent}]
      /\ handed \in [Questions(Shown) -> (Values \ Malformed) \cup {Absent}]
  BY DEF Init, Blank
<1>5. /\ progress.passed \in 0 .. Len(committed)
      /\ progress.visible \cup progress.required \subseteq Questions(Shown)
      /\ progress.status \in {"active", "submitted", "discarded", "invalid"}
      /\ progress.status = "active" => /\ QuestionAt(Shown, progress.cursor)
                                      /\ Current \in progress.visible
      /\ Len(committed) <= MaxSteps(Shown)
  <2>1. /\ progress.passed \in 0 .. Len(committed)
        /\ progress.visible \cup progress.required \subseteq Questions(Shown)
        /\ progress.status \in {"active", "submitted", "discarded", "invalid"}
        /\ progress.status = "active" => /\ QuestionAt(Shown, progress.cursor)
                                        /\ Shown[progress.cursor].key \in progress.visible
        /\ MaxSteps(Shown) \in Nat
    BY <1>1, <1>2, <1>3, DerivedTypes
  <2> QED
    BY <1>2, <2>1 DEF Current, QuestionAt
<1>6. TypeOK
  BY <1>1, <1>2, <1>4, <1>5 DEF TypeOK
<1>7. ReviewedIsHanded
  BY <1>2, <1>5 DEF ReviewedIsHanded
<1> QED
  BY <1>3, <1>6, <1>7 DEF Rendered, IInv

\* Beside the invariant, a step keeps the progress while an answer changes.
Typed ==
    progress.status = "active" /\ committed' = committed /\ answers' # answers /\ Orderly(authored) =>
        progress' = progress

LEMMA Step ==
    ASSUME IInv, [Next]_vars
    PROVE  IInv' /\ Typed
<1> DEFINE Q == Questions(Shown)
           M == MaxSteps(Shown)
<1>1. Shape(Shown) /\ (Orderly(authored) => ReadsBack(Shown) /\ SkipsAhead(Shown))
  BY ShownShape DEF TypeOK, IInv
<1>2. /\ answers \in [Q -> Values \cup {Absent}] /\ committed \in Seq(Q) /\ Len(committed) <= M
      /\ handed \in [Q -> (Values \ Malformed) \cup {Absent}]
      /\ authored \in Surveys /\ page \in {"preview", "respond"} /\ left \in BOOLEAN
  BY DEF TypeOK, IInv
<1>3. progress = Progress(Shown, answers, committed)
  BY DEF Rendered, IInv
<1>4. /\ progress.passed \in 0 .. Len(committed)
      /\ progress.status = "active" => /\ progress.cursor \in DOMAIN Shown /\ QuestionAt(Shown, progress.cursor)
                                      /\ Current \in Q /\ progress.passed < M
      /\ progress.passed <= M /\ M \in Nat
  BY <1>1, <1>2, <1>3, DerivedTypes DEF Current
<1>5. ASSUME UNCHANGED <<authored, page>>
      PROVE  /\ Shown' = Shown /\ MaxSteps(Shown)' = M /\ Questions(Shown)' = Q
             /\ Orderly(authored)' = Orderly(authored)
  BY <1>5 DEF Shown
\* What every handler that derives the progress again owes.
<1>6. ASSUME UNCHANGED <<authored, page>>, left' \in BOOLEAN, Derived,
             answers' \in [Q -> Values \cup {Absent}], committed' \in Seq(Q), Len(committed') <= M,
             handed' \in [Q -> (Values \ Malformed) \cup {Absent}]
      PROVE  TypeOK' /\ Rendered' /\ progress'.passed \in 0 .. Len(committed')
  <2>1. Shown' = Shown /\ MaxSteps(Shown)' = M /\ Questions(Shown)' = Q
    BY <1>5, <1>6
  <2>2. progress' = Progress(Shown, answers', committed')
    BY <1>6, <2>1 DEF Derived
  <2>3. /\ progress'.passed \in 0 .. Len(committed')
        /\ progress'.visible \cup progress'.required \subseteq Q
        /\ progress'.status \in {"active", "submitted", "discarded", "invalid"}
        /\ progress'.status = "active" => /\ QuestionAt(Shown, progress'.cursor)
                                         /\ Shown[progress'.cursor].key \in progress'.visible
    BY <1>1, <1>6, <2>2, DerivedTypes
  <2>4. Rendered'
    BY <2>1, <2>2 DEF Rendered
  <2>5. TypeOK'
    BY <1>2, <1>6, <2>1, <2>3 DEF TypeOK, Current, QuestionAt
  <2> QED
    BY <2>3, <2>4, <2>5
<1>7. \A i \in 1 .. progress.passed : committed[i] \in Q
  BY <1>2, <1>4
<1> HIDE DEF Q, M
<1>8. ASSUME NEW v \in Values, Change(v)
      PROVE  IInv' /\ Typed
  <2>1. /\ progress.status = "active" /\ answers' = [answers EXCEPT ![Current] = v]
        /\ UNCHANGED <<authored, page, committed, handed, left>> /\ Derived
    BY <1>8 DEF Change
  <2>2. answers' \in [Q -> Values \cup {Absent}]
    BY <1>2, <1>4, <2>1
  <2>3. TypeOK' /\ Rendered'
    BY <1>2, <1>6, <2>1, <2>2
  <2>4. Orderly(authored) => progress' = progress
    <3> SUFFICES ASSUME Orderly(authored) PROVE progress' = progress
      OBVIOUS
    <3>1. progress' = Progress(Shown, answers', committed)
      BY <1>5, <2>1 DEF Derived
    <3>2. Len(committed) \in Nat
      BY <1>2
    <3>3. Shape(Shown) /\ ReadsBack(Shown) /\ SkipsAhead(Shown)
      BY <1>1
    <3>4. /\ DOMAIN answers' = DOMAIN answers
          /\ \A k \in DOMAIN answers : k # Shown[progress.cursor].key => answers'[k] = answers[k]
      BY <2>1 DEF Current
    <3>5. Progress(Shown, answers', committed) = progress
      <4>1. PICK s, a, b : s = Shown /\ a = answers /\ b = answers'
        OBVIOUS
      <4>2. /\ Shape(s) /\ ReadsBack(s) /\ SkipsAhead(s)
            /\ progress = Progress(s, a, committed) /\ progress.status = "active"
            /\ DOMAIN b = DOMAIN a
            /\ \A k \in DOMAIN a : k # s[progress.cursor].key => b[k] = a[k]
        BY <1>3, <2>1, <3>3, <3>4, <4>1
      <4>3. Progress(s, b, committed) = progress
        BY <3>2, <4>2, TypingKeepsProgress
      <4> QED
        BY <4>1, <4>3
    <3> QED
      BY <3>1, <3>5
  <2>5. ReviewedIsHanded'
    <3> SUFFICES ASSUME Orderly(authored), NEW i \in 1 .. progress.passed, answers'[committed[i]] # Absent
                 PROVE  handed[committed[i]] = answers'[committed[i]]
      BY <1>5, <2>1, <2>4 DEF ReviewedIsHanded
    \* It lies before the cursor, where the question that is answered is.
    <3>1. committed[i] # Current
      <4>1. Len(committed) \in Nat /\ Shape(Shown) /\ SkipsAhead(Shown)
        BY <1>1, <1>2
      <4> QED
        BY <1>3, <2>1, <4>1, AsksOther DEF Current
    <3>2. answers'[committed[i]] = answers[committed[i]]
      BY <1>2, <1>7, <2>1, <3>1
    <3> QED
      BY <3>2 DEF ReviewedIsHanded, IInv
  <2> QED
    BY <2>3, <2>4, <2>5 DEF IInv, Typed
<1>9. ASSUME Continue
      PROVE  IInv' /\ Typed
  <2>1. /\ progress.status = "active" /\ Acceptable(Current)
        /\ handed' = [handed EXCEPT ![Current] = IF answers[Current] = Absent THEN @ ELSE answers[Current]]
        /\ committed' = Append(SubSeq(committed, 1, progress.passed), Current)
        /\ UNCHANGED <<authored, page, answers, left>> /\ Derived
    BY <1>9 DEF Continue
  <2>2. /\ committed' \in Seq(Q) /\ Len(committed') = progress.passed + 1 /\ Len(committed') <= M
        /\ \A i \in 1 .. progress.passed : committed'[i] = committed[i]
        /\ committed'[progress.passed + 1] = Current
    BY <1>2, <1>4, <2>1
  <2>3. handed' \in [Q -> (Values \ Malformed) \cup {Absent}]
    BY <1>2, <1>4, <2>1 DEF Acceptable
  <2>4. TypeOK' /\ Rendered' /\ progress'.passed \in 0 .. progress.passed + 1
    BY <1>2, <1>6, <2>1, <2>2, <2>3
  <2>5. ReviewedIsHanded'
    <3> SUFFICES ASSUME Orderly(authored), NEW i \in 1 .. progress'.passed, answers[committed'[i]] # Absent
                 PROVE  handed'[committed'[i]] = answers[committed'[i]]
      BY <1>5, <2>1 DEF ReviewedIsHanded
    <3>1. CASE committed'[i] = Current
      BY <1>2, <1>4, <2>1, <3>1
    <3>2. CASE committed'[i] # Current
      <4>1. i \in 1 .. progress.passed /\ committed'[i] = committed[i]
        BY <1>4, <2>2, <2>4, <3>2
      <4>2. handed[committed[i]] = answers[committed[i]]
        BY <4>1 DEF ReviewedIsHanded, IInv
      <4>3. handed'[committed[i]] = handed[committed[i]]
        BY <1>2, <1>7, <2>1, <3>2, <4>1
      <4> QED
        BY <4>1, <4>2, <4>3
    <3> QED
      BY <3>1, <3>2
  <2> QED
    BY <2>1, <2>4, <2>5 DEF IInv, Typed
<1>10. ASSUME Back
       PROVE  IInv' /\ Typed
  <2>1. /\ committed' = SubSeq(committed, 1, progress.passed - 1)
        /\ UNCHANGED <<authored, page, answers, handed, left>> /\ Derived
    BY <1>10 DEF Back
  <2>2. /\ committed' \in Seq(Q) /\ Len(committed') <= M /\ Len(committed') <= progress.passed
        /\ \A i \in 1 .. Len(committed') : committed'[i] = committed[i]
    BY <1>2, <1>4, <2>1
  <2>3. TypeOK' /\ Rendered' /\ progress'.passed \in 0 .. Len(committed')
    BY <1>2, <1>6, <2>1, <2>2
  <2>4. ReviewedIsHanded'
    <3> SUFFICES ASSUME Orderly(authored), NEW i \in 1 .. progress'.passed, answers[committed'[i]] # Absent
                 PROVE  handed[committed'[i]] = answers[committed'[i]]
      BY <1>5, <2>1 DEF ReviewedIsHanded
    <3>1. i \in 1 .. progress.passed /\ committed'[i] = committed[i]
      BY <1>4, <2>2, <2>3
    <3> QED
      BY <3>1 DEF ReviewedIsHanded, IInv
  <2> QED
    BY <2>1, <2>3, <2>4 DEF IInv, Typed
<1>11. ASSUME Restart
       PROVE  IInv' /\ Typed
  <2>1. /\ progress.status # "active" /\ answers' = Blank /\ committed' = <<>>
        /\ UNCHANGED <<authored, page, handed, left>> /\ Derived
    BY <1>11 DEF Restart
  <2>2. answers' \in [Q -> Values \cup {Absent}] /\ committed' \in Seq(Q) /\ Len(committed') = 0
    BY <2>1 DEF Blank, Q
  <2>3. TypeOK' /\ Rendered' /\ progress'.passed = 0
    BY <1>2, <1>4, <1>6, <2>1, <2>2
  <2>4. ReviewedIsHanded'
    BY <2>3 DEF ReviewedIsHanded
  <2> QED
    BY <2>1, <2>3, <2>4 DEF IInv, Typed
<1>12. ASSUME UNCHANGED <<authored, page, answers, committed, progress, handed>>, left' \in BOOLEAN
       PROVE  IInv' /\ Typed
  <2>1. Shown' = Shown
    BY <1>5, <1>12
  <2>2. TypeOK'
    BY <1>12, <2>1 DEF TypeOK, IInv, Current, QuestionAt, MaxSteps, Questions
  <2>3. Rendered' /\ ReviewedIsHanded'
    BY <1>3, <1>12, <2>1 DEF Rendered, ReviewedIsHanded, IInv
  <2> QED
    BY <1>12, <2>2, <2>3 DEF IInv, Typed
<1>13. CASE Complete
  BY <1>12, <1>13 DEF Complete
<1>14. CASE UNCHANGED vars
  BY <1>2, <1>12, <1>14 DEF vars
<1> QED
  BY <1>8, <1>9, <1>10, <1>11, <1>13, <1>14 DEF Next, Rest

THEOREM Invariance == Spec => []IInv
<1>1. Init => IInv
  BY Initially
<1>2. IInv /\ [Next]_vars => IInv'
  BY Step
<1> QED
  BY <1>1, <1>2, PTL DEF Spec

\* The form's state has its type: it asks a visible question of the survey, has passed no
\* more than was committed, and hands on nothing malformed.
THEOREM TypeCorrect == Spec => []TypeOK
<1>1. IInv => TypeOK
  BY DEF IInv
<1> QED
  BY <1>1, Invariance, PTL

\* In a survey whose rules read back and lead ahead, the respondent reviews and submits
\* the answers that were handed over to be saved (handleContinue, handleBack,
\* deriveSurveyProgress).
THEOREM ReviewsWhatWasHanded == Spec => []ReviewedIsHanded
<1>1. IInv => ReviewedIsHanded
  BY DEF IInv
<1> QED
  BY <1>1, Invariance, PTL

\* In such a survey nothing of the form moves while an answer is being typed
\* (handleAnswerChange, and the progress derived from it).
THEOREM TypingStaysPut == Spec => TypingStays
<1>1. IInv /\ [Next]_vars =>
          [progress.status = "active" /\ committed' = committed /\ answers' # answers /\ Orderly(authored) =>
              progress' = progress]_vars
  BY Step DEF Typed
<1> QED
  BY <1>1, Invariance, PTL DEF Spec, TypingStays

\* The preview of such a survey never shows the form for an invalid survey: no rule
\* leads nowhere, and the safety counter does not run out (deriveSurveyProgress).
THEOREM PreviewEnds == Spec => [](page = "preview" /\ Orderly(authored) => progress.status # "invalid")
<1>1. IInv => (page = "preview" /\ Orderly(authored) => progress.status # "invalid")
  <2> SUFFICES ASSUME IInv, page = "preview", Orderly(authored) PROVE progress.status # "invalid"
    OBVIOUS
  <2>1. Shown = authored /\ authored \in Surveys /\ progress = Progress(Shown, answers, committed)
    BY DEF IInv, TypeOK, Rendered, Shown
  <2>2. Len(committed) \in Nat
    BY DEF IInv, TypeOK
  <2> QED
    BY <2>1, <2>2, OrderlySurveysEnd
<1> QED
  BY <1>1, Invariance, PTL

-----------------------------------------------------------------------------
(* The form as a stack of questions *)

\* Nothing is committed behind what the walk has passed.
PassedAll == Orderly(authored) => progress.passed = Len(committed)

LEMMA Fronts ==
    ASSUME NEW Q, NEW c \in Seq(Q)
    PROVE  /\ Len(c) = 0 => SubSeq(c, 1, Len(c) - 1) = c
           /\ Len(c) > 0 => /\ Len(SubSeq(c, 1, Len(c) - 1)) = Len(c) - 1
                            /\ \A i \in 1 .. Len(c) - 1 : SubSeq(c, 1, Len(c) - 1)[i] = c[i]
<1>1. Len(c) \in Nat
  OBVIOUS
<1>2. CASE Len(c) = 0
  <2>1. SubSeq(c, 1, -1) = <<>> /\ c = <<>>
    BY <1>2
  <2> QED
    BY <1>2, <2>1
<1>3. CASE Len(c) > 0
  <2>0. Len(c) - 1 \in Nat /\ Len(c) - 1 <= Len(c)
    BY <1>1, <1>3
  <2>1. PICK n \in Nat : n = Len(c) - 1 /\ n <= Len(c)
    BY <2>0
  <2>2. Len(SubSeq(c, 1, n)) = n
    BY <1>1, <2>1
  <2>3. \A i \in 1 .. n : SubSeq(c, 1, n)[i] = c[i]
    BY <1>1, <2>1
  <2> QED
    BY <1>3, <2>1, <2>2, <2>3
<1> QED
  BY <1>1, <1>2, <1>3

LEMMA StackAsks == IInv /\ PassedAll /\ Orderly(authored) => Stack!Ask
<1> SUFFICES ASSUME IInv, PassedAll, Orderly(authored), progress.status = "active"
             PROVE  /\ Current \in Keys \cup Ids
                    /\ \A i \in DOMAIN committed : committed[i] # Current
  BY DEF Stack!Ask, Stack!Passed
<1>1. Shape(Shown) /\ SkipsAhead(Shown)
  BY ShownShape DEF IInv, TypeOK
<1>2. /\ progress = Progress(Shown, answers, committed) /\ committed \in Seq(Questions(Shown))
      /\ authored \in Surveys
  BY DEF IInv, TypeOK, Rendered
<1>3. Len(committed) \in Nat /\ DOMAIN committed = 1 .. progress.passed
  BY <1>2 DEF PassedAll
<1>4. Current \in Questions(Shown)
  BY <1>1, <1>2, DerivedTypes DEF Current
<1>5. Questions(Shown) \subseteq Keys \cup Ids
  BY <1>2, Shapes DEF Shown
<1>6. \A i \in DOMAIN committed : committed[i] # Current
  BY <1>1, <1>2, <1>3, AsksOther DEF Current
<1> QED
  BY <1>4, <1>5, <1>6

LEMMA StackAsksNext == (IInv /\ PassedAll /\ Orderly(authored))' => Stack!Ask'
BY StackAsks, PTL

\* Each handler is one of the stack's operations.
LEMMA StackStep ==
    ASSUME IInv, PassedAll, [Next]_vars
    PROVE  PassedAll' /\ (Orderly(authored) => Stack!Next \/ UNCHANGED Stack!vars)
<1> DEFINE p == progress
           c == committed
<1>0. UNCHANGED <<authored, page>> /\ Shown' = Shown /\ Orderly(authored)' = Orderly(authored)
  <2>1. UNCHANGED <<authored, page>>
    BY DEF Next, Change, Continue, Back, Restart, Complete, Rest, vars
  <2> QED
    BY <2>1 DEF Shown
<1> SUFFICES ASSUME Orderly(authored)
             PROVE  PassedAll' /\ (Stack!Next \/ UNCHANGED Stack!vars)
  BY <1>0 DEF PassedAll
<1>1. Shape(Shown) /\ c \in Seq(Questions(Shown)) /\ p = Progress(Shown, answers, c)
  BY ShownShape DEF IInv, TypeOK, Rendered
<1>2. /\ Len(c) \in Nat /\ p.passed = Len(c)
      /\ answers \in [Questions(Shown) -> Values \cup {Absent}]
  BY <1>1 DEF PassedAll, IInv, TypeOK
<1>3. p.status = "active" => Current \in Questions(Shown)
  BY <1>1, DerivedTypes DEF Current
<1>4. Questions(Shown) \subseteq Keys \cup Ids
  BY Shapes DEF Shown, IInv, TypeOK
<1>5. IInv' /\ Typed
  BY Step
<1>6. PassedAll' => Stack!Ask'
  BY <1>0, <1>5, StackAsksNext
<1> HIDE DEF p, c
<1>7. ASSUME NEW v \in Values, Change(v)
      PROVE  PassedAll' /\ Stack!Next
  <2>1. /\ ~left /\ progress.status = "active" /\ answers' = [answers EXCEPT ![Current] = v]
        /\ UNCHANGED <<committed, handed, left>>
    BY <1>7 DEF Change
  <2>2. progress' = progress
    <3>1. CASE answers' = answers
      BY <1>0, <1>1, <1>7, <2>1, <3>1 DEF Change, Derived, p, c
    <3>2. CASE answers' # answers
      BY <1>5, <2>1, <3>2 DEF Typed
    <3> QED
      BY <3>1, <3>2
  <2>3. PassedAll' /\ Current' = Current
    BY <1>0, <1>2, <2>1, <2>2 DEF PassedAll, Current, p, c
  <2>4. Stack!Change(Current, v)
    BY <2>1, <2>2, <2>3 DEF Stack!Change
  <2> QED
    BY <1>3, <1>4, <2>1, <2>3, <2>4 DEF Stack!Next, p
<1>8. ASSUME Continue
      PROVE  PassedAll' /\ Stack!Next
  <2>1. /\ ~left /\ progress.status = "active" /\ UNCHANGED <<answers, left>>
        /\ handed' = [handed EXCEPT ![Current] = IF answers[Current] = Absent THEN @ ELSE answers[Current]]
        /\ committed' = Append(SubSeq(committed, 1, progress.passed), Current)
        /\ progress' = Progress(Shown, answers', committed')
    BY <1>0, <1>8 DEF Continue, Derived
  <2>4. committed' = Append(committed, Current) /\ Len(committed') = progress.passed + 1
    BY <1>1, <1>2, <2>1 DEF p, c
  <2>2. progress'.passed = progress.passed + 1
    <3>1. PICK s, a, Q, b, r, d : /\ s = Shown /\ a = answers /\ Q = Questions(Shown)
                                 /\ b = committed /\ r = progress /\ d = committed'
      OBVIOUS
    <3>2. /\ Shape(s) /\ b \in Seq(Q) /\ r = Progress(s, a, b) /\ r.status = "active"
          /\ Len(d) = r.passed + 1 /\ d[r.passed + 1] = s[r.cursor].key
          /\ \A i \in 1 .. r.passed : d[i] = b[i]
      BY <1>1, <1>2, <2>1, <2>4, <3>1 DEF p, c, Current
    <3>3. Progress(s, a, d).passed = r.passed + 1
      BY <3>2, ContinuedProgress
    <3> QED
      BY <2>1, <3>1, <3>3
  <2>3. PassedAll'
    BY <2>2, <2>4 DEF PassedAll
  <2>5. Stack!Continue(Current)
    BY <1>6, <2>1, <2>3, <2>4 DEF Stack!Continue
  <2> QED
    BY <1>3, <1>4, <2>1, <2>3, <2>5 DEF Stack!Next, p
<1>9. ASSUME Back
      PROVE  PassedAll' /\ (Stack!Next \/ UNCHANGED Stack!vars)
  <2>1. /\ ~left /\ UNCHANGED <<answers, handed, left>>
        /\ committed' = SubSeq(committed, 1, progress.passed - 1)
        /\ progress' = Progress(Shown, answers', committed')
    BY <1>0, <1>9 DEF Back, Derived
  <2>2. CASE progress.passed = 0
    <3>1. committed' = committed
      BY <1>1, <1>2, <2>1, <2>2, Fronts DEF p, c
    <3>2. progress' = progress
      BY <1>1, <2>1, <3>1 DEF p, c
    <3> QED
      BY <1>0, <1>2, <2>1, <3>1, <3>2 DEF PassedAll, Stack!vars, Current, p, c
  <2>3. CASE progress.passed > 0
    <3>1. PICK s, a, Q, b, r, d : /\ s = Shown /\ a = answers /\ Q = Questions(Shown)
                                 /\ b = committed /\ r = progress /\ d = committed'
      OBVIOUS
    <3>2. /\ Shape(s) /\ b \in Seq(Q) /\ r = Progress(s, a, b) /\ r.passed > 0
          /\ Len(d) = r.passed - 1 /\ \A i \in 1 .. r.passed - 1 : d[i] = b[i]
      BY <1>1, <1>2, <2>1, <2>3, <3>1, Fronts DEF p, c
    <3>3. PICK w : w = Progress(s, a, d)
      OBVIOUS
    <3>4. w.status = "active" /\ w.passed = r.passed - 1 /\ s[w.cursor].key = b[r.passed]
      BY <3>2, <3>3, BackProgress
    <3>5. /\ progress'.status = "active" /\ progress'.passed = progress.passed - 1
          /\ Current' = committed[progress.passed]
      BY <1>0, <2>1, <3>1, <3>3, <3>4 DEF Current
    <3>6. Len(committed') = progress.passed - 1
      BY <1>1, <1>2, <2>1, <2>3, Fronts DEF p, c
    <3>7. PassedAll'
      BY <3>5, <3>6 DEF PassedAll
    <3>8. committed # <<>> /\ progress.passed = Len(committed)
      BY <1>2, <2>3 DEF p, c
    <3>9. Stack!Back
      BY <2>1, <3>5, <3>8 DEF Stack!Back
    <3> QED
      BY <3>7, <3>9 DEF Stack!Next
  <2> QED
    BY <1>2, <2>2, <2>3 DEF p
<1>10. ASSUME Restart
       PROVE  PassedAll' /\ Stack!Next
  <2>1. /\ ~left /\ progress.status # "active" /\ answers' = Blank /\ committed' = <<>>
        /\ UNCHANGED <<handed, left>>
    BY <1>10 DEF Restart
  <2>2. progress'.passed \in 0 .. Len(committed')
    BY <1>5 DEF IInv, TypeOK
  <2>3. PassedAll'
    BY <2>1, <2>2 DEF PassedAll
  <2>4. answers' = [q \in DOMAIN answers |-> Absent]
    BY <1>2, <2>1 DEF Blank
  <2>5. Stack!Restart
    BY <1>6, <2>1, <2>3, <2>4 DEF Stack!Restart
  <2> QED
    BY <2>3, <2>5 DEF Stack!Next
<1>11. ASSUME UNCHANGED <<committed, progress>>
       PROVE  PassedAll' /\ Current' = Current
  BY <1>0, <1>2, <1>11 DEF PassedAll, Current, p, c
<1>12. CASE Complete
  <2>1. Stack!Leave
    BY <1>11, <1>12 DEF Complete, Stack!Leave
  <2> QED
    BY <1>11, <1>12, <2>1 DEF Complete, Stack!Next
<1>13. CASE UNCHANGED vars
  BY <1>11, <1>13 DEF vars, Stack!vars
<1> QED
  BY <1>7, <1>8, <1>9, <1>10, <1>12, <1>13 DEF Next, Rest

LEMMA StackInitially == Init => PassedAll /\ (Orderly(authored) => Stack!Init)
<1> SUFFICES ASSUME Init PROVE PassedAll /\ (Orderly(authored) => Stack!Init)
  OBVIOUS
<1>1. IInv
  BY Initially
<1>2. PassedAll
  BY <1>1 DEF Init, IInv, TypeOK, PassedAll
<1>3. Orderly(authored) => Stack!Ask
  BY <1>1, <1>2, StackAsks
<1>4. Orderly(authored) => Stack!Init
  BY <1>3 DEF Init, Blank, Stack!Init
<1> QED
  BY <1>2, <1>4

\* However often answers change, questions are committed and taken back, nothing is
\* committed that the walk does not pass: trimming the commits in handleContinue loses
\* no answer of an orderly survey (effectiveCommittedIds).
THEOREM NothingCommittedIsLost == Spec => [](Orderly(authored) => progress.passed = Len(committed))
<1>1. IInv /\ PassedAll /\ [Next]_vars => PassedAll'
  BY StackStep
<1>2. Init => PassedAll
  BY StackInitially
<1>3. Spec => []PassedAll
  BY <1>1, <1>2, Invariance, PTL DEF Spec
<1> QED
  BY <1>3, PTL DEF PassedAll

\* The form implements Questionnaire: on an orderly survey each handler is one operation
\* of a stack of questions (handleContinue, handleBack, handleRestart).
THEOREM FormIsStack == Spec => ActsAsStack
<1>1. Init => (Orderly(authored) => Stack!Init)
  BY StackInitially
<1>2. IInv /\ PassedAll /\ [Next]_vars => [Orderly(authored) => Stack!Next \/ UNCHANGED Stack!vars]_vars
  BY StackStep
<1>3. Spec => []PassedAll
  BY NothingCommittedIsLost, PTL DEF PassedAll
<1> QED
  BY <1>1, <1>2, <1>3, Invariance, PTL DEF Spec, ActsAsStack
=============================================================================
