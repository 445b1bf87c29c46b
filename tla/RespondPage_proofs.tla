------------------------- MODULE RespondPage_proofs -------------------------
(***************************************************************************)
(* Proofs about RespondPage, for surveys of any length and any number of   *)
(* commits of a question and of visits.                                    *)
(***************************************************************************)
EXTENDS RespondPage, TLAPS

-----------------------------------------------------------------------------
(* The inductive invariant *)

\* A save is a call exactly when its commit was made; the server works on
\* calls that it was sent, and a call that was answered well took effect.
CallInv ==
    /\ \A q \in Questions, k \in 1..MaxCommits : call[<<q, k>>] # "unsent" <=> k <= commits[q]
    /\ \A c \in Calls : heard[c] # "nothing" => call[c] # "unsent"
    /\ \A c \in Calls : heard[c] = "ok" => call[c] = "served"
    /\ \A c \in Calls : admitted[c] # NoRequest <=> call[c] = "serving"
    /\ \A c \in Calls : call[c] = "serving" => admitted[c] = Request(c)

\* What the present visit knows of: it hears of the calls that it has made, and
\* of no others.
VisitInv ==
    /\ \A q \in Questions, k \in 1..MaxCommits :
          call[<<q, k>>] # "unsent" /\ heard[<<q, k>>] = "nothing" => q \in saved
    /\ \A q \in saved : commits[q] >= 1 /\ heard[<<q, commits[q]>>] # "gone"
    /\ \A v \in 1..MaxVisits :
          /\ v > visit => call[<<0, v>>] = "unsent"
          /\ v < visit /\ call[<<0, v>>] # "unsent" => heard[<<0, v>>] # "nothing"
    /\ page = "loading" => saved = {}

\* A row holds an answer that was committed.
StoredInv ==
    \A q \in Questions :
        /\ stored[q] <= commits[q]
        /\ \A k \in 1..MaxCommits : call[<<q, k>>] = "served" => stored[q] # 0

\* While only one save of a question has been made, the map has it.
InflightInv ==
    \A q \in Questions :
        commits[q] = 1 /\ heard[<<q, 1>>] = "nothing" =>
            /\ page = "filling" => inflight[q] = 1
            /\ page = "waiting" => <<q, 1>> \in awaited

\* What the page knows once it has asked for the completion.
CompletionInv ==
    /\ call[Completion] # "unsent" =>
          /\ page \notin {"loading", "filling", "waiting"}
          /\ heard[Completion] = "nothing" => page = "completing"
          /\ \A q \in Questions : commits[q] = 1 => heard[<<q, 1>>] # "nothing"
    /\ Submitted => call[Completion] # "unsent"

IInv == TypeOK /\ NothingUnsaved /\ CallInv /\ VisitInv /\ StoredInv /\ InflightInv /\ CompletionInv

-----------------------------------------------------------------------------
\* A call is a save of a question or a completion, and not both.
LEMMA CallFacts ==
    /\ Calls = Saves \cup Completions /\ Completions \cap Saves = {}
    /\ \A q \in Questions, k \in 1..MaxCommits :
          <<q, k>> \in Saves /\ <<q, k>> \in Calls /\ <<q, k>> \notin Completions
    /\ \A c \in Saves : c[1] \in Questions /\ c[2] \in 1..MaxCommits /\ c = <<c[1], c[2]>>
    /\ \A v \in 1..MaxVisits : <<0, v>> \in Completions /\ <<0, v>> \in Calls
    /\ \A c \in Completions : \E v \in 1..MaxVisits : c = <<0, v>>
<1>1. Calls = Saves \cup Completions
  BY DEF Calls
<1>2. Completions \cap Saves = {}
  BY DEF Completions, Saves, Questions
<1>3. \A q \in Questions, k \in 1..MaxCommits :
         <<q, k>> \in Saves /\ <<q, k>> \in Calls /\ <<q, k>> \notin Completions
  BY <1>1, <1>2 DEF Saves
<1>4. \A c \in Saves : c[1] \in Questions /\ c[2] \in 1..MaxCommits /\ c = <<c[1], c[2]>>
  BY DEF Saves
<1>5. \A v \in 1..MaxVisits : <<0, v>> \in Completions /\ <<0, v>> \in Calls
  BY <1>1 DEF Completions
<1>6. \A c \in Completions : \E v \in 1..MaxVisits : c = <<0, v>>
  BY DEF Completions
<1>. QED
  BY <1>1, <1>2, <1>3, <1>4, <1>5, <1>6

\* What is requested by each kind of call.
LEMMA SaveRequest ==
    ASSUME NEW c \in Saves
    PROVE  Request(c) = [kind |-> "save", session |-> Session, question |-> c[1]]
BY CallFacts DEF Request

LEMMA CompletionRequest ==
    ASSUME NEW c \in Completions
    PROVE  Request(c) = [kind |-> "complete", session |-> Session]
BY DEF Request

\* The completion of the present visit is the only one still to be heard of.
LEMMA PresentCompletion ==
    ASSUME TypeOK
    PROVE  /\ Completion \in Completions /\ Completion \in Calls
           /\ \A c \in Completions :
                 VisitInv /\ call[c] # "unsent" /\ heard[c] = "nothing" => c = Completion
<1>1. visit \in 1..MaxVisits
  BY DEF TypeOK
<1>2. Completion \in Completions /\ Completion \in Calls
  BY <1>1, CallFacts DEF Completion
<1>3. ASSUME VisitInv, NEW c \in Completions, call[c] # "unsent", heard[c] = "nothing"
      PROVE  c = Completion
  <2>1. PICK v \in 1..MaxVisits : c = <<0, v>>
    BY CallFacts
  <2>2. ~(v > visit) /\ ~(v < visit)
    BY <1>3, <2>1 DEF VisitInv
  <2>3. v = visit
    BY <1>1, <2>2, PageAssumption
  <2>. QED
    BY <2>1, <2>3 DEF Completion
<1>. QED
  BY <1>2, <1>3

-----------------------------------------------------------------------------
\* The initial states satisfy the invariant.
LEMMA InitIInv == Init => IInv
<1> SUFFICES ASSUME Init PROVE IInv
  OBVIOUS
<1> USE CallFacts, PageAssumption DEF Init, Server!Init
<1>1. TypeOK
  BY DEF TypeOK, Questions
<1>2. NothingUnsaved /\ StoredInv /\ InflightInv
  BY DEF NothingUnsaved, Unsaved, StoredInv, InflightInv
<1>3. CallInv
  BY DEF CallInv
<1>4. VisitInv
  BY DEF VisitInv
<1>5. CompletionInv
  BY <1>1, PresentCompletion DEF CompletionInv, Submitted
<1>. QED
  BY <1>1, <1>2, <1>3, <1>4, <1>5 DEF IInv

\* Loading the page preserves it.
LEMMA LoadIInv ==
    ASSUME IInv, Reload \/ Resume \/ ResumeFails
    PROVE  IInv'
<1> USE CallFacts, PageAssumption DEF IInv
<1>1. CASE Reload
  <2> USE <1>1 DEF Reload, serverVars
  <2>1. TypeOK'
    <3>1. heard' \in [Calls -> {"nothing", "ok", "error", "gone"}]
      BY DEF TypeOK
    <3>2. visit' \in 1..MaxVisits /\ at' \in 1..(NumQuestions + 1)
      BY DEF TypeOK
    <3>3. /\ answer' \in [Questions -> 0..MaxCommits]
          /\ inflight' \in [Questions -> 0..MaxCommits]
      OBVIOUS
    <3>. QED
      BY <3>1, <3>2, <3>3 DEF TypeOK
  <2>2. NothingUnsaved' /\ StoredInv'
    BY DEF NothingUnsaved, Unsaved, StoredInv
  <2>3. \A c \in Calls : call[c] # "unsent" => heard'[c] # "nothing"
    BY DEF TypeOK
  <2>4. CallInv'
    BY DEF TypeOK, CallInv
  <2>5. VisitInv'
    BY <2>3 DEF TypeOK, VisitInv
  <2>6. InflightInv'
    BY DEF InflightInv
  <2>7. CompletionInv'
    <3>1. call[<<0, visit'>>] = "unsent"
      BY <2>1 DEF TypeOK, VisitInv
    <3>. QED
      BY <3>1 DEF CompletionInv, Completion, Submitted
  <2>. QED
    BY <2>1, <2>2, <2>4, <2>5, <2>6, <2>7
<1>2. CASE Resume \/ ResumeFails
  <2> USE <1>2 DEF Resume, ResumeFails, formVars, serverVars
  <2>1. TypeOK' /\ NothingUnsaved' /\ CallInv' /\ StoredInv'
    BY DEF TypeOK, NothingUnsaved, Unsaved, CallInv, StoredInv
  <2>2. VisitInv'
    BY DEF VisitInv
  <2>3. InflightInv'
    BY DEF TypeOK, InflightInv, VisitInv, CallInv
  <2>4. CompletionInv'
    BY DEF CompletionInv, Completion, Submitted
  <2>. QED
    BY <2>1, <2>2, <2>3, <2>4
<1>. QED
  BY <1>1, <1>2

\* So does filling in the form.
LEMMA FillIInv ==
    ASSUME IInv, Fill
    PROVE  IInv'
<1> USE PageAssumption DEF IInv, formVars, serverVars
<1>1. CASE ContinueAnswered
  <2> DEFINE k == commits[at] + 1
  <2>a. /\ at \in Questions /\ k \in 1..MaxCommits /\ at + 1 \in 1..(NumQuestions + 1)
        /\ page = "filling"
    BY <1>1 DEF ContinueAnswered, TypeOK, Questions
  <2>b. /\ commits' = [commits EXCEPT ![at] = k]
        /\ answer' = [answer EXCEPT ![at] = k]
        /\ inflight' = [inflight EXCEPT ![at] = k]
        /\ call' = [call EXCEPT ![<<at, k>>] = "sent"]
        /\ saved' = saved \cup {at}
    BY <1>1, <2>a DEF ContinueAnswered, Send, TypeOK
  <2>c. UNCHANGED <<visit, page, awaited, heard, serverVars>> /\ at' = at + 1
    BY <1>1 DEF ContinueAnswered
  <2>d. /\ call[<<at, k>>] = "unsent" /\ heard[<<at, k>>] = "nothing"
        /\ <<at, k>> \in Calls
    BY <2>a, CallFacts DEF TypeOK, CallInv
  <2> HIDE DEF k
  <2>1. TypeOK'
    <3>1. /\ answer' \in [Questions -> 0..MaxCommits]
          /\ commits' \in [Questions -> 0..MaxCommits]
          /\ inflight' \in [Questions -> 0..MaxCommits]
      BY <2>a, <2>b DEF TypeOK
    <3>2. call' \in [Calls -> {"unsent", "sent", "serving", "served", "refused"}]
      BY <2>d, <2>b DEF TypeOK
    <3>. QED
      BY <2>a, <2>b, <2>c, <3>1, <3>2 DEF TypeOK
  <2>2. NothingUnsaved'
    BY <2>a, <2>b DEF TypeOK, NothingUnsaved, Unsaved
  <2>e. \A q \in Questions, j \in 1..MaxCommits :
           /\ <<q, j>> \in Calls
           /\ <<q, j>> # <<at, k>> => call'[<<q, j>>] = call[<<q, j>>]
    BY <2>b, CallFacts DEF TypeOK
  <2>f. \A c \in Completions : c \in Calls /\ call'[c] = call[c]
    BY <2>a, <2>b, CallFacts DEF TypeOK
  <2>3. CallInv'
    <3>1. ASSUME NEW q \in Questions, NEW j \in 1..MaxCommits
          PROVE  call'[<<q, j>>] # "unsent" <=> j <= commits'[q]
      <4>1. CASE q = at /\ j = k
        BY <4>1, <2>a, <2>b, <2>d DEF TypeOK
      <4>2. CASE ~(q = at /\ j = k)
        <5>1. call'[<<q, j>>] = call[<<q, j>>]
          BY <4>2, <2>e
        <5>2. j <= commits'[q] <=> j <= commits[q]
          BY <4>2, <2>a, <2>b DEF TypeOK, k
        <5>. QED
          BY <5>1, <5>2 DEF CallInv
      <4>. QED
        BY <4>1, <4>2
    <3>2. \A c \in Calls : call'[c] = IF c = <<at, k>> THEN "sent" ELSE call[c]
      BY <2>b DEF TypeOK
    <3>. QED
      BY <2>c, <2>d, <3>1, <3>2 DEF CallInv
  <2>4. StoredInv'
    <3>1. \A q \in Questions : stored'[q] = stored[q] /\ commits[q] <= commits'[q]
      BY <2>a, <2>b, <2>c DEF TypeOK, k
    <3>2. \A q \in Questions : stored'[q] <= commits'[q]
      BY <3>1, <2>1 DEF StoredInv, TypeOK
    <3>3. call'[<<at, k>>] = "sent"
      BY <2>b, <2>d DEF TypeOK
    <3>4. \A q \in Questions, j \in 1..MaxCommits :
             call'[<<q, j>>] = "served" => call[<<q, j>>] = "served"
      BY <3>3, <2>e
    <3>. QED
      BY <3>1, <3>2, <3>4 DEF StoredInv
  <2>5. InflightInv'
    BY <2>a, <2>b, <2>c DEF TypeOK, InflightInv, k
  <2>6. CompletionInv'
    <3>1. call'[Completion'] = "unsent"
      BY <2>a, <2>c, <2>f, PresentCompletion DEF CompletionInv, Completion
    <3>. QED
      BY <2>a, <2>c, <3>1 DEF CompletionInv, Submitted
  <2>7. VisitInv'
    <3>1. ASSUME NEW q \in Questions, NEW j \in 1..MaxCommits,
                 call'[<<q, j>>] # "unsent", heard'[<<q, j>>] = "nothing"
          PROVE  q \in saved'
      BY <3>1, <2>b, <2>c, <2>e DEF VisitInv
    <3>2. \A q \in saved' : commits'[q] >= 1 /\ heard'[<<q, commits'[q]>>] # "gone"
      BY <2>a, <2>b, <2>c, <2>d DEF TypeOK, VisitInv
    <3>. QED
      BY <3>1, <3>2, <2>a, <2>c, <2>f, CallFacts DEF VisitInv
  <2>. QED
    BY <2>1, <2>2, <2>3, <2>4, <2>5, <2>6, <2>7
<1>2. CASE ContinueEmpty \/ Back \/ Discard
  <2> USE <1>2 DEF ContinueEmpty, Back, Discard
  <2>a. at' \in 1..(NumQuestions + 1)
    <3>1. at \in 1..(NumQuestions + 1) /\ NumQuestions \in Nat
      BY DEF TypeOK
    <3>2. \/ at \in 1..NumQuestions /\ at' = at + 1
          \/ at > 1 /\ at' \in {at, at - 1}
      BY DEF Questions
    <3>. QED
      BY ONLY <3>1, <3>2
  <2>b. answer' \in [Questions -> 0..MaxCommits] /\ \A q \in Questions : answer'[q] \in {answer[q], 0}
    <3>1. answer \in [Questions -> 0..MaxCommits] /\ 0 \in 0..MaxCommits
      BY DEF TypeOK
    <3>2. answer' = answer \/ answer' = [answer EXCEPT ![at] = 0]
      OBVIOUS
    <3>. QED
      BY ONLY <3>1, <3>2
  <2>c. page' \in {"filling", "error"} /\ UNCHANGED <<visit, commits, saved, inflight, awaited, heard, call>>
    OBVIOUS
  <2>d. UNCHANGED <<state, admitted, answers, erased, stored>>
    OBVIOUS
  <2>1. TypeOK' /\ NothingUnsaved'
    <3>1. TypeOK'
      BY ONLY <2>a, <2>b, <2>c, <2>d, TypeOK DEF TypeOK
    <3>. QED
      BY <2>b, <2>c, <3>1 DEF NothingUnsaved, Unsaved
  <2>2. CallInv' /\ StoredInv'
    BY DEF CallInv, StoredInv
  <2>3. VisitInv'
    BY DEF VisitInv
  <2>4. InflightInv' /\ CompletionInv'
    BY DEF InflightInv, CompletionInv, Completion, Submitted
  <2>. QED
    BY <2>1, <2>2, <2>3, <2>4
<1>. QED
  BY <1>1, <1>2 DEF Fill

\* So does the submission.
LEMMA SubmitIInv ==
    ASSUME IInv, Submit \/ RequestCompletion \/ AwaitedSaveFailed
    PROVE  IInv'
<1> USE CallFacts, PageAssumption DEF IInv, formVars, serverVars
<1>1. CASE Submit
  <2> USE <1>1 DEF Submit
  <2>1. TypeOK' /\ NothingUnsaved' /\ CallInv' /\ StoredInv'
    BY DEF TypeOK, NothingUnsaved, Unsaved, CallInv, StoredInv
  <2>2. VisitInv' /\ CompletionInv'
    BY DEF VisitInv, CompletionInv, Completion, Submitted
  <2>3. InflightInv'
    BY DEF TypeOK, InflightInv
  <2>. QED
    BY <2>1, <2>2, <2>3
<1>2. CASE RequestCompletion
  <2>1. /\ page = "waiting" /\ page' = "completing"
        /\ \A c \in awaited : heard[c] = "ok"
        /\ call' = [call EXCEPT ![Completion] = "sent"]
        /\ UNCHANGED <<visit, formVars, inflight, awaited, heard, serverVars>>
    BY <1>2 DEF RequestCompletion, Send
  <2>2. Completion \in Completions /\ Completion \in Calls
    BY PresentCompletion
  <2>3. call[Completion] = "unsent" /\ heard[Completion] = "nothing"
    BY <2>1, <2>2 DEF TypeOK, CompletionInv, CallInv
  <2>4. /\ \A c \in Calls \ {Completion} : call'[c] = call[c]
        /\ \A c \in Saves : call'[c] = call[c]
        /\ call'[Completion] = "sent"
    BY <2>1, <2>2 DEF TypeOK
  <2>5. TypeOK' /\ NothingUnsaved'
    BY <2>1, <2>2 DEF TypeOK, NothingUnsaved, Unsaved
  <2>6. CallInv' /\ StoredInv'
    BY <2>1, <2>2, <2>3, <2>4 DEF CallInv, StoredInv
  <2>7. VisitInv'
    <3>1. \A v \in 1..MaxVisits : v # visit => call'[<<0, v>>] = call[<<0, v>>]
      BY <2>4 DEF Completion
    <3>2. visit \in 1..MaxVisits
      BY DEF TypeOK
    <3>. QED
      BY <2>1, <2>4, <3>1, <3>2 DEF VisitInv
  <2>8. InflightInv'
    BY <2>1 DEF InflightInv
  <2>9. CompletionInv'
    <3>1. \A q \in Questions : commits[q] = 1 => heard[<<q, 1>>] # "nothing"
      BY <2>1 DEF InflightInv
    <3>. QED
      BY <2>1, <2>4, <3>1 DEF CompletionInv, Completion, Submitted
  <2>. QED
    BY <2>5, <2>6, <2>7, <2>8, <2>9
<1>3. CASE AwaitedSaveFailed
  <2> USE <1>3 DEF AwaitedSaveFailed
  <2>1. TypeOK' /\ NothingUnsaved' /\ CallInv' /\ StoredInv'
    BY DEF TypeOK, NothingUnsaved, Unsaved, CallInv, StoredInv
  <2>2. VisitInv' /\ CompletionInv' /\ InflightInv'
    BY DEF VisitInv, CompletionInv, InflightInv, Completion, Submitted
  <2>. QED
    BY <2>1, <2>2
<1>. QED
  BY <1>1, <1>2, <1>3

\* An answer clears the map's entry of a question, or leaves the map alone.
LEMMA Clearing ==
    ASSUME inflight \in [Questions -> 0..MaxCommits], NEW c,
           c \notin Completions => inflight' = [inflight EXCEPT ![c[1]] = 0],
           c \in Completions => inflight' = inflight
    PROVE  inflight' \in [Questions -> 0..MaxCommits]
<1>1. 0 \in 0..MaxCommits
  BY PageAssumption
<1>. QED
  BY <1>1

\* So do the answers to the calls.
LEMMA SettleIInv ==
    ASSUME IInv, NEW c \in Calls, Settle(c)
    PROVE  IInv'
<1> USE CallFacts, PageAssumption DEF IInv, formVars, serverVars
<1>1. /\ heard[c] = "nothing" /\ call[c] # "unsent"
      /\ \E result \in {"ok", "error"} : Hear(c, result) /\ (result = "ok" => call[c] = "served")
      /\ UNCHANGED <<visit, formVars, awaited, call, serverVars>>
  BY DEF Settle, Receive, ConnectionFails
<1>2. PICK result \in {"ok", "error"} : Hear(c, result) /\ (result = "ok" => call[c] = "served")
  BY <1>1
<1>3. /\ \A d \in Calls \ {c} : heard'[d] = heard[d]
      /\ heard'[c] = result
      /\ heard' \in [Calls -> {"nothing", "ok", "error", "gone"}]
  BY <1>2 DEF Hear, TypeOK
<1>4. /\ c \in Completions => c = Completion /\ page' \in {"complete", "error"}
      /\ c \notin Completions => page' = page
  BY <1>1, <1>2, PresentCompletion DEF Hear
<1>5. /\ c \in Completions => inflight' = inflight
      /\ c \notin Completions => inflight' = [inflight EXCEPT ![c[1]] = 0]
  BY <1>2 DEF Hear
<1>6. c \in Completions => page = "completing"
  BY <1>1, <1>4 DEF CompletionInv
<1>7. TypeOK'
  <2>1. inflight' \in [Questions -> 0..MaxCommits]
    BY <1>5, Clearing DEF TypeOK
  <2>. QED
    BY <1>1, <1>3, <1>4, <2>1 DEF TypeOK
<1>8. NothingUnsaved' /\ StoredInv'
  BY <1>1 DEF NothingUnsaved, Unsaved, StoredInv
<1>9. CallInv'
  BY <1>1, <1>2, <1>3 DEF CallInv
<1>10. VisitInv'
  <2>1. ASSUME NEW q \in Questions, NEW k \in 1..MaxCommits,
               call[<<q, k>>] # "unsent", heard'[<<q, k>>] = "nothing"
        PROVE  q \in saved
    BY <1>2, <1>3, <2>1 DEF VisitInv
  <2>2. ASSUME NEW d \in Calls, heard[d] # "gone"
        PROVE  heard'[d] # "gone"
    BY <1>3, <2>2
  <2>3. \A q \in saved : <<q, commits[q]>> \in Calls
    BY DEF TypeOK, VisitInv
  <2>4. ASSUME NEW v \in 1..MaxVisits, v < visit, call[<<0, v>>] # "unsent"
        PROVE  heard'[<<0, v>>] # "nothing"
    BY <1>2, <1>3, <2>4 DEF VisitInv
  <2>5. page' = "loading" => page = "loading"
    BY <1>4
  <2>. QED
    BY <1>1, <2>1, <2>2, <2>3, <2>4, <2>5 DEF VisitInv
<1>11. InflightInv'
  <2>1. ASSUME NEW q \in Questions, commits[q] = 1, heard'[<<q, 1>>] = "nothing",
               page' \in {"filling", "waiting"}
        PROVE  heard[<<q, 1>>] = "nothing" /\ inflight'[q] = inflight[q] /\ page' = page
    <3>1. c \in Saves /\ page' = page
      BY <1>4, <2>1
    <3>2. <<q, 1>> \in Calls
      OBVIOUS
    <3>3. c # <<q, 1>> /\ heard[<<q, 1>>] = "nothing"
      BY <1>2, <1>3, <2>1, <3>2
    <3>4. c[2] <= commits[c[1]]
      BY <1>1, <3>1 DEF CallInv
    <3>5. c[1] # q
      BY <2>1, <3>1, <3>3, <3>4
    <3>. QED
      BY <1>5, <3>1, <3>3, <3>5 DEF TypeOK
  <2>. QED
    BY <1>1, <2>1 DEF InflightInv
<1>12. CompletionInv'
  <2>1. visit' = visit /\ call' = call /\ commits' = commits
    BY <1>1 DEF formVars
  <2>2. ASSUME NEW q \in Questions, commits[q] = 1, call[Completion] # "unsent"
        PROVE  heard'[<<q, 1>>] # "nothing"
    BY <1>2, <1>3, <2>2 DEF CompletionInv
  <2>3. Submitted' => Submitted
    BY <1>4, <1>6 DEF Submitted
  <2>4. call[Completion] # "unsent" =>
            /\ page' \notin {"loading", "filling", "waiting"}
            /\ heard'[Completion] = "nothing" => page' = "completing"
    BY <1>2, <1>3, <1>4, PresentCompletion DEF CompletionInv
  <2>. QED
    BY <2>1, <2>2, <2>3, <2>4 DEF CompletionInv, Completion
<1>. QED
  BY <1>7, <1>8, <1>9, <1>10, <1>11, <1>12

\* So do the steps of the server: it moves a call that it was sent, and nothing
\* that the page has.
LEMMA ServerIInv ==
    ASSUME IInv, NEW c \in Calls,
           Serve(c) \/ Refuse(c) \/ ServeSave(c) \/ ServeCompletion(c) \/ LoseCompletion(c)
    PROVE  IInv'
<1> USE CallFacts, PageAssumption DEF IInv, pageVars, formVars
<1>1. /\ UNCHANGED pageVars
      /\ call[c] \in {"sent", "serving"} /\ call'[c] \in {"serving", "served", "refused"}
      /\ \A d \in Calls \ {c} : call'[d] = call[d] /\ admitted'[d] = admitted[d]
      /\ call' \in [Calls -> {"unsent", "sent", "serving", "served", "refused"}]
      /\ admitted' \in [Calls -> {Request(d) : d \in Calls} \cup {NoRequest}]
      /\ call'[c] = "serving" => admitted'[c] = Request(c)
      /\ call'[c] # "serving" => admitted'[c] = NoRequest
  <2> USE DEF TypeOK, CallInv
  <2>1. CASE Serve(c)
    BY <2>1 DEF Serve, Server!Admit
  <2>2. CASE Refuse(c)
    BY <2>2 DEF Refuse, Server!Withdraw, Server!Done
  <2>3. CASE ServeSave(c)
    BY <2>3 DEF ServeSave, Server!Save, Server!Done
  <2>4. CASE ServeCompletion(c)
    BY <2>4 DEF ServeCompletion, Server!Complete, Server!Done
  <2>5. CASE LoseCompletion(c)
    BY <2>5 DEF LoseCompletion, Server!Withdraw, Server!Done
  <2>. QED
    BY <2>1, <2>2, <2>3, <2>4, <2>5
<1>2. /\ ServeSave(c) => c \in Saves /\ stored' = [stored EXCEPT ![c[1]] = c[2]]
      /\ ~ServeSave(c) => stored' = stored
      /\ ~ServeSave(c) /\ call'[c] = "served" => c \in Completions
  BY DEF Serve, Refuse, ServeSave, ServeCompletion, LoseCompletion, TypeOK, pageVars
<1>3. TypeOK'
  <2>1. state' \in [{Session} -> {"in_progress", "completed"}]
    <3>1. ASSUME Server!Complete(c), c \in Completions
          PROVE  state' \in [{Session} -> {"in_progress", "completed"}]
      BY <3>1, CompletionRequest DEF Server!Complete, TypeOK, CallInv
    <3>. QED
      BY <3>1 DEF Serve, Refuse, ServeSave, ServeCompletion, LoseCompletion, Server!Admit,
                  Server!Withdraw, Server!Save, TypeOK
  <2>2. answers' \subseteq {Session} \X Questions
    <3>1. ASSUME Server!Save(c), c \in Saves
          PROVE  answers' \subseteq {Session} \X Questions
      <4>1. admitted[c] = Request(c)
        BY <3>1 DEF Server!Save, TypeOK, CallInv
      <4>2. admitted[c].session = Session /\ admitted[c].question = c[1]
        BY <3>1, <4>1, SaveRequest
      <4>. QED
        BY <3>1, <4>2 DEF Server!Save, TypeOK
    <3>. QED
      BY <3>1 DEF Serve, Refuse, ServeSave, ServeCompletion, LoseCompletion, Server!Admit,
                  Server!Withdraw, Server!Complete, TypeOK
  <2>3. stored' \in [Questions -> 0..MaxCommits]
    BY <1>2 DEF TypeOK
  <2>. QED
    BY <1>1, <2>1, <2>2, <2>3 DEF TypeOK
<1>4. NothingUnsaved' /\ InflightInv'
  BY <1>1 DEF NothingUnsaved, Unsaved, InflightInv
<1>5. \A d \in Calls : call'[d] = "unsent" <=> call[d] = "unsent"
  BY <1>1
<1>6. CallInv'
  <2>1. heard[c] # "ok"
    BY <1>1 DEF CallInv
  <2>2. NoRequest # Request(c)
    OBVIOUS
  <2>. QED
    BY <1>1, <1>5, <2>1, <2>2 DEF CallInv
<1>7. VisitInv'
  BY <1>1, <1>5 DEF VisitInv
<1>8. StoredInv'
  <2>1. ASSUME NEW q \in Questions
        PROVE  stored'[q] <= commits[q]
    <3>1. c \in Saves => c[2] <= commits[c[1]]
      BY <1>1 DEF CallInv
    <3>. QED
      BY <1>2, <3>1 DEF TypeOK, StoredInv
  <2>2. ASSUME NEW q \in Questions, NEW k \in 1..MaxCommits, call'[<<q, k>>] = "served"
        PROVE  stored'[q] # 0
    BY <1>1, <1>2, <2>2 DEF TypeOK, StoredInv
  <2>. QED
    BY <1>1, <2>1, <2>2 DEF StoredInv
<1>9. CompletionInv'
  BY <1>1, <1>5, PresentCompletion DEF CompletionInv, Completion, Submitted
<1>. QED
  BY <1>3, <1>4, <1>6, <1>7, <1>8, <1>9

\* A step that changes nothing preserves it.
LEMMA StutterIInv ==
    ASSUME IInv, UNCHANGED vars
    PROVE  IInv'
<1> USE DEF IInv, vars, pageVars, formVars, serverVars
<1>1. TypeOK' /\ NothingUnsaved' /\ StoredInv'
  BY DEF TypeOK, NothingUnsaved, Unsaved, StoredInv
<1>2. CallInv' /\ VisitInv'
  BY DEF CallInv, VisitInv
<1>3. InflightInv' /\ CompletionInv'
  BY DEF InflightInv, CompletionInv, Submitted, Completion
<1>. QED
  BY <1>1, <1>2, <1>3

\* The page and its calls keep the invariant at all times.
THEOREM InductiveInvariant == Spec => []IInv
<1>1. ASSUME IInv, [Next]_vars
      PROVE  IInv'
  <2>1. CASE Reload \/ Resume \/ ResumeFails
    BY <1>1, <2>1, LoadIInv
  <2>2. CASE Fill
    BY <1>1, <2>2, FillIInv
  <2>3. CASE Submit \/ RequestCompletion \/ AwaitedSaveFailed
    BY <1>1, <2>3, SubmitIInv
  <2>4. CASE \E c \in Calls :
                \/ Settle(c) \/ Serve(c) \/ Refuse(c) \/ ServeSave(c)
                \/ ServeCompletion(c) \/ LoseCompletion(c)
    BY <1>1, <2>4, SettleIInv, ServerIInv
  <2>5. CASE UNCHANGED vars
    BY <1>1, <2>5, StutterIInv
  <2>. QED
    BY <1>1, <2>1, <2>2, <2>3, <2>4, <2>5 DEF Next
<1>. QED
  BY <1>1, InitIInv, PTL DEF Spec

-----------------------------------------------------------------------------
\* Type correctness of the page.
THEOREM TypeCorrect == Spec => []TypeOK
<1>1. IInv => TypeOK
  BY DEF IInv
<1>. QED
  BY <1>1, InductiveInvariant, PTL

\* The resend loop of handleComplete is dead code.
THEOREM ResendIsDead == Spec => []NothingUnsaved
<1>1. IInv => NothingUnsaved
  BY DEF IInv
<1>. QED
  BY <1>1, InductiveInvariant, PTL

\* Answers of this visit that were committed once, and not seen to fail, are
\* stored when the completion is asked for, in a survey of any length, however
\* often the page was loaded before.
THEOREM UneditedStored == Spec => []UneditedAnswersStored
<1>1. IInv => UneditedAnswersStored
  <2>1. ASSUME IInv, Submitted, NEW q \in saved, commits[q] = 1, heard[<<q, 1>>] # "error"
        PROVE  stored[q] = 1
    <3>1. q \in Questions /\ <<q, 1>> \in Calls
      BY <2>1, PageAssumption, CallFacts DEF IInv, TypeOK
    <3>2. heard[<<q, 1>>] # "nothing" /\ heard[<<q, 1>>] # "gone"
      BY <2>1, <3>1 DEF IInv, CompletionInv, VisitInv
    <3>3. call[<<q, 1>>] = "served"
      BY <2>1, <3>1, <3>2 DEF IInv, TypeOK, CallInv
    <3>. QED
      BY <2>1, <3>1, <3>3, PageAssumption DEF IInv, TypeOK, StoredInv
  <2>. QED
    BY <2>1 DEF UneditedAnswersStored
<1>. QED
  BY <1>1, InductiveInvariant, PTL

\* What a save can still change after the completion.
THEOREM LateSaves == Spec => LateSavesExplained
<1> DEFINE LateSave ==
      \A q \in Questions :
          state[Session] = "completed" /\ stored'[q] # stored[q] =>
              \/ commits[q] > 1
              \/ heard[<<q, stored'[q]>>] \in {"error", "gone"}
              \/ call[Completion] = "unsent"
<1>1. ASSUME IInv, [Next]_vars, NEW q \in Questions,
             state[Session] = "completed", stored'[q] # stored[q]
      PROVE  \/ commits[q] > 1
             \/ heard[<<q, stored'[q]>>] \in {"error", "gone"}
             \/ call[Completion] = "unsent"
  <2>1. PICK c \in Saves : ServeSave(c)
    BY <1>1 DEF Next, Reload, Resume, ResumeFails, Fill, Settle, ContinueAnswered, ContinueEmpty, Back, Discard, Submit,
                RequestCompletion, AwaitedSaveFailed, Receive, ConnectionFails, Serve, Refuse,
                ServeSave, ServeCompletion, LoseCompletion, vars, serverVars
  <2>2. c = <<q, stored'[q]>> /\ stored'[q] \in 1..MaxCommits
    BY <1>1, <2>1 DEF ServeSave, IInv, TypeOK, Saves
  <2>3. c \in Calls /\ call[c] = "serving"
    BY <1>1, <2>1 DEF ServeSave, Server!Save, IInv, CallInv, Calls
  <2>4. stored'[q] <= commits[q] /\ commits[q] \in Nat
    BY <1>1, <2>2, <2>3, PageAssumption DEF IInv, TypeOK, CallInv
  <2>5. CASE commits[q] = 1 /\ call[Completion] # "unsent"
    <3>1. c = <<q, 1>>
      BY <2>2, <2>4, <2>5
    <3>2. heard[c] # "nothing" /\ heard[c] # "ok"
      BY <1>1, <2>3, <2>5, <3>1 DEF IInv, CallInv, CompletionInv
    <3>. QED
      BY <1>1, <2>2, <2>3, <3>2 DEF IInv, TypeOK
  <2>. QED
    BY <2>2, <2>4, <2>5
<1>2. IInv /\ [Next]_vars => [LateSave]_vars
  BY <1>1
<1>. QED
  BY <1>2, InductiveInvariant, PTL DEF Spec, LateSavesExplained

-----------------------------------------------------------------------------
(* The server of the page *)

\* The page, its lost calls and its late ones drive the server through steps of
\* OpenSession alone: what SubmissionSession is shown to implement is all that
\* the page relies on.
THEOREM PageDrivesOpenSession == Spec => Server!Spec
<1> USE DEF Server!vars
<1>1. Init => Server!Init
  BY DEF Init
<1>2. ASSUME [Next]_vars
      PROVE  [Server!Next]_(Server!vars)
  <2>1. CASE UNCHANGED vars
    BY <2>1 DEF vars, serverVars
  <2>2. CASE \/ Reload \/ Resume \/ ResumeFails \/ Fill
             \/ Submit \/ RequestCompletion \/ AwaitedSaveFailed
             \/ \E c \in Calls : Settle(c)
    BY <2>2 DEF Reload, Resume, ResumeFails, Fill, ContinueAnswered, ContinueEmpty, Back, Discard, Submit, RequestCompletion,
                AwaitedSaveFailed, Settle, Receive, ConnectionFails, serverVars
  <2>3. ASSUME NEW c \in Calls, Serve(c)
        PROVE  Server!Next
    <3>1. Server!Admit(c, Request(c)) /\ Request(c) \in {Request(d) : d \in Calls}
      BY <2>3 DEF Serve
    <3>. QED
      BY <3>1 DEF Server!Next
  <2>4. ASSUME NEW c \in Calls, Refuse(c)
        PROVE  [Server!Next]_(Server!vars)
    BY <2>4 DEF Refuse, Server!Next
  <2>5. ASSUME NEW c \in Calls, ServeSave(c)
        PROVE  Server!Next
    BY <2>5 DEF ServeSave, Server!Next
  <2>6. ASSUME NEW c \in Calls, ServeCompletion(c) \/ LoseCompletion(c)
        PROVE  Server!Next
    BY <2>6 DEF ServeCompletion, LoseCompletion, Server!Next
  <2>. QED
    BY <1>2, <2>1, <2>2, <2>3, <2>4, <2>5, <2>6 DEF Next
<1>. QED
  BY <1>1, <1>2, PTL DEF Spec, Server!Spec

\* Which questions OpenSession counts as answered are those with a row.
RowsAreAnswers == \A q \in Questions : stored[q] # 0 <=> <<Session, q>> \in answers

\* What was committed once, on this visit, and not seen to fail, counts as an
\* answer of the session for OpenSession too when the completion is asked for.
THEOREM SubmittedAreAnswers ==
    Spec => [](Submitted =>
                  \A q \in saved :
                      commits[q] = 1 /\ heard[<<q, 1>>] # "error" => <<Session, q>> \in answers)
<1>1. Init => RowsAreAnswers
  BY DEF Init, Server!Init, RowsAreAnswers
<1>2. ASSUME IInv, RowsAreAnswers, [Next]_vars
      PROVE  RowsAreAnswers'
  <2>1. CASE \E c \in Saves : ServeSave(c)
    <3>1. PICK c \in Saves : ServeSave(c)
      BY <2>1
    <3>2. admitted[c] = Request(c)
      BY <1>2, <3>1 DEF ServeSave, Server!Save, IInv, CallInv, Calls
    <3>3. admitted[c].session = Session /\ admitted[c].question = c[1]
      BY <3>2, SaveRequest
    <3>4. answers' = answers \cup {<<Session, c[1]>>} /\ stored' = [stored EXCEPT ![c[1]] = c[2]]
      BY <3>1, <3>3 DEF ServeSave, Server!Save
    <3>5. c[1] \in Questions /\ c[2] # 0
      BY PageAssumption DEF Saves
    <3>. QED
      BY <1>2, <3>4, <3>5 DEF RowsAreAnswers, IInv, TypeOK
  <2>2. CASE ~\E c \in Saves : ServeSave(c)
    <3>1. \A c \in Calls : ServeSave(c) => c \in Saves
      BY DEF ServeSave
    <3>2. UNCHANGED <<stored, answers>>
      BY <1>2, <2>2, <3>1
         DEF Next, Reload, Resume, ResumeFails, Fill, Settle, ContinueAnswered, ContinueEmpty, Back, Discard, Submit,
             RequestCompletion, AwaitedSaveFailed, Receive, ConnectionFails, Serve, Refuse,
             ServeCompletion, LoseCompletion, Server!Admit, Server!Withdraw, Server!Complete,
             vars, serverVars
    <3>. QED
      BY <1>2, <3>2 DEF RowsAreAnswers
  <2>. QED
    BY <2>1, <2>2
<1>3. TypeOK /\ RowsAreAnswers /\ UneditedAnswersStored =>
          (Submitted =>
              \A q \in saved :
                  commits[q] = 1 /\ heard[<<q, 1>>] # "error" => <<Session, q>> \in answers)
  BY DEF TypeOK, RowsAreAnswers, UneditedAnswersStored
<1>. QED
  BY <1>1, <1>2, <1>3, InductiveInvariant, TypeCorrect, UneditedStored, PTL DEF Spec
=============================================================================
