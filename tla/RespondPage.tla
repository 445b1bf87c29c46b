----------------------------- MODULE RespondPage -----------------------------
(***************************************************************************)
(* The respondent's page: a browser tab that fills in one session, and can *)
(* be reloaded at any time.                                                *)
(*                                                                         *)
(* Every committed answer is sent at once, by a PUT that the page does not *)
(* wait for; on submission the page awaits the saves that its map of       *)
(* in-flight saves still holds, and then asks for the completion.  Calls   *)
(* travel independently, so two saves of a question may overtake each      *)
(* other, and a call whose answer was lost may still be carried out.       *)
(*                                                                         *)
(* A page that is loaded goes on with the session that the browser has,    *)
(* with an empty form and empty maps: neither the answers that are stored  *)
(* nor the calls of the page before it, which may still be under way, are  *)
(* known to it.                                                            *)
(*                                                                         *)
(* The server is OpenSession, which SubmissionSession implements: each     *)
(* call is served on its own and, once it was admitted, takes effect late  *)
(* or never.  Answers are known by the commit that sent them.              *)
(***************************************************************************)
EXTENDS Integers

CONSTANTS
    NumQuestions,   \* questions of the survey, asked in order
    Optional,       \* those that may be left or made empty
    MaxCommits,     \* bound: times that a question is answered and committed
    Edited,         \* bound: the questions that are committed more than once
    MaxVisits,      \* bound: times that the page is loaded
    Session,        \* the session of this browser
    NoRequest       \* the call is not being served

Questions == 1..NumQuestions

VARIABLES
    \* The page
    visit,       \* how often it has been loaded
    page,        \* its phase
    at,          \* position in the form
    answer,      \* the form: which commit each answer is from, 0 if empty
    commits,     \* commits of each question so far, on all visits
    saved,       \* savedAnswersRef
    inflight,    \* inflightSavesRef: the commit whose save is held, 0 if none
    awaited,     \* saves that the submission awaits
    heard,       \* what the page that made a call was answered
    \* The calls and the server
    call,        \* progress of each call outside the browser
    state, admitted, answers, erased,   \* OpenSession
    stored       \* the commit whose answer each response row holds, 0 if none

formVars   == <<at, answer, commits, saved>>
pageVars   == <<visit, page, formVars, inflight, awaited, heard>>
serverVars == <<state, admitted, answers, erased, stored>>
vars       == <<pageVars, call, serverVars>>

Saves == Questions \X (1..MaxCommits)
Completions == {0} \X (1..MaxVisits)
Calls == Saves \cup Completions

\* The completion that the present page asks for.
Completion == <<0, visit>>

Request(c) ==
    IF c \in Completions THEN [kind |-> "complete", session |-> Session]
    ELSE [kind |-> "save", session |-> Session, question |-> c[1]]

ASSUME PageAssumption ==
    /\ NumQuestions \in Nat \ {0}
    /\ MaxCommits \in Nat \ {0}
    /\ MaxVisits \in Nat \ {0}
    /\ Optional \subseteq Questions
    /\ Edited \subseteq Questions
    /\ \A c \in Calls : NoRequest # Request(c)

Server == INSTANCE OpenSession WITH
    Workers <- Calls, Sessions <- {Session}, Requests <- {Request(c) : c \in Calls}

TypeOK ==
    /\ visit \in 1..MaxVisits
    /\ page \in {"loading", "filling", "waiting", "completing", "complete", "error"}
    /\ at \in 1..(NumQuestions + 1)
    /\ answer \in [Questions -> 0..MaxCommits]
    /\ commits \in [Questions -> 0..MaxCommits]
    /\ saved \subseteq Questions
    /\ inflight \in [Questions -> 0..MaxCommits]
    /\ awaited \subseteq Saves
    /\ heard \in [Calls -> {"nothing", "ok", "error", "gone"}]
    /\ call \in [Calls -> {"unsent", "sent", "serving", "served", "refused"}]
    /\ state \in [{Session} -> {"in_progress", "completed"}]
    /\ admitted \in [Calls -> {Request(c) : c \in Calls} \cup {NoRequest}]
    /\ answers \subseteq {Session} \X Questions
    /\ stored \in [Questions -> 0..MaxCommits]

\* The page has found no session to go on with and has just started one, so its
\* envelope is there.
Init ==
    /\ visit = 1
    /\ page = "filling"
    /\ at = 1
    /\ answer = [q \in Questions |-> 0]
    /\ commits = [q \in Questions |-> 0]
    /\ saved = {}
    /\ inflight = [q \in Questions |-> 0]
    /\ awaited = {}
    /\ heard = [c \in Calls |-> "nothing"]
    /\ call = [c \in Calls |-> "unsent"]
    /\ Server!Init /\ erased = {}
    /\ stored = [q \in Questions |-> 0]

-----------------------------------------------------------------------------
(* Loading the page *)

\* The tab is reloaded, whatever it is doing: form, refs and promises are gone.
\* Calls that were made go on, and nobody hears of them.
Reload ==
    /\ visit < MaxVisits
    /\ visit' = visit + 1
    /\ page' = "loading"
    /\ at' = 1
    /\ answer' = [q \in Questions |-> 0]
    /\ saved' = {}
    /\ inflight' = [q \in Questions |-> 0]
    /\ awaited' = {}
    /\ heard' = [c \in Calls |->
                    IF call[c] # "unsent" /\ heard[c] = "nothing" THEN "gone" ELSE heard[c]]
    /\ UNCHANGED <<commits, call, serverVars>>

\* The POST of submission-sessions/current/resolve finds the session in
\* progress; its answers are not asked for.
Resume ==
    /\ page = "loading"
    /\ state[Session] = "in_progress"
    /\ page' = "filling"
    /\ UNCHANGED <<visit, formVars, inflight, awaited, heard, call, serverVars>>

\* The session is completed, or the call fails.
ResumeFails ==
    /\ page = "loading"
    /\ page' = "error"
    /\ UNCHANGED <<visit, formVars, inflight, awaited, heard, call, serverVars>>

-----------------------------------------------------------------------------
(* Filling in the form *)

Send(c) == call' = [call EXCEPT ![c] = "sent"]

\* handleContinue with an answer, and handleAnswerCommit: the question counts
\* as saved as soon as the PUT is made, and the new promise replaces what the
\* map held for the question.
ContinueAnswered ==
    /\ page = "filling"
    /\ at \in Questions
    /\ commits[at] < IF at \in Edited THEN MaxCommits ELSE 1
    /\ commits' = [commits EXCEPT ![at] = @ + 1]
    /\ answer' = [answer EXCEPT ![at] = commits'[at]]
    /\ saved' = saved \cup {at}
    /\ inflight' = [inflight EXCEPT ![at] = commits'[at]]
    /\ Send(<<at, commits'[at]>>)
    /\ at' = at + 1
    /\ UNCHANGED <<visit, page, awaited, heard, serverVars>>

\* An optional question left or made empty: mapAnswerToPayload has nothing to
\* send, and an answer that was saved before stays saved.
ContinueEmpty ==
    /\ page = "filling"
    /\ at \in Optional
    /\ answer' = [answer EXCEPT ![at] = 0]
    /\ at' = at + 1
    /\ UNCHANGED <<visit, page, commits, saved, inflight, awaited, heard, call, serverVars>>

\* Mutant: the button is not disabled at the first question.
BackAlways ==
    /\ page = "filling"
    /\ at' = at - 1
    /\ UNCHANGED <<visit, page, answer, commits, saved, inflight, awaited, heard, call, serverVars>>

Back ==
    /\ page = "filling"
    /\ at > 1
    /\ at' = at - 1
    /\ UNCHANGED <<visit, page, answer, commits, saved, inflight, awaited, heard, call, serverVars>>

\* A rule of the survey ends it: the session is left as it is.
Discard ==
    /\ page = "filling"
    /\ at > 1
    /\ page' = "error"
    /\ UNCHANGED <<visit, formVars, inflight, awaited, heard, call, serverVars>>

-----------------------------------------------------------------------------
(* handleComplete *)

\* Mutant: the in-flight saves are not awaited.
SubmitAtOnce ==
    /\ page = "filling"
    /\ at = NumQuestions + 1
    /\ page' = "waiting"
    /\ UNCHANGED <<visit, formVars, inflight, awaited, heard, call, serverVars>>

Submit ==
    /\ page = "filling"
    /\ at = NumQuestions + 1
    /\ page' = "waiting"
    /\ awaited' = {c \in Saves : inflight[c[1]] = c[2]}
    /\ UNCHANGED <<visit, formVars, inflight, heard, call, serverVars>>

\* Answers that were never handed to a PUT are sent before the completion.
Unsaved == {q \in Questions : answer[q] # 0 /\ q \notin saved}

\* Mutant: Promise.race for Promise.all.
RequestCompletionEarly ==
    /\ page = "waiting"
    /\ awaited = {} \/ \E c \in awaited : heard[c] = "ok"
    /\ Unsaved = {}
    /\ page' = "completing"
    /\ Send(Completion)
    /\ UNCHANGED <<visit, formVars, inflight, awaited, heard, serverVars>>

\* Promise.all has resolved.  The loop that follows it finds nothing to send
\* (NothingUnsaved), so the POST of the completion is next.
RequestCompletion ==
    /\ page = "waiting"
    /\ \A c \in awaited : heard[c] = "ok"
    /\ Unsaved = {}
    /\ page' = "completing"
    /\ Send(Completion)
    /\ UNCHANGED <<visit, formVars, inflight, awaited, heard, serverVars>>

\* Promise.all rejects as soon as one of its saves has failed.
AwaitedSaveFailed ==
    /\ page = "waiting"
    /\ \E c \in awaited : heard[c] = "error"
    /\ page' = "error"
    /\ UNCHANGED <<visit, formVars, inflight, awaited, heard, call, serverVars>>

-----------------------------------------------------------------------------
(* The answers to the calls *)

\* The finally of a save removes the entry of its question from the map,
\* whichever save the entry is for; the result of the completion is the page's.
Hear(c, result) ==
    /\ heard' = [heard EXCEPT ![c] = result]
    /\ IF c \in Completions
       THEN /\ page' = IF result = "ok" THEN "complete" ELSE "error"
            /\ UNCHANGED inflight
       ELSE /\ inflight' = [inflight EXCEPT ![c[1]] = 0]
            /\ UNCHANGED page

Receive(c) ==
    /\ heard[c] = "nothing"
    /\ \/ call[c] = "served" /\ Hear(c, "ok")
       \/ call[c] = "refused" /\ Hear(c, "error")
    /\ UNCHANGED <<visit, formVars, awaited, call, serverVars>>

\* Mutant: a save that the network fails leaves its promise pending.
ConnectionFailsPending(c) ==
    /\ heard[c] = "nothing"
    /\ call[c] # "unsent"
    /\ IF c \in Completions THEN Hear(c, "error")
       ELSE /\ inflight' = [inflight EXCEPT ![c[1]] = 0]
            /\ UNCHANGED <<heard, page>>
    /\ call' = [call EXCEPT ![c] = "unsent"]
    /\ UNCHANGED <<visit, formVars, awaited, serverVars>>

\* fetch rejects; the server knows nothing of it and may go on with the call.
ConnectionFails(c) ==
    /\ heard[c] = "nothing"
    /\ call[c] # "unsent"
    /\ Hear(c, "error")
    /\ UNCHANGED <<visit, formVars, awaited, call, serverVars>>

-----------------------------------------------------------------------------
(* The server *)

Serve(c) ==
    /\ call[c] = "sent"
    /\ Server!Admit(c, Request(c))
    /\ call' = [call EXCEPT ![c] = "serving"]
    /\ UNCHANGED <<pageVars, stored>>

\* The session is no longer in progress, or anything else has failed.
Refuse(c) ==
    /\ \/ call[c] = "sent" /\ UNCHANGED <<state, admitted, answers, erased>>
       \/ call[c] = "serving" /\ Server!Withdraw(c)
    /\ call' = [call EXCEPT ![c] = "refused"]
    /\ UNCHANGED <<pageVars, stored>>

\* The one row of the question is inserted or overwritten.
ServeSave(c) ==
    /\ c \in Saves
    /\ Server!Save(c)
    /\ stored' = [stored EXCEPT ![c[1]] = c[2]]
    /\ call' = [call EXCEPT ![c] = "served"]
    /\ UNCHANGED pageVars

ServeCompletion(c) ==
    /\ c \in Completions
    /\ Server!Complete(c)
    /\ call' = [call EXCEPT ![c] = "served"]
    /\ UNCHANGED <<pageVars, stored>>

\* The session_completed event fails: success is answered and nothing is
\* done (SubmissionSession, CompleteEventFails).
LoseCompletion(c) ==
    /\ c \in Completions
    /\ Server!Withdraw(c)
    /\ call' = [call EXCEPT ![c] = "served"]
    /\ UNCHANGED <<pageVars, stored>>

-----------------------------------------------------------------------------
Fill == ContinueAnswered \/ ContinueEmpty \/ Back \/ Discard

Settle(c) == Receive(c) \/ ConnectionFails(c)

Next ==
    \/ Reload \/ Resume \/ ResumeFails
    \/ Fill
    \/ Submit \/ RequestCompletion \/ AwaitedSaveFailed
    \/ \E c \in Calls :
          \/ Settle(c) \/ Serve(c) \/ Refuse(c) \/ ServeSave(c)
          \/ ServeCompletion(c) \/ LoseCompletion(c)

Spec == Init /\ [][Next]_vars

\* Every fetch settles in the end (the server answers or the connection
\* fails), and the page's continuations run; the respondent promises nothing.
FairSpec ==
    /\ Spec
    /\ WF_vars(Resume \/ ResumeFails)
    /\ WF_vars(RequestCompletion \/ AwaitedSaveFailed)
    /\ \A c \in Calls : WF_vars(Settle(c))

-----------------------------------------------------------------------------
(* Properties *)

Submitted == page \in {"completing", "complete"}

\* An answer committed on this visit, to a question that was committed only this
\* once since the session was started, and whose save was not seen to fail, is in
\* the response database before the page asks for the completion, whatever happens
\* to other saves and to the calls of earlier visits meanwhile (handleComplete).
UneditedAnswersStored ==
    Submitted =>
        \A q \in saved :
            commits[q] = 1 /\ heard[<<q, 1>>] # "error" => stored[q] = 1

\* A save takes effect on a completed session only when its question had been
\* committed more than once; or the browser took the save for failed, or left the
\* page that had made it; or it was an earlier visit that had asked for the
\* completion, and the present one has not.
LateSavesExplained ==
    [][\A q \in Questions :
          state[Session] = "completed" /\ stored'[q] # stored[q] =>
              \/ commits[q] > 1
              \/ heard[<<q, stored'[q]>>] \in {"error", "gone"}
              \/ call[Completion] = "unsent"]_vars

\* The resend loop of handleComplete never has anything to send, on no visit: a
\* save that failed before the submission is not repeated by it.
NothingUnsaved == Unsaved = {}

Busy == page \in {"loading", "waiting", "completing"}

\* The page is not stuck with a spinner: the session is resumed or not, the
\* promises awaited settle, and their rejection is not lost.
PageSettles == Busy ~> ~Busy
=============================================================================
