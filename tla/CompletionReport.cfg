SPECIFICATION Spec
CONSTANTS
    Workers = {w1, w2}
    Sessions = {s1}
    Questions = {q1}
    NoRequest = NoRequest
INVARIANT
    CompletionReportedIsDone
