SPECIFICATION FairSpec
CONSTANTS
    Workers = {w1, w2}
    Sessions = {s1}
    Questions = {q1}
    NoRequest = NoRequest
INVARIANTS
    TypeOK
    ErasureIsComplete
    AnswerHasSlot
    AbandonedHasNoAnswers
    CompletionsBounded
PROPERTIES
    CompletedStaysCompleted
    CommandsFindSessionOpen
    RequestsEnd
