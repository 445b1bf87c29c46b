SPECIFICATION FairSpec
CONSTANTS
    NumQuestions = 2
    Optional = {2}
    MaxCommits = 2
    Edited = {1}
    MaxVisits = 2
    Session = Session
    NoRequest = NoRequest
INVARIANTS
    TypeOK
    UneditedAnswersStored
PROPERTIES
    LateSavesExplained
    PageSettles
CHECK_DEADLOCK FALSE
