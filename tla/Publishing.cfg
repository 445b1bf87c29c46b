SPECIFICATION FairSpec
CONSTANTS
    Workers = {w1, w2}
    Versions = {v1, v2}
    NoVersion = NoVersion
    NoWorker = NoWorker
    NoRequest = NoRequest
INVARIANTS
    TypeOK
    PublicationsBounded
    KeysSafeUnlessFailure
PROPERTIES
    PublishesAtomically
    PublishingEnds
