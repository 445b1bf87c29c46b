SPECIFICATION Spec
CONSTANTS
    Workers = {w1, w2}
    Versions = {v1, v2}
    NoVersion = NoVersion
    NoWorker = NoWorker
    NoRequest = NoRequest
INVARIANT
    PublishedHasKey
