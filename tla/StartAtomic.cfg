SPECIFICATION FairSpec
CONSTANTS
    Workers = {w1, w2}
    Sessions = {s1, s2}
    Links = {l1}
    SingleUse = {l1}
    NoLink = NoLink
    NoSession = NoSession
    LostAcks = FALSE
INVARIANTS
    ConsumedLinkHasUsableSession
PROPERTIES
    StartIsAtomic
    StartEnds
