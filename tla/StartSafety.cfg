SPECIFICATION Spec
CONSTANTS
    Workers = {w1, w2}
    Sessions = {s1, s2, s3}
    Links = {l1}
    SingleUse = {l1}
    NoLink = NoLink
    NoSession = NoSession
    LostAcks = TRUE
SYMMETRY Symmetric
INVARIANTS
    TypeOK
    ReturnedSessionUsable
    OnlyUndoneStartsAbandoned
    SessionsPerLinkBounded
    AtMostOneSubjectWithoutSession
