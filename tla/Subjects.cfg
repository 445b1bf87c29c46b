SPECIFICATION Spec
CONSTANTS
    p1 = p1
    p2 = p2
    u1 = u1
    u2 = u2
    Requests = {r1, r2, r3}
    Participants <- MCParticipants
    Users <- MCUsers
    Mailbox <- MCMailbox
    Browsers = {b1, b2}
    NoSubject = NoSubject
    NoUser = NoUser
    NoToken = NoToken
    NoInput = NoInput
SYMMETRY Symmetric
INVARIANTS
    TypeOK
    SessionsFollowEvidence
    AliasesPointToAuthority
    SubjectKeepsToken
    CookieOfOwnSession
    SomeRequestProceeds
PROPERTIES
    RegisterIsKept
