SPECIFICATION Spec
CONSTANTS
    Requests = {r1, r2, r3}
    Nodes = {q1}
    ScoringRules = {s1}
    Values = {x, y}
    FirstVersion = FirstVersion
    NoVersion = NoVersion
    Absent = Absent
    NoSchema = NoSchema
    NoRequest = NoRequest
SYMMETRY Symmetric
INVARIANTS
    TypeOK
    SnapshotIsContent
    NumbersDense
PROPERTIES
    FrozenButForRivals
    CopyIsSource
