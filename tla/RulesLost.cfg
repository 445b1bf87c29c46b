SPECIFICATION Spec
CONSTANTS
    x = x
    y = y
    z = z
    e = e
    Keys <- MCKeys
    NodeId <- MCNodeId
    Values = {x, y, z, e}
    Malformed = {z}
    Empty = {e}
    Absent = Absent
    Surveys <- MCSurveys
INVARIANTS
    RespondentFollowsRules
