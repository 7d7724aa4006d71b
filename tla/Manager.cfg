\* Two users with an application and an agent each.
SPECIFICATION FairSpec
CONSTANTS
    p1 = p1  p2 = p2  a1 = a1  a2 = a2  u1 = u1  u2 = u2
    Peers = {p1, p2}
    Agents = {a1, a2}
    Users = {u1, u2}
    UserOf <- TwoUsers
    Invocations = {r1, r2}
    NoOne = NoOne
    Allowed = {a1, a2}
    Renames = FALSE
INVARIANTS
    TimeoutRunsWhileEmpty
    GetClientMakesOne
    InUseAccurate
PROPERTIES
    AnswerNamesOwnClient
    GonePeerCleaned
CHECK_DEADLOCK FALSE
