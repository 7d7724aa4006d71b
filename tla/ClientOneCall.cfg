\* An application, sandboxed or not, that waits for each answer.
SPECIFICATION Spec
CONSTANTS
    Calls = {c1}
    app = app
    good = good
    bad = bad
    NoId = NoId
    NoLocator = NoLocator
    XdgIds = {app, NoId}
    DesktopIds = {app, good, bad}
    Perm <- MCPermissions
    Requests <- MCRequests
    MaxLevels <- MCMaxLevels
    Replies <- MCReplies
INVARIANTS
    ActiveMeansReceiving
PROPERTIES
    GrantWithinMax
    LifecycleSpec
CHECK_DEADLOCK FALSE
