\* A sandboxed application that has two Start() calls outstanding.
SPECIFICATION FairSpec
CONSTANTS
    Calls = {c1, c2}
    app = app
    good = good
    bad = bad
    NoId = NoId
    NoLocator = NoLocator
    XdgIds = {app}
    DesktopIds = {app, good, bad}
    Perm <- MCPermissions
    Requests <- MCRequests
    MaxLevels <- MCMaxLevels
    Replies <- MCReplies
INVARIANTS
    NoLocatorWithoutConsent
PROPERTIES
    SuccessMeansActive
    AbandonedClientGoes
CHECK_DEADLOCK FALSE
