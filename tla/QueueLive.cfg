SPECIFICATION FairSpec
CONSTANTS
    d1 = d1
    d2 = d2
    d3 = d3
    Deployments = {d1, d3}
    Procs = {p1, p2}
    Apps = {"a", "b"}
    Servers = {"s"}
    NoDep = NoDep
    NoProc = NoProc
    App <- MCApp
    Slot <- MCSlot
    Previews = {"b7"}
    Server <- MCServer
    Commit <- MCCommit
    Forced = {}
    Unquestioned = {}
    Parent <- MCParent
    PrimaryServer <- MCPrimary
    ConcurrentBuilds <- MCBuilds
    QueueLimit <- MCLimit
    UserActions = {"force_start", "cancel_api", "cancel_ui", "cleanup"}
    MaxSweeps = 0
    MaxRestarts = 0
INVARIANTS WithinConcurrentBuilds StrandedOnlyIfUnseen
PROPERTIES FinishedNeverFails QueuedEventuallyLeaves
