SPECIFICATION Spec
CONSTANTS
    m = m
    x = x
    n = n
    Deployments = {m, x, n}
    Procs = {p1, p2}
    Apps = {"a"}
    Servers = {"s1", "s2"}
    NoDep = NoDep
    NoProc = NoProc
    App <- MCApp
    Slot <- MCSlot
    Previews = {}
    Server <- MCServer
    Commit <- MCCommit
    Forced = {}
    Unquestioned = {x}
    Parent <- MCParent
    PrimaryServer <- MCPrimary
    ConcurrentBuilds <- MCBuilds
    QueueLimit <- MCLimit
    UserActions = {"cancel_api"}
    MaxSweeps = 1
    MaxRestarts = 1
SYMMETRY ProcSymmetry
INVARIANTS TypeOK DispatchedOnce OnePerSlot OneNotice NoticeLostOnlyByThrow
