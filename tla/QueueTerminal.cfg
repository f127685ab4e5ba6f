SPECIFICATION Spec
CONSTANTS
    d1 = d1
    d2 = d2
    d3 = d3
    Deployments = {d1}
    Procs = {p1, p2}
    Apps = {"a", "b"}
    Servers = {"s"}
    NoDep = NoDep
    NoProc = NoProc
    App <- MCApp
    Slot <- MCSlot
    Previews = {}
    Server <- MCServer
    Commit <- MCCommit
    Forced = {}
    Unquestioned = {}
    Parent <- MCParent
    PrimaryServer <- MCPrimary
    ConcurrentBuilds <- MCBuilds
    QueueLimit <- MCLimit
    UserActions = {"cancel_api"}
    MaxSweeps = 0
    MaxRestarts = 0
SYMMETRY ProcSymmetry
PROPERTY TerminalStatesStay
