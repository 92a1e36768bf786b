SPECIFICATION FairSpec
CONSTANTS
    planner = planner
    worker = worker
    Requests = {r1, r2}
    Agents = {planner}
    Grants = {1, 2}
    None = None
    MaxDepth <- DepthOfOne
    Budgets = {1}
    Lifetimes = {1}
    MaxClock = 1
    MaxReports = 1
CHECK_DEADLOCK FALSE
PROPERTIES
    UsesAreAuthorized
    RequestsFinish
