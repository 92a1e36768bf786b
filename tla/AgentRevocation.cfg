SPECIFICATION Spec
CONSTANTS
    planner = planner
    worker = worker
    Requests = {r1, r2}
    Agents = {planner, worker}
    Grants = {1, 2}
    None = None
    MaxDepth <- DepthsOfTwo
    Budgets = {1, None}
    Lifetimes = {1}
    MaxClock = 0
    MaxReports = 1
SYMMETRY RequestSymmetry
CHECK_DEADLOCK FALSE
INVARIANTS
    RevocationReachesDescendants
