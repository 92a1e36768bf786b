SPECIFICATION Spec
CONSTANTS
    planner = planner
    worker = worker
    Requests = {r1, r2}
    Agents = {planner}
    Grants = {1, 2, 3}
    None = None
    MaxDepth <- DepthOfOne
    Budgets = {1}
    Lifetimes = {1}
    MaxClock = 0
    MaxReports = 1
SYMMETRY RequestSymmetry
CHECK_DEADLOCK FALSE
INVARIANTS
    TypeOK
    UsageCountsTheSubtree
    BudgetsHold
    DelegationNarrows
    ReportsNeverDeadlock
PROPERTIES
    KeepsDelegation
