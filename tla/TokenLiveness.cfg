SPECIFICATION FairSpec
CONSTANTS
    Requests = {r1, r2, r3}
    Clients = {web}
    Codes = {c1}
    Families = {f1}
    Tokens = {t1, t2, t3}
    None = None
    Faults = {"deadlock"}
    Lifetimes = {1}
    CodeLifetime = 0
    MaxClock = 0
CHECK_DEADLOCK FALSE
PROPERTIES
    RequestsFinish
