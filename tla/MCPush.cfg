CONSTANTS
    t1 = t1
    t2 = t2
    Tab <- MCTab
    None = None
    MaxCalls = 2
    MaxSubs = 2
    MaxWakes = 1
    MaxReloads = 1
INVARIANTS  ReadyMeansSent CleanupOwed
CHECK_DEADLOCK FALSE
SPECIFICATION Spec
SYMMETRY Tabs
PROPERTIES AgentKeepsNewest
