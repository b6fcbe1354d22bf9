\* A cluster that is full with two pods of the four.
CONSTANTS
    a1 = a1  a2 = a2  b = b  s = s  gA = gA  gB = gB  n1 = n1  n2 = n2
    Pods = {a1, a2, b, s}
    Groups = {gA, gB}
    NoGroup = NoGroup  NoMin = NoMin  BadMin = BadMin
    Labels <- MCLabels
    Nodes = {n1, n2}
    NoNode = NoNode  NoPod = NoPod
    Resources <- MCResources
    Cpu = "cpu"
    Request <- MCRequest
    Allocatable <- MCAllocatable
    Eligible <- MCEligible
    Priority <- MCPriority
    Profiled = TRUE
    ProfileTier <- MCProfileTier
    QueueTier <- MCQueueTier
    NamespaceTier <- MCNamespaceTier
    MaxVictims = 2
    Gap = 2
    MaxClock = 3
    MaxFaults = 1
SPECIFICATION Spec
CHECK_DEADLOCK FALSE
INVARIANTS TypeOK PreemptionStormBounded
PROPERTIES VictimsSuffice CheapestFirst NoNeedlessVictim GivesUpOnlyWhenHopeless
