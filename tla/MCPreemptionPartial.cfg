\* Two nodes, full with a gang of two that b outranks; no faults.
CONSTANTS
    a1 = a1  a2 = a2  b = b  s = s  gA = gA  gB = gB  n1 = n1  n2 = n2
    Pods = {a1, a2, b}
    Groups = {gA, gB}
    NoGroup = NoGroup  NoMin = NoMin  BadMin = BadMin
    Labels <- MCLabels
    Nodes = {n1, n2}
    NoNode = NoNode  NoPod = NoPod
    Resources <- MCResources
    Cpu = "cpu"
    Request <- SmallRequest
    Allocatable <- MCAllocatable
    Eligible <- MCEligible
    Priority <- SmallPriority
    Profiled = TRUE
    ProfileTier <- MCProfileTier
    QueueTier <- MCQueueTier
    NamespaceTier <- MCNamespaceTier
    MaxVictims = 2
    Gap = 2
    MaxClock = 1
    MaxFaults = 0
SPECIFICATION Spec
CHECK_DEADLOCK FALSE
PROPERTY NeverPreemptsPartially
