\* No ProfileClassifier: PreFilter counts the gang; every pod may start.
CONSTANTS
    a1 = a1  a2 = a2  a3 = a3  a4 = a4  b1 = b1  c1 = c1  ga = ga  gb = gb
    NoGroup = NoGroup  NoMin = NoMin  BadMin = BadMin
    Pods = {a1, a2, c1}
    Groups = {ga}
    Labels <- LegacyGang
    Capacity = 3
    Profiled = FALSE
    ProfileGang <- NotGang
    Finishing = FALSE
    MaxFaults = 2
SPECIFICATION FairSpec
PROPERTY GangEventuallyBinds
CHECK_DEADLOCK FALSE
