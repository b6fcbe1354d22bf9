\* A gang one pod short of its four, in a cluster with room for two.
CONSTANTS
    a1 = a1  a2 = a2  a3 = a3  a4 = a4  b1 = b1  c1 = c1  ga = ga  gb = gb
    NoGroup = NoGroup  NoMin = NoMin  BadMin = BadMin
    Pods = {a1, a2, a3}
    Groups = {ga}
    Labels <- OneShort
    Capacity = 2
    Profiled = TRUE
    ProfileGang <- NotGang
    Finishing = TRUE
    MaxFaults = 0
SPECIFICATION Spec
PROPERTY AllOrNothing
CHECK_DEADLOCK FALSE
