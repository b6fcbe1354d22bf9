CONSTANTS
    a1 = a1  a2 = a2  ga = ga  gb = gb
    Pods = {a1, a2}
    Groups = {ga}
    NoGroup = NoGroup  NoMin = NoMin  BadMin = BadMin
    Labels <- Gang
    Cleaner = Cleaner
    NoGang = NoGang
    PostBindEnabled = TRUE
    MaxFaults = 2
SPECIFICATION Spec
INVARIANTS TypeOK TrackedWasConfirmed
PROPERTY FinalizerProtects
