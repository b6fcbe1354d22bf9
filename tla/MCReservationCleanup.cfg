CONSTANTS
    a1 = a1  a2 = a2  ga = ga  gb = gb
    Pods = {a1, a2}
    Groups = {ga, gb}
    NoGroup = NoGroup  NoMin = NoMin  BadMin = BadMin
    Labels <- TwoGangs
    Cleaner = Cleaner
    NoGang = NoGang
    PostBindEnabled = FALSE
    MaxFaults = 0
SPECIFICATION FairSpec
PROPERTY ExpiredAreCleaned
