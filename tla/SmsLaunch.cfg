\* Operators who launch at the same time, by one key and by two.
CONSTANTS
    t1 = t1  t2 = t2  t3 = t3  d1 = d1  d2 = d2  s1 = s1  s2 = s2
    r1 = r1  r2 = r2  k1 = k1  k2 = k2  n1 = n1  n2 = n2  n3 = n3
    Nil = Nil
    Threads = {t1, t2}
    Devices = {d1}
    Sims = {s1}
    Home <- HomeOne
    FirstNumber <- NumberOne
    NewNumbers = {n2}
    Targets = {n2}
    Keys = {k1, k2}
    Runs = {r1, r2}
    Reports <- SentOnly
    Texts <- AllTexts
    Timeout = 1
    MaxClock = 2
    MayFail = TRUE
    MayEdit = TRUE
SPECIFICATION Spec
INVARIANTS OneRunAtATime OneRunPerKey
SYMMETRY Symmetry
