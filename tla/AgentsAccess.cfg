\* An agent calls while operators change everything its rights rest on.
CONSTANTS
    t1 = t1  a1 = a1  k1 = k1  s1 = s1  x = x  m1 = m1
    north = north  south = south  key1 = key1
    Nil = Nil
    Threads = {t1}
    Accounts = {a1}
    Tokens = {k1}
    Sims = {s1}
    Contacts = {x}
    Menus = {m1}
    Areas = {north}
    Remarks = {}
    Keys = {key1}
    HomeSim <- OneSim
    HomeArea <- OneArea
    Ttl = 1
    MaxTime = 1
SPECIFICATION Spec
INVARIANTS EntitledDuringCall RemarkOkIsWritten
