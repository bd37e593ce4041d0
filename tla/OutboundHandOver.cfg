\* Every undated message reaches its device: scheduled messages, a limit of one, SIM lists.
CONSTANTS
    t1 = t1  t2 = t2  d1 = d1  d2 = d2  s1 = s1  s2 = s2
    k1 = k1  k2 = k2  m1 = m1  m2 = m2  Nil = Nil
    Threads = {t1, t2}
    Devices = {d1}
    Sims = {s1}
    Home <- HomeOne
    Keys = {k1, k2}
    Bodies <- LaterBody
    Msgs = {m1, m2}
    Batches <- NoBatches
    SimLists <- OneList
    Window = 1
    Skew = 0
    Orders = {TRUE}
    PullLimit = 1
    MaxClock = 2
    MayCrash = FALSE
    MayAdmin = FALSE
SPECIFICATION LiveSpec
PROPERTIES PendingIsHandedOver
