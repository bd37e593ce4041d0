\* Batches about two messages, against pulls of one message in both orders.
CONSTANTS
    t1 = t1  t2 = t2  d1 = d1  d2 = d2  s1 = s1  s2 = s2
    k1 = k1  k2 = k2  m1 = m1  m2 = m2  Nil = Nil
    Threads = {t1, t2}
    Devices = {d1}
    Sims = {s1}
    Home <- HomeOne
    Keys = {k1, k2}
    Bodies <- OneBody
    Msgs = {m1, m2}
    Batches <- Pairs
    SimLists <- NoLists
    Window = 1
    Skew = 1
    Orders = {TRUE, FALSE}
    PullLimit = 1
    MaxClock = 1
    MayCrash = FALSE
    MayAdmin = FALSE
SPECIFICATION Spec
INVARIANTS ClaimedOnce RowsAgree
PROPERTIES NeverRegresses DeliveryImplemented
SYMMETRY ThreadSymmetry
