\* A text and an MMS arrive, again and in every order, while agents read and SIMs go.
CONSTANTS
    t1 = t1  t2 = t2  a1 = a1  a2 = a2  s1 = s1  s2 = s2  i1 = i1  i2 = i2
    x = x  y = y  p1 = p1  p2 = p2  v1 = v1  v2 = v2  m1 = m1  m2 = m2
    Nil = Nil
    Threads = {t1, t2}
    Accounts = {a1}
    Sims = {s1}
    Ids = {i1, i2}
    Parts = {p1, p2}
    Contents = {x, y}
    Requests <- OneOfEach
    Segment <- SameSegment
    Convs = {v1, v2}
    Msgs = {m1, m2}
    MayAbort = TRUE
SPECIFICATION Spec
INVARIANTS FiledOnce UnreadIsFresh FiledBySim DownloadIsWhole RowsHaveObjects ListedWhole ToldOncePerEvent
SYMMETRY Symmetry
