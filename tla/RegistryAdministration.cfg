\* A device reports its SIMs while two operators edit, disable, bind and delete.
CONSTANTS
    t1 = t1  d1 = d1  s1 = s1  s2 = s2  x = x
    k1 = k1  a1 = a1  p1 = p1  p2 = p2
    Nil = Nil
    Devices = {d1}
    SimIds = {s1, s2}
    Slots = {0, 1}
    Numbers = {1, 2}
    Phones = {x}
    Cards = {k1}
    Lists <- Moves
    Accounts = {a1}
    Threads = {t1}
    Pages = {p1, p2}
    Process <- OwnProcess
SPECIFICATION Spec
INVARIANTS GoneIsBare NumbersKept MainIsBound SavedWhole
PROPERTIES OperatorsEnable
SYMMETRY Symmetry
