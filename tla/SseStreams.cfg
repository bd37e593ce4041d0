\* Replacement, disconnection and two publishers racing on one device, and what
\* publishers and replaced streams may count on.
CONSTANTS
    d1 = d1  d2 = d2  c1 = c1  c2 = c2  c3 = c3  t1 = t1  t2 = t2  t3 = t3
    Nil = Nil
    Close = Close
    Devices = {d1}
    Conns = {c1, c2}
    Threads = {t1, t2}
    MaxPosts = 2
SPECIFICATION LiveSpec
INVARIANTS OpenIsRegistered RegisteredIsOpen InOrder
PROPERTIES AcceptedIsSent ReplacedStreamEnds
