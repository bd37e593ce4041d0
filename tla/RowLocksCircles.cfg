\* Two transactions at a time over two devices with three SIMs, two contacts,
\* one account and two checks.
CONSTANTS
    w1 = w1  w2 = w2  d1 = d1  d2 = d2  s1 = s1  s2 = s2  s3 = s3
    x = x  y = y  a1 = a1   k1 = k1  k2 = k2
    Devices = {d1, d2}
    Sims = {s1, s2, s3}
    DeviceOf <- MCDeviceOf
    Contacts = {x, y}
    Chats <- MCChats
    Accounts = {a1}
    Checks = {k1, k2}
    Workers = {w1, w2}
SPECIFICATION Spec
INVARIANTS HarmlessNeverDeadlock 
SYMMETRY Symmetry
