\* One run of two checks: polls, reports, receipts and expiries, in circles of row
\* locks too, with what each call and each check may count on.
CONSTANTS
    t1 = t1  t2 = t2  t3 = t3  d1 = d1  d2 = d2  s1 = s1  s2 = s2
    r1 = r1  r2 = r2  k1 = k1  k2 = k2  n1 = n1  n2 = n2  n3 = n3
    Nil = Nil
    Threads = {t1, t2}
    Devices = {d1, d2}
    Sims = {s1, s2}
    Home <- HomeTwo
    FirstNumber <- NumberTwo
    NewNumbers = {}
    Targets = {n3}
    Keys = {k1}
    Runs = {r1}
    Reports <- SentOrFailed
    Texts <- PastedTexts
    Timeout = 1
    MaxClock = 1
    MayFail = FALSE
    MayEdit = FALSE
SPECIFICATION LiveSpec
INVARIANTS NoHalfVerdict HandedOnce
PROPERTIES EveryCheckCallEnds PendingResolves VerdictFinal
