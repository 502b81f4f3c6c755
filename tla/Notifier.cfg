\* Two servers that come and go, two questions.
SPECIFICATION Spec
CONSTANTS
    Servers = {s1, s2}
    Questions = {q1, q2}
    MaxAsks = 1
INVARIANTS
    SentOnce
    NothingOldIsFresh
PROPERTIES
    NewIsSent
