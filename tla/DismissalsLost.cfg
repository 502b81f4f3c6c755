\* Two requests at once: a lost dismissal.
SPECIFICATION DismissalsSpec
CONSTANTS
    Handlers = {h1, h2}
    Questions = {q1, q2}
    Inodes = {1, 2, 3}
    Overlap = TRUE
    MayDie = FALSE
INVARIANTS
    SettledKeepsAcked
