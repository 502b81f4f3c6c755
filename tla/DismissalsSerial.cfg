\* One request at a time, any of which may be cut short.
SPECIFICATION DismissalsSpec
CONSTANTS
    Handlers = {h1, h2}
    Questions = {q1, q2, q3}
    Inodes = {1, 2}
    Overlap = FALSE
    MayDie = TRUE
INVARIANTS
    NeverTorn
PROPERTIES
    ImplementsStore
