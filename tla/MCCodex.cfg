\* Two threads, with a hook each, while a poll reads one table after another.
SPECIFICATION Spec
CONSTANTS
    MAX_STEPS = 3
    Threads = {s, t}
    Turns = {1}
    Versions = {5, 6}
    Calls <- MCCalls
    MaxCalls = 2
    MaxWrites = 4
SYMMETRY Symmetry
INVARIANTS
    NothingFromBeforeIsMissing
    NothingIsInvented
    SaidIsDrawnOrReported
    PlanCanBeFollowed
PROPERTIES
    PlansOnlyMoveOn
