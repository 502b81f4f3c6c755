\* Calls in any order, updates refused: where work is put, what is waited for.
SPECIFICATION Spec
CONSTANTS
    Calls = {c1, c2}
    AgentCalls = {a1}
    Questions = {}
    Files = {f1}
    Dependencies = {{}, {1}}
    MAX_TRACKED = 1
    Parallel = TRUE
    UpdatesFail = TRUE
    MaxTasks = 1
    MaxUpdates = 2
SYMMETRY Symmetry
INVARIANTS
    BooksMatchCalls
PROPERTIES
    NothingForgotten
    FinishedKeepsItsRecord
