\* Task calls one at a time, each accepted: the nodes mirror the task list.
SPECIFICATION Spec
CONSTANTS
    Calls = {c1, c2}
    AgentCalls = {}
    Questions = {"q"}
    Files = {}
    Dependencies = {{}, {1}}
    MAX_TRACKED = 1
    Parallel = FALSE
    UpdatesFail = FALSE
    MaxTasks = 2
    MaxUpdates = 3
SYMMETRY Symmetry
INVARIANTS
    Mirrors
    HistoryTellsStatus
    QuestionsAreReal
