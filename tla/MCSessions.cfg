\* Two sessions of Claude Code in two processes, one thread of Codex; the world
\* changes twice, before or in the middle of any poll.
SPECIFICATION Spec
CONSTANTS
    Claude = {"A", "B"}
    Codex = {"X"}
    Pids = {p1, p2}
    OneGoal = {"B"}
    startedAt <- MCStartedAt
    HandedBefore <- MCHandedBefore
    MaxTasks = 2
    MaxChanges = 2
SYMMETRY Symmetry
INVARIANTS
    TypeOK
    PictureTellsTheWorld
    LinksAreCurrent
PROPERTIES
    FirstLinkIsRight
