\* Two addresses, room for three processes, a commit, a crash or another program,
\* four commands and deploys.  Nobody has to give another command after the last.
SPECIFICATION Spec
CONSTANTS
    Pids = {p1, p2, p3}
    Addresses = {a, b}
    MaxCommits = 1
    MaxCommands = 4
    MaxMishaps = 1
SYMMETRY Symmetry
CHECK_DEADLOCK FALSE
INVARIANTS
    TypeOK
PROPERTIES
    DeployedIsLive
    CommandsKeepTheirWord
