\* The watcher alone, over a file that grows, is cut, rewritten and removed.
SPECIFICATION ReaderSpec
CONSTANTS
    Entries = {"good", "bad"}
    Poison = {"bad"}
    Undecodable = {}
    Watcher = watcher
    Handlers = {}
    Rewrites = "noticed"
    MaxLines = 3
    MaxRewrites = 2
INVARIANTS
    PrefixRead
PROPERTIES
    NeverReparsed
    EventuallyCaughtUp
