\* Three rules, three edits, and kills and interrupts wherever the script is safe.
SPECIFICATION RuleSpec
CONSTANTS
    NumRules = 3
    MaxEdits = 3
    KillAt = {"repair", "repaired", "read", "record", "recording", "mutate", "mutated",
              "suite", "restore", "reopen", "clear", "unlink"}
    InterruptAt = {"read", "record", "recording", "mutate", "suite", "restore", "reopen",
                   "clear"}
    EditAt = {"idle", "repaired", "read", "mutated", "suite", "restore", "clear", "unlink"}
INVARIANTS
    NothingIsLost
    OneRuleIsOff
