------------------------------ MODULE RuleRun ------------------------------
(***************************************************************************)
(* scripts/mutate.py switches the rules of a source file off, one at a     *)
(* time, and runs the tests, while somebody may edit the file and the      *)
(* script may be killed or interrupted.  Its promise is about the file:    *)
(* whatever happens, what was last saved in it is not lost.                *)
(*                                                                         *)
(* All rules are of one file.  A text is the number of its last edit and   *)
(* the rules that are off in it.  A write is two steps, since opening a    *)
(* file to write it empties it.                                            *)
(***************************************************************************)
EXTENDS Integers

CONSTANTS NumRules,
          KillAt,        \* where the script may be killed,
          InterruptAt,   \* or interrupted, so that its `finally' runs,
          EditAt,        \* or somebody may save the file
          MaxEdits       \* bound: edits

VARIABLES file,       \* the source file
          RECOVERY,   \* .mutate-recovery.json
          at,         \* where the script is
          rule, text, \* the rule it has come to, and the text it has read
          standing,   \* whether `standing' is set
          ending,     \* it is in its `finally'
          lost,       \* it met a file that was changed while the tests ran
          edits, saved \* how many edits there were, and the text last saved

ruleVars == <<file, RECOVERY, at, rule, text, standing, ending, lost, edits, saved>>
run == <<rule, text, standing, ending, lost>>
user == <<edits, saved>>

Rules == 1 .. NumRules
Texts == [edit : 0 .. MaxEdits, off : SUBSET Rules]
Empty == [edit |-> -1, off |-> {}]
Missing == [is |-> "missing"]
Torn == [is |-> "torn"]

\* Where the file, or the record, has been opened and not written.
HalfWritten == {"repairing", "mutating", "rewrite"}
\* After the script has looked at the file, and before it writes.
Looked == {"repair", "record", "recording", "mutate", "reopen"}
Points == {"idle", "repaired", "read", "mutated", "suite", "restore", "clear", "unlink"}
             \cup HalfWritten \cup Looked

ASSUME RuleRunAssumption ==
    /\ NumRules \in Nat \ {0} /\ MaxEdits \in Nat
    /\ KillAt \subseteq Points \ HalfWritten
    /\ InterruptAt \subseteq Points \ (HalfWritten \cup {"mutated"})
    /\ EditAt \subseteq Points \ (HalfWritten \cup Looked)

Off(t, r) == [t EXCEPT !.off = @ \cup {r}]
Record(original, mutated) == [is |-> "record", original |-> original, mutated |-> mutated]
IsRecord(r) == /\ r.is = "record" /\ r.original \in Texts /\ r.mutated \in Texts

RuleInit ==
    /\ file = [edit |-> 0, off |-> {}] /\ RECOVERY = Missing
    /\ at = "idle" /\ rule = 1 /\ text = file
    /\ standing = FALSE /\ ending = FALSE /\ lost = FALSE
    /\ edits = 0 /\ saved = file

-----------------------------------------------------------------------------
(* repair *)

\* json.loads raises, and does again until somebody removes the file.
RepairRaises ==
    /\ at = "idle" /\ RECOVERY = Torn
    /\ UNCHANGED ruleVars
Start ==
    /\ at = "idle" /\ RECOVERY # Torn
    /\ at' = IF RECOVERY = Missing THEN "read"
             ELSE IF file = RECOVERY.mutated THEN "repair" ELSE "repaired"
    /\ rule' = 1 /\ standing' = FALSE /\ ending' = FALSE /\ lost' = FALSE
    /\ UNCHANGED <<file, RECOVERY, text, user>>
RepairOpen ==
    /\ at = "repair" /\ at' = "repairing" /\ file' = Empty
    /\ UNCHANGED <<RECOVERY, run, user>>
RepairWrite ==
    /\ at = "repairing" /\ at' = "repaired" /\ file' = RECOVERY.original
    /\ UNCHANGED <<RECOVERY, run, user>>
Repaired ==
    /\ at = "repaired" /\ at' = "read" /\ RECOVERY' = Missing
    /\ UNCHANGED <<file, run, user>>

-----------------------------------------------------------------------------
(* main *)

\* line_of: the line is there, and not switched off by an edit of a text in
\* which it was.
HasLine(t, r) == t # Empty /\ r \notin t.off

ReadAtStart(t, new) == IF rule = 1 THEN new ELSE t
AsItIsNow(t, new) == new
Read ==
    /\ at = "read"
    /\ text' = AsItIsNow(text, file)
    /\ IF HasLine(file, rule) THEN at' = "record" /\ UNCHANGED ending
                              ELSE at' = "unlink" /\ ending' = TRUE
    /\ UNCHANGED <<file, RECOVERY, rule, standing, lost, user>>
OpenRecord ==
    /\ at = "record" /\ at' = "recording" /\ RECOVERY' = Torn
    /\ UNCHANGED <<file, run, user>>
WriteRecord ==
    /\ at = "recording" /\ at' = "mutate" /\ RECOVERY' = Record(text, Off(text, rule))
    /\ UNCHANGED <<file, run, user>>
OpenFile ==
    /\ at = "mutate" /\ at' = "mutating" /\ file' = Empty
    /\ UNCHANGED <<RECOVERY, run, user>>
WriteMutated ==
    /\ at = "mutating" /\ at' = "mutated" /\ file' = Off(text, rule)
    /\ UNCHANGED <<RECOVERY, run, user>>
Stand ==
    /\ at = "mutated" /\ at' = "suite" /\ standing' = TRUE
    /\ UNCHANGED <<file, RECOVERY, rule, text, ending, lost, user>>
SuiteEnds ==
    /\ at = "suite" /\ at' = "restore"
    /\ UNCHANGED <<file, RECOVERY, run, user>>

AfterRestore == IF ending THEN "unlink" ELSE "clear"
RestoreAnyway(now, mutated) == TRUE
MayRestore(now, mutated) == now = mutated
Restore ==
    /\ at = "restore"
    /\ LET mine == MayRestore(file, Off(text, rule))
       IN  at' = (IF mine THEN "reopen" ELSE AfterRestore) /\ lost' = (lost \/ ~mine)
    /\ UNCHANGED <<file, RECOVERY, rule, text, standing, ending, user>>
Reopen ==
    /\ at = "reopen" /\ at' = "rewrite" /\ file' = Empty
    /\ UNCHANGED <<RECOVERY, run, user>>
Rewrite ==
    /\ at = "rewrite" /\ at' = AfterRestore /\ file' = text
    /\ UNCHANGED <<RECOVERY, run, user>>

NoRecord(record) == Missing
Clear ==
    /\ at = "clear"
    /\ standing' = FALSE /\ RECOVERY' = NoRecord(RECOVERY)
    /\ IF rule < NumRules THEN rule' = rule + 1 /\ at' = "read" /\ UNCHANGED ending
                          ELSE at' = "unlink" /\ ending' = TRUE /\ UNCHANGED rule
    /\ UNCHANGED <<file, text, lost, user>>

\* The end of `finally'.
UnlinkRecord ==
    /\ at = "unlink" /\ at' = "idle" /\ RECOVERY' = Missing
    /\ UNCHANGED <<file, run, user>>

-----------------------------------------------------------------------------
(* What comes in between *)

\* No `finally' runs, or it is cut short, or the script is not in its `try'.
KillRun ==
    /\ at \in KillAt \ {"idle"} /\ at' = "idle"
    /\ UNCHANGED <<file, RECOVERY, run, user>>

\* An interrupt, or a step that raises.
InTheTry == Points \ {"idle", "repair", "repairing", "repaired", "unlink"}
Interrupt ==
    /\ at \in InterruptAt \cap InTheTry /\ ~ending
    /\ ending' = TRUE
    /\ at' = IF standing THEN "restore" ELSE "unlink"
    /\ UNCHANGED <<file, RECOVERY, rule, text, standing, lost, user>>

\* The editor had the text open with some rule off, or before.
Edit ==
    /\ at \in EditAt /\ edits < MaxEdits
    /\ edits' = edits + 1
    /\ \E off \in {{}, file.off} : file' = [edit |-> edits + 1, off |-> off]
    /\ saved' = file'
    /\ UNCHANGED <<RECOVERY, at, run>>

RuleNext ==
    \/ RepairRaises \/ Start \/ RepairOpen \/ RepairWrite \/ Repaired
    \/ Read \/ OpenRecord \/ WriteRecord \/ OpenFile \/ WriteMutated \/ Stand
    \/ SuiteEnds \/ Restore \/ Reopen \/ Rewrite \/ Clear \/ UnlinkRecord
    \/ KillRun \/ Interrupt \/ Edit

RuleSpec == RuleInit /\ [][RuleNext]_ruleVars

-----------------------------------------------------------------------------
(* Properties *)

RuleTypeOK ==
    /\ file \in Texts \/ file = Empty
    /\ RECOVERY \in {Missing, Torn} \/ IsRecord(RECOVERY)
    /\ at = "read" => RECOVERY = Missing
    /\ at \in Points
    /\ rule \in Rules /\ text \in Texts
    /\ standing \in BOOLEAN /\ ending \in BOOLEAN /\ lost \in BOOLEAN
    /\ edits \in 0 .. MaxEdits /\ saved \in Texts

\* `The script restores every file it touched before it exits', a hard stop
\* `leaves a source file switched off' that RECOVERY puts back, and `a file
\* changed during the run is never restored over': when no run is under way, the
\* file is as it was last saved, or RECOVERY says so and has what was saved.
NothingIsLost ==
    at = "idle" =>
        \/ file = saved
        \/ RECOVERY = Record(saved, file)

\* `Turn every rule off in turn': the tests run on the file as it was last saved
\* with just one more rule off, unless it has been saved since the rule was put off.
OneRuleIsOff ==
    at = "suite" => file \in {Off(saved, rule), saved}
=============================================================================
