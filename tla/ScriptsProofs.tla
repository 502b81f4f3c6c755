--------------------------- MODULE ScriptsProofs ---------------------------
(***************************************************************************)
(* What the command line and the scripts that change a clone promise.      *)
(*                                                                         *)
(* Deploying, for any number of servers, addresses, commands and mishaps:  *)
(* a deploy that ends well leaves no server on old code.  Servers with old *)
(* code may only be where the deploy has still to come: with ~behind,      *)
(* there are none before it merges, all of them are on its list while it   *)
(* replaces servers one by one, and there are none when it checks.         *)
(*                                                                         *)
(* Mutating the rules: no run of scripts/mutate.py loses what was last     *)
(* saved in the file, for any number of rules and of edits, and whichever  *)
(* of the safe points kills, interrupts and edits come at.                 *)
(***************************************************************************)
EXTENDS Servers, RuleRun, FiniteSetTheorems, TLAPS

\* The servers that a deploy must not leave behind.
Old == {p \in Servers : procs[p].cwd = "clone" /\ procs[p].code # clone}

IsARecord(r) == r = [x \in DOMAIN r |-> r[x]]

Sound(proc) ==
    /\ IsARecord(proc) /\ "is" \in DOMAIN proc
    /\ proc.is = "server" => {"code", "cwd", "bound"} \subseteq DOMAIN proc
ProcsInv ==
    /\ procs = [p \in Pids |-> procs[p]]
    /\ \A p \in Pids : Sound(procs[p])

Replacing == {"each", "ping", "spawn", "save", "wait"}
DeployInv(deploy) ==
    /\ IsARecord(deploy) /\ "at" \in DOMAIN deploy
    /\ deploy.at \in Replacing => "todo" \in DOMAIN deploy
ShellsInv ==
    /\ shell = [s \in Shells |-> shell[s]]
    /\ DeployInv(shell["deploy"])

\* Whether no server of `old' escapes a deploy that is where `deploy' says.
NoneEscapes(deploy, old) ==
    /\ deploy.at \in {"idle", "merge", "check"} => old = {}
    /\ deploy.at = "list" => deploy.restart \/ old = {}
    /\ deploy.at \in Replacing => old \subseteq deploy.todo

Inv ==
    /\ ProcsInv
    /\ ShellsInv
    /\ ~behind => NoneEscapes(shell["deploy"], Old)

-----------------------------------------------------------------------------
(* Lemmas *)

\* What EXCEPT leaves of a record.
LEMMA ExceptField ==
    ASSUME NEW r, IsARecord(r), NEW f \in DOMAIN r, NEW v
    PROVE  /\ IsARecord([r EXCEPT ![f] = v])
           /\ DOMAIN [r EXCEPT ![f] = v] = DOMAIN r
           /\ [r EXCEPT ![f] = v][f] = v
           /\ \A g \in DOMAIN r \ {f} : [r EXCEPT ![f] = v][g] = r[g]
    BY DEF IsARecord

\* Processes that end, start on the clone's code, or go on with what they run.
LEMMA NoMoreOld ==
    ASSUME clone' = clone,
           \A p \in Pids : \/ procs'[p].is # "server"
                           \/ procs'[p].code = clone
                           \/ procs[p].is = "server" /\ procs'[p].code = procs[p].code
                                                     /\ procs'[p].cwd = procs[p].cwd
    PROVE  Old' \subseteq Old
    BY DEF Old, Servers

\* A step that leaves the deploy where it is, and no more old servers.
LEMMA DeployStays ==
    ASSUME Inv, ProcsInv', Old' \subseteq Old,
           shell' = [s \in Shells |-> shell'[s]],
           shell'["deploy"] = shell["deploy"],
           ~behind' => ~behind
    PROVE  Inv'
  <1>1. ShellsInv'
    BY DEF Inv, ShellsInv
  <1>2. ~behind' => NoneEscapes(shell["deploy"], Old')
    BY DEF Inv, NoneEscapes
  <1> QED BY <1>1, <1>2 DEF Inv

\* The one step of `shell' that the commands are made of.
LEMMA GoOn ==
    ASSUME ShellsInv, NEW s \in Shells, NEW step, Go(s, step)
    PROVE  /\ shell' = [t \in Shells |-> shell'[t]]
           /\ shell'[s] = step
           /\ \A t \in Shells \ {s} : shell'[t] = shell[t]
    BY DEF Go, ShellsInv

\* A step that touches neither the processes nor the clone.
LEMMA ProcsSame ==
    ASSUME Inv, UNCHANGED <<procs, clone>>
    PROVE  ProcsInv' /\ Old' \subseteq Old
    BY DEF Inv, ProcsInv, Old, Servers

\* A process id that gets a process, whatever ran under it.
LEMMA ProcsExcept ==
    ASSUME Inv, clone' = clone, NEW p, NEW proc, Sound(proc),
           procs' = [procs EXCEPT ![p] = proc],
           p \in Pids => \/ proc.is # "server"
                         \/ proc.code = clone
                         \/ procs[p].is = "server" /\ proc.code = procs[p].code
                                                   /\ proc.cwd = procs[p].cwd
    PROVE  ProcsInv' /\ Old' \subseteq Old
  <1>1. procs' = [q \in Pids |-> IF q = p THEN proc ELSE procs[q]]
    BY DEF Inv, ProcsInv
  <1>2. ProcsInv'
    BY <1>1 DEF Inv, ProcsInv
  <1>3. Old' \subseteq Old
    BY <1>1, NoMoreOld
  <1> QED BY <1>2, <1>3

\* The ids that stand for no server.
LEMMA FreeIsSound == Sound(Free) /\ Sound(Other) /\ Free.is # "server" /\ Other.is # "server"
    BY DEF Sound, IsARecord, Free, Other

\* A server that is spawned, with the clone's code.
LEMMA NewServer ==
    ASSUME NEW addr, NEW cwd
    PROVE  LET proc == [is |-> "server", addr |-> addr, code |-> clone, cwd |-> cwd, bound |-> FALSE]
           IN  Sound(proc) /\ proc.code = clone
    BY DEF Sound, IsARecord

-----------------------------------------------------------------------------
\* At first there is no server at all.
LEMMA InitInv == Init => Inv
  <1> SUFFICES ASSUME Init PROVE Inv
    OBVIOUS
  <1>1. ProcsInv
    BY FreeIsSound DEF Init, ProcsInv
  <1>2. ShellsInv
    BY DEF Init, ShellsInv, DeployInv, Idle, Shells, IsARecord, Replacing
  <1>3. Old = {}
    BY DEF Init, Old, Servers, Free
  <1>4. NoneEscapes(shell["deploy"], Old)
    BY <1>3 DEF Init, NoneEscapes, Idle, Shells, Replacing
  <1> QED BY <1>1, <1>2, <1>4 DEF Inv

-----------------------------------------------------------------------------
(* The machine *)

\* Commits, crashes, other programs and servers that bind: nobody new on old code.
LEMMA MachineInv ==
    ASSUME Inv, NEW p, Commit \/ Crash(p) \/ Comes(p) \/ Bind(p)
    PROVE  Inv'
  <1>1. /\ shell' = [s \in Shells |-> shell'[s]] /\ shell'["deploy"] = shell["deploy"]
        /\ behind' = behind /\ clone' = clone
    BY DEF Inv, ShellsInv, Commit, Crash, Comes, Mishap, Bind
  <1>2. ProcsInv' /\ Old' \subseteq Old
    <2>1. CASE Commit
      BY <2>1, ProcsSame DEF Commit
    <2>2. CASE Crash(p) \/ Comes(p)
      BY <1>1, <2>2, ProcsExcept, FreeIsSound DEF Crash, Comes, Mishap
    <2>3. CASE Bind(p)
      <3> DEFINE bound == [procs[p] EXCEPT !.bound = TRUE]
      <3>1. Sound(procs[p]) /\ procs[p].is = "server"
        BY <2>3 DEF Inv, ProcsInv, Bind, Servers
      <3>2. /\ Sound(bound) /\ bound.is = "server"
            /\ bound.code = procs[p].code /\ bound.cwd = procs[p].cwd
        BY <3>1, ExceptField DEF Sound
      <3>3. procs' = [procs EXCEPT ![p] = Free] \/ procs' = [procs EXCEPT ![p] = bound]
        BY <2>3 DEF Bind
      <3> HIDE DEF bound
      <3> QED BY <1>1, <3>1, <3>2, <3>3, ProcsExcept, FreeIsSound
    <2> QED BY <2>1, <2>2, <2>3
  <1> QED BY <1>1, <1>2, DeployStays

-----------------------------------------------------------------------------
(* The steps of start *)

\* A step of start, in either shell: a deploy keeps its list.
LEMMA StartsOn ==
    ASSUME Inv, ProcsInv', Old' \subseteq Old, ~behind' => ~behind,
           NEW s \in Shells, NEW step, Go(s, step),
           s = "deploy" => /\ DeployInv(step) /\ shell[s].at \in Replacing
                           /\ step.at \in Replacing /\ step.todo = shell[s].todo
    PROVE  Inv'
  <1>1. "deploy" \in Shells
    BY DEF Shells
  <1>2. /\ shell' = [t \in Shells |-> shell'[t]] /\ shell'[s] = step
        /\ \A t \in Shells \ {s} : shell'[t] = shell[t]
    BY GoOn DEF Inv
  <1>3. CASE s # "deploy"
    BY <1>1, <1>2, <1>3, DeployStays
  <1>4. CASE s = "deploy"
    <2>1. ShellsInv'
      BY <1>2, <1>4 DEF ShellsInv
    <2>2. ~behind' => NoneEscapes(step, Old')
      BY <1>4 DEF Inv, NoneEscapes, Replacing
    <2> QED BY <1>2, <1>4, <2>1, <2>2 DEF Inv
  <1> QED BY <1>3, <1>4

\* The deploy's record with another `at', and perhaps another `pid'.
MovedTo(record, to, pid) ==
    {[record EXCEPT !.at = to], [record EXCEPT !.at = to, !.pid = pid]}
\* Such a record keeps the list.
LEMMA KeepsTheList ==
    ASSUME Inv, shell["deploy"].at \in Replacing, NEW to \in Replacing, NEW pid,
           NEW step \in MovedTo(shell["deploy"], to, pid)
    PROVE  DeployInv(step) /\ step.at = to /\ step.todo = shell["deploy"].todo
  <1> DEFINE deploy == shell["deploy"]
  <1>1. IsARecord(deploy) /\ "at" \in DOMAIN deploy /\ "todo" \in DOMAIN deploy
    BY DEF Inv, ShellsInv, DeployInv
  <1>2. step = [deploy EXCEPT !.at = to] \/ step = [deploy EXCEPT !.at = to, !.pid = pid]
    BY DEF MovedTo
  <1> HIDE DEF deploy
  <1>3. DeployInv(step) /\ step.at = to /\ step.todo = deploy.todo
    BY <1>1, <1>2 DEF DeployInv, IsARecord
  <1> QED BY <1>3 DEF deploy

\* The steps of start that change no more than that.
LEMMA StartGoesOn ==
    ASSUME Inv, ProcsInv', Old' \subseteq Old, ~behind' => ~behind,
           NEW s \in Shells, shell[s].at \in Replacing, NEW to \in Replacing, NEW pid,
           \/ Go(s, [shell[s] EXCEPT !.at = to])
           \/ Go(s, [shell[s] EXCEPT !.at = to, !.pid = pid])
    PROVE  Inv'
  <1>1. PICK step \in MovedTo(shell[s], to, pid) : Go(s, step)
    BY DEF MovedTo
  <1>2. s = "deploy" => DeployInv(step) /\ step.at = to /\ step.todo = shell[s].todo
    BY KeepsTheList
  <1> QED BY <1>1, <1>2, StartsOn

\* What comes of a start.
LEMMA StartedInv ==
    ASSUME Inv, UNCHANGED <<procs, clone>>, NEW s \in Shells, NEW code,
           shell[s].at \in Replacing, Started(s, code)
    PROVE  Inv'
  <1>1. ProcsInv' /\ Old' \subseteq Old
    BY ProcsSame
  <1>2. CASE s = "deploy" /\ code # "ok"
    <2>1. Go(s, Idle("failed")) /\ behind' = TRUE
      BY <1>2 DEF Started
    <2>2. shell' = [t \in Shells |-> shell'[t]] /\ shell'["deploy"] = Idle("failed")
      BY <1>2, <2>1, GoOn DEF Inv
    <2>3. DeployInv(Idle("failed"))
      BY DEF DeployInv, Idle, IsARecord, Replacing
    <2> QED BY <1>1, <2>1, <2>2, <2>3 DEF Inv, ShellsInv
  <1>3. CASE s = "deploy" /\ code = "ok"
    <2>1. Go(s, [shell[s] EXCEPT !.at = "each"]) /\ (~behind' => ~behind)
      BY <1>3 DEF Started
    <2>2. "each" \in Replacing
      BY DEF Replacing
    <2> QED BY <1>1, <1>3, <2>1, <2>2, StartGoesOn
  <1>4. CASE s # "deploy"
    <2>1. Go(s, Idle(code)) /\ (~behind' => ~behind)
      BY <1>4 DEF Started, Shells
    <2> QED BY <1>1, <1>4, <2>1, StartsOn
  <1> QED BY <1>2, <1>3, <1>4

\* Every step of start.
LEMMA StartInv ==
    ASSUME Inv, NEW s \in Shells, NEW p,
           Ping(s) \/ Spawn(s, p) \/ Save(s) \/ Wait(s) \/ GiveUp(s)
    PROVE  Inv'
  <1>1. shell[s].at \in Replacing
    BY DEF Ping, Spawn, Save, Wait, GiveUp, At, Replacing
  <1>2. CASE Ping(s)
    <2>1. CASE Started(s, "ok")
      BY <1>1, <1>2, <2>1, StartedInv DEF Ping
    <2>2. CASE To(s, "spawn") /\ UNCHANGED behind
      <3>1. ProcsInv' /\ Old' \subseteq Old
        BY <1>2, ProcsSame DEF Ping
      <3>2. Go(s, [shell[s] EXCEPT !.at = "spawn"]) /\ "spawn" \in Replacing
        BY <2>2 DEF To, Replacing
      <3> QED BY <1>1, <2>2, <3>1, <3>2, StartGoesOn
    <2> QED BY <1>2, <2>1, <2>2 DEF Ping
  <1>3. CASE Spawn(s, p)
    <2> DEFINE proc == [is |-> "server", addr |-> shell[s].addr, code |-> clone,
                        cwd |-> shell[s].cwd, bound |-> FALSE]
    <2>1. Sound(proc) /\ proc.code = clone
      BY NewServer
    <2>2. procs' = [procs EXCEPT ![p] = proc] /\ clone' = clone /\ behind' = behind
      BY <1>3 DEF Spawn
    <2> HIDE DEF proc
    <2>3. ProcsInv' /\ Old' \subseteq Old
      BY <2>1, <2>2, ProcsExcept
    <2>4. Go(s, [shell[s] EXCEPT !.at = "save", !.pid = p]) /\ "save" \in Replacing
      BY <1>3 DEF Spawn, Replacing
    <2> QED BY <1>1, <2>2, <2>3, <2>4, StartGoesOn
  <1>4. CASE Save(s)
    <2>1. ProcsInv' /\ Old' \subseteq Old
      BY <1>4, ProcsSame DEF Save
    <2>2. Go(s, [shell[s] EXCEPT !.at = "wait", !.pid = NoPid]) /\ "wait" \in Replacing
      BY <1>4 DEF Save, Replacing
    <2> QED BY <1>1, <1>4, <2>1, <2>2, StartGoesOn DEF Save
  <1>5. CASE Wait(s)
    BY <1>1, <1>5, StartedInv DEF Wait
  <1>6. CASE GiveUp(s)
    BY <1>1, <1>6, StartedInv DEF GiveUp
  <1> QED BY <1>2, <1>3, <1>4, <1>5, <1>6

-----------------------------------------------------------------------------
(* The user's steps, and those of a deploy *)

\* A step of the user's shell.
LEMMA UserMoves ==
    ASSUME Inv, ProcsInv', Old' \subseteq Old, behind' = behind, NEW step, Go("user", step)
    PROVE  Inv'
  <1>1. "user" \in Shells /\ "user" # "deploy"
    BY DEF Shells
  <1> QED BY <1>1, StartsOn

\* A step of the deploy that leaves no old server out of its sight.
LEMMA DeployMoves ==
    ASSUME Inv, ProcsInv', NEW step, Go("deploy", step), DeployInv(step),
           ~behind' => NoneEscapes(step, Old')
    PROVE  Inv'
  <1>1. "deploy" \in Shells
    BY DEF Shells
  <1>2. shell' = [t \in Shells |-> shell'[t]] /\ shell'["deploy"] = step
    BY <1>1, GoOn DEF Inv
  <1> QED BY <1>2 DEF Inv, ShellsInv

\* A deploy at its end.
LEMMA DeployEnds ==
    ASSUME Inv, ProcsInv', NEW result, Go("deploy", Idle(result)), ~behind' => Old' = {}
    PROVE  Inv'
  <1>1. DeployInv(Idle(result)) /\ Idle(result).at = "idle"
    BY DEF DeployInv, Idle, IsARecord, Replacing
  <1>2. ~behind' => NoneEscapes(Idle(result), Old')
    BY <1>1 DEF NoneEscapes, Replacing
  <1> QED BY <1>1, <1>2, DeployMoves

\* stop and restart.
LEMMA StopInv ==
    ASSUME Inv, Kill \/ Unlink \/ Stopped
    PROVE  Inv'
  <1>1. PICK step : Go("user", step)
    BY DEF Kill, Unlink, Stopped, To
  <1>2. ProcsInv' /\ Old' \subseteq Old
    <2>1. CASE UNCHANGED <<procs, clone>>
      BY <2>1, ProcsSame
    <2>2. CASE procs' = [procs EXCEPT ![pid_file] = Free] /\ clone' = clone
      BY <2>2, ProcsExcept, FreeIsSound
    <2> QED BY <2>1, <2>2 DEF Kill, Unlink, Stopped, Killed
  <1>3. behind' = behind
    BY DEF Kill, Unlink, Stopped
  <1> QED BY <1>1, <1>2, <1>3, UserMoves

\* A command or a deploy begins.
LEMMA BeginInv ==
    ASSUME Inv, NEW s \in Shells, NEW step, Begin(s, step),
           s = "deploy" => DeployInv(step) /\ step.at = "merge"
    PROVE  Inv'
  <1>1. ProcsInv' /\ Old' \subseteq Old
    BY ProcsSame DEF Begin
  <1>2. CASE s = "user"
    BY <1>1, <1>2, UserMoves DEF Begin
  <1>3. CASE s = "deploy"
    <2>1. ~behind' => Old' = {}
      BY <1>1, <1>3 DEF Begin, Inv, NoneEscapes
    <2>2. ~behind' => NoneEscapes(step, Old')
      BY <1>3, <2>1 DEF NoneEscapes, Replacing
    <2> QED BY <1>1, <1>3, <2>2, DeployMoves DEF Begin
  <1> QED BY <1>2, <1>3 DEF Shells

\* The merge: what was up to date is old from here on, if Python came with it.
LEMMA MergeInv == ASSUME Inv, Merge PROVE Inv'
  <1> DEFINE again == shell["deploy"].restart \/ needs_restart(clone, clone')
             step == [at |-> "list", restart |-> again]
  <1>1. ProcsInv' /\ behind' = behind
    BY DEF Inv, ProcsInv, Merge
  <1>2. Go("deploy", step) /\ shell["deploy"].at = "merge"
    BY DEF Merge, At
  <1>3. DeployInv(step) /\ step.at = "list"
    BY DEF DeployInv, IsARecord, Replacing
  <1>4. ~behind => step.restart \/ Old' = {}
    BY <1>1, <1>2 DEF Merge, needs_restart, Inv, NoneEscapes, Old, Servers
  <1> HIDE DEF step
  <1>5. ~behind' => NoneEscapes(step, Old')
    BY <1>1, <1>3, <1>4 DEF NoneEscapes, Replacing
  <1> QED BY <1>1, <1>2, <1>3, <1>5, DeployMoves

\* The list: every old server is on it, as it runs from the clone.
LEMMA ListInv == ASSUME Inv, List PROVE Inv'
  <1> DEFINE running == {p \in servers : procs[p].cwd = "clone"}
             to == IF shell["deploy"].restart THEN "each" ELSE "check"
             step == [at |-> to, todo |-> running, running |-> [p \in running |-> procs[p].addr],
                      cwd |-> "clone", pid |-> NoPid]
  <1>1. ProcsInv' /\ Old' \subseteq Old /\ behind' = behind
    BY ProcsSame DEF List
  <1>2. Old' \subseteq running
    BY <1>1 DEF Old, servers
  <1>3. CASE servers = {}
    <2>1. Go("deploy", Idle("ok"))
      BY <1>3 DEF List
    <2> QED BY <1>1, <1>2, <1>3, <2>1, DeployEnds
  <1>4. CASE servers # {}
    <2>1. Go("deploy", step) /\ shell["deploy"].at = "list"
      BY <1>4 DEF List, At
    <2>2. DeployInv(step) /\ step.at = to /\ step.todo = running
      BY DEF DeployInv, IsARecord
    <2>3. ~behind => (to = "check" => Old' = {})
      BY <1>1, <2>1 DEF Inv, NoneEscapes
    <2> HIDE DEF step, running
    <2>4. ~behind' => NoneEscapes(step, Old')
      BY <1>1, <1>2, <2>2, <2>3 DEF NoneEscapes, Replacing
    <2> QED BY <1>1, <2>1, <2>2, <2>4, DeployMoves
  <1> QED BY <1>3, <1>4

\* One server killed, and off the list: what is left of the old is on it.
LEMMA ReplaceInv == ASSUME Inv, NEW p \in Pids, Replace(p) PROVE Inv'
  <1> DEFINE deploy == shell["deploy"]
             step == [at |-> "ping", addr |-> deploy.running[p], todo |-> deploy.todo \ {p},
                      running |-> deploy.running, cwd |-> "clone", pid |-> NoPid]
  <1>1. CASE procs[p] = Free
    <2>1. ProcsInv' /\ Go("deploy", Idle("failed")) /\ behind' = TRUE
      BY <1>1, ProcsSame DEF Replace, Fails
    <2> QED BY <2>1, DeployEnds
  <1>2. CASE procs[p] # Free
    <2>1. /\ procs' = [procs EXCEPT ![p] = Free] /\ clone' = clone /\ behind' = behind
          /\ Go("deploy", step) /\ deploy.at = "each"
      BY <1>2 DEF Replace, Killed, At
    <2>2. ProcsInv' /\ Old' \subseteq Old
      BY <2>1, ProcsExcept, FreeIsSound
    <2>3. p \notin Old'
      BY <2>1 DEF Old, Servers, Inv, ProcsInv, Free
    <2>4. DeployInv(step) /\ step.at = "ping" /\ step.todo = deploy.todo \ {p}
      BY DEF DeployInv, IsARecord
    <2>5. ~behind => Old \subseteq deploy.todo
      BY <2>1 DEF Inv, NoneEscapes, Replacing
    <2> HIDE DEF step
    <2>6. ~behind' => NoneEscapes(step, Old')
      BY <2>1, <2>2, <2>3, <2>4, <2>5 DEF NoneEscapes, Replacing
    <2> QED BY <2>1, <2>2, <2>4, <2>6, DeployMoves
  <1> QED BY <1>1, <1>2

\* The list is empty, and with it the old.
LEMMA AllReplacedInv == ASSUME Inv, AllReplaced PROVE Inv'
  <1> DEFINE deploy == shell["deploy"]
             step == [deploy EXCEPT !.at = "check"]
  <1>1. ProcsInv' /\ Old' \subseteq Old /\ behind' = behind
    BY ProcsSame DEF AllReplaced
  <1>2. Go("deploy", step) /\ deploy.at = "each" /\ deploy.todo = {}
    BY DEF AllReplaced, To, At
  <1>3. IsARecord(deploy) /\ "at" \in DOMAIN deploy
    BY DEF Inv, ShellsInv, DeployInv
  <1>4. IsARecord(step) /\ DOMAIN step = DOMAIN deploy /\ step.at = "check"
    BY <1>3, ExceptField
  <1>5. ~behind => Old' = {}
    BY <1>1, <1>2 DEF Inv, NoneEscapes, Replacing
  <1> HIDE DEF step
  <1>6. DeployInv(step)
    BY <1>3, <1>4 DEF DeployInv, Replacing
  <1>7. ~behind' => NoneEscapes(step, Old')
    BY <1>1, <1>4, <1>5 DEF NoneEscapes, Replacing
  <1> QED BY <1>1, <1>2, <1>6, <1>7, DeployMoves

\* At the check none is left.
LEMMA CheckInv == ASSUME Inv, Check PROVE Inv'
  <1>1. ProcsInv' /\ Old' \subseteq Old
    BY ProcsSame DEF Check
  <1>2. CASE Go("deploy", Idle("ok")) /\ behind' = behind
    <2>1. ~behind' => Old' = {}
      BY <1>1, <1>2 DEF Check, At, Inv, NoneEscapes
    <2> QED BY <1>1, <1>2, <2>1, DeployEnds
  <1>3. CASE Go("deploy", Idle("failed")) /\ behind' = TRUE
    BY <1>1, <1>3, DeployEnds
  <1> QED BY <1>2, <1>3 DEF Check, Fails

\* A deploy that is cut short says so in `behind'.
LEMMA CutShortInv == ASSUME Inv, NEW s \in Shells, CutShort(s) PROVE Inv'
  <1>1. ProcsInv' /\ Old' \subseteq Old
    BY ProcsSame DEF CutShort
  <1>2. CASE s = "user"
    <2>1. Go("user", Idle("failed")) /\ (~behind' => ~behind)
      BY <1>2 DEF CutShort
    <2>2. "user" \in Shells /\ "user" # "deploy"
      BY DEF Shells
    <2> QED BY <1>1, <2>1, <2>2, StartsOn
  <1>3. CASE s = "deploy"
    BY <1>1, <1>3, DeployEnds DEF CutShort
  <1> QED BY <1>2, <1>3 DEF Shells

\* Every step, and with it every state.
LEMMA NextInv == ASSUME Inv, [Next]_vars PROVE Inv'
  <1>1. CASE UNCHANGED vars
    <2>1. ProcsInv' /\ Old' \subseteq Old /\ shell' = shell /\ behind' = behind
      BY <1>1, ProcsSame DEF vars
    <2>2. shell' = [s \in Shells |-> shell'[s]]
      BY <2>1 DEF Inv, ShellsInv
    <2> QED BY <2>1, <2>2, DeployStays
  <1>2. CASE Commit
    BY <1>2, MachineInv
  <1>3. CASE \E p \in Pids : Crash(p) \/ Comes(p) \/ Bind(p)
    BY <1>3, MachineInv
  <1>4. CASE \/ \E addr \in Addresses :
                   \/ Command("stop", addr, "clone")
                   \/ \E job \in {"start", "restart"}, cwd \in {"clone", "elsewhere"} :
                         Command(job, addr, cwd)
    <2>1. PICK step : Begin("user", step)
      BY <1>4 DEF Command
    <2> QED BY <2>1, BeginInv DEF Shells
  <1>5. CASE \E restart \in BOOLEAN : Deploy(restart)
    <2>1. PICK restart : Begin("deploy", [at |-> "merge", restart |-> restart])
      BY <1>5 DEF Deploy
    <2> DEFINE step == [at |-> "merge", restart |-> restart]
    <2>2. DeployInv(step) /\ step.at = "merge"
      BY DEF DeployInv, IsARecord, Replacing
    <2> HIDE DEF step
    <2>3. Begin("deploy", step)
      BY <2>1 DEF step
    <2> QED BY <2>2, <2>3, BeginInv DEF Shells
  <1>6. CASE Steps
    <2>1. CASE \E s \in Shells : \/ Ping(s) \/ Save(s) \/ Wait(s) \/ GiveUp(s)
                                 \/ \E p \in Pids : Spawn(s, p)
      BY <2>1, StartInv
    <2>2. CASE \E s \in Shells : CutShort(s)
      BY <2>2, CutShortInv
    <2>3. CASE Kill \/ Unlink \/ Stopped
      BY <2>3, StopInv
    <2>4. CASE Merge \/ List \/ AllReplaced \/ Check \/ \E p \in Pids : Replace(p)
      BY <2>4, MergeInv, ListInv, AllReplacedInv, CheckInv, ReplaceInv
    <2> QED BY <1>6, <2>1, <2>2, <2>3, <2>4 DEF Steps
  <1> QED BY <1>1, <1>2, <1>3, <1>4, <1>5, <1>6 DEF Next

\* Servers with the clone's old code are only where a deploy has still to come.
THEOREM InvHolds == Spec => []Inv
  <1> QED BY InitInv, NextInv, PTL DEF Spec

-----------------------------------------------------------------------------
\* The steps that may end a deploy well.
LEMMA EndsWell ==
    ASSUME Inv, Next, Done("deploy", shell'["deploy"])
    PROVE  \/ List /\ servers = {}
           \/ shell["deploy"].at = "check"
  <1>1. /\ shell'["deploy"].at = "idle" /\ shell'["deploy"].result = "ok"
        /\ shell["deploy"].at # "idle"
    BY DEF Done
  <1>2. \A step : Go("deploy", step) => shell'["deploy"] = step
    BY GoOn DEF Inv, Shells
  <1>3. ~ \E step : Go("user", step)
    BY <1>1, GoOn DEF Inv, Shells
  <1>4. ~Go("deploy", Idle("failed"))
    BY <1>1, <1>2 DEF Idle
  <1>5. ASSUME shell["deploy"].at \in Replacing, NEW to \in Replacing, NEW pid,
               NEW step \in MovedTo(shell["deploy"], to, pid), Go("deploy", step)
        PROVE  FALSE
    <2>1. step.at = to
      BY <1>5, KeepsTheList
    <2> QED BY <1>1, <1>2, <1>5, <2>1 DEF Replacing
  <1>6. ~Commit /\ ~ \E p \in Pids : Crash(p) \/ Comes(p) \/ Bind(p)
    BY <1>1 DEF Commit, Crash, Comes, Mishap, Bind
  <1>7. ~ \E addr, job, cwd : Command(job, addr, cwd)
    BY <1>3 DEF Command, Begin
  <1>8. ~ \E restart : Deploy(restart)
    BY <1>1 DEF Deploy, Begin
  <1>9. Steps
    BY <1>6, <1>7, <1>8 DEF Next
  <1>10. ~Kill /\ ~Unlink /\ ~Stopped
    BY <1>3 DEF Kill, Unlink, Stopped, To
  <1>11. ASSUME NEW s \in Shells, NEW p,
                Ping(s) \/ Spawn(s, p) \/ Save(s) \/ Wait(s) \/ GiveUp(s) \/ CutShort(s)
         PROVE  FALSE
    <2>1. CASE s = "user"
      <3>1. \E step : Go("user", step)
        BY <1>11, <2>1 DEF Ping, Spawn, Save, Wait, GiveUp, CutShort, Started, To
      <3> QED BY <1>3, <3>1
    <2>2. CASE s = "deploy"
      <3> DEFINE deploy == shell["deploy"]
      <3>1. CASE CutShort(s)
        BY <1>4, <2>2, <3>1 DEF CutShort
      <3>2. CASE ~CutShort(s)
        <4>1. deploy.at \in Replacing
          BY <1>11, <2>2, <3>2 DEF Ping, Spawn, Save, Wait, GiveUp, At, Replacing
        <4>2. \/ Go("deploy", [deploy EXCEPT !.at = "each"])
              \/ Go("deploy", [deploy EXCEPT !.at = "spawn"])
              \/ Go("deploy", [deploy EXCEPT !.at = "save", !.pid = p])
              \/ Go("deploy", [deploy EXCEPT !.at = "wait", !.pid = NoPid])
          BY <1>4, <1>11, <2>2, <3>2 DEF Ping, Spawn, Save, Wait, GiveUp, Started, To
        <4>3. PICK to \in Replacing, pid \in {p, NoPid} :
                 \E step \in MovedTo(deploy, to, pid) : Go("deploy", step)
          BY <4>2 DEF MovedTo, Replacing
        <4> QED BY <1>5, <4>1, <4>3
      <3> QED BY <3>1, <3>2
    <2> QED BY <2>1, <2>2 DEF Shells
  <1>12. ~Merge
    <2> SUFFICES ASSUME Merge PROVE FALSE
      OBVIOUS
    <2>1. PICK step : Go("deploy", step) /\ step.at = "list"
      BY DEF Merge
    <2> QED BY <1>1, <1>2, <2>1
  <1>13. ~ \E p \in Pids : Replace(p)
    <2> SUFFICES ASSUME NEW p \in Pids, Replace(p) PROVE FALSE
      OBVIOUS
    <2>1. PICK step : Go("deploy", step) /\ step.at = "ping"
      BY <1>4 DEF Replace, Fails
    <2> QED BY <1>1, <1>2, <2>1
  <1>14. ~AllReplaced
    <2> SUFFICES ASSUME AllReplaced PROVE FALSE
      OBVIOUS
    <2> DEFINE deploy == shell["deploy"]
    <2>1. IsARecord(deploy) /\ "at" \in DOMAIN deploy
      BY DEF Inv, ShellsInv, DeployInv
    <2>2. [deploy EXCEPT !.at = "check"].at = "check"
      BY <2>1, ExceptField
    <2> QED BY <1>1, <1>2, <2>2 DEF AllReplaced, To
  <1>15. CASE List
    <2>1. CASE servers # {}
      <3>1. PICK step : Go("deploy", step) /\ step.at \in {"each", "check"}
        BY <1>15, <2>1 DEF List
      <3> QED BY <1>1, <1>2, <3>1
    <2> QED BY <1>15, <2>1
  <1>16. CASE Check
    BY <1>16 DEF Check, At
  <1> QED
    <2>1. CASE \E s \in Shells : \/ Ping(s) \/ Save(s) \/ Wait(s) \/ GiveUp(s)
                                 \/ CutShort(s) \/ \E p \in Pids : Spawn(s, p)
      BY <1>11, <2>1
    <2> QED BY <1>9, <1>10, <1>12, <1>13, <1>14, <1>15, <1>16, <2>1 DEF Steps

\* Whatever else goes on, and however many servers and addresses there are: a
\* deploy that ends well, with none before it stopped half way, leaves every
\* server that runs from the clone on the clone's code.
THEOREM DeployLeavesNoneBehind == Spec => DeployedIsLive
  <1>1. ASSUME Inv, Next, Done("deploy", shell'["deploy"]), ~behind
        PROVE  \A p \in Servers : procs[p].cwd = "clone" => procs[p].code = clone
    <2>1. CASE List /\ servers = {}
      BY <2>1 DEF servers
    <2>2. CASE shell["deploy"].at = "check"
      BY <1>1, <2>2 DEF Inv, NoneEscapes, Old
    <2> QED BY <1>1, <2>1, <2>2, EndsWell
  <1>2. Inv /\ [Next]_vars =>
           [(Done("deploy", shell'["deploy"]) /\ ~behind) =>
               \A p \in Servers : procs[p].cwd = "clone" => procs[p].code = clone]_shell
    BY <1>1 DEF vars
  <1> QED BY <1>2, InvHolds, PTL DEF Spec, DeployedIsLive

-----------------------------------------------------------------------------
(* Types, and one server for each address *)

Cwds == {"clone", "elsewhere"}
AnyPid == Pids \cup {NoPid}
Starting == {"ping", "spawn", "save", "wait"}
ServerProcs == [is : {"server"}, addr : Addresses, code : 0 .. MaxCommits, cwd : Cwds, bound : BOOLEAN]

\* What a shell's record can be: idle, the user's command, a deploy that has no
\* list yet, one with its list, and one that has begun to replace servers.
Ended == [at : {"idle"}, result : {"ok", "failed"}]
Commands == [at : Starting \cup {"stop", "unlink", "stopped"}, job : {"start", "stop", "restart"},
             addr : Addresses, cwd : Cwds, pid : AnyPid, since : 0 .. MaxCommits]
Merging == [at : {"merge", "list"}, restart : BOOLEAN]
AddressLists == UNION {[pids -> Addresses] : pids \in SUBSET Pids}
Listed == [at : {"each", "check"}, todo : SUBSET Pids, running : AddressLists,
           cwd : {"clone"}, pid : AnyPid]
Restarting == [at : Replacing \cup {"check"}, addr : Addresses, todo : SUBSET Pids,
               running : AddressLists, cwd : {"clone"}, pid : AnyPid]
ListsItsOwn(deploy) == deploy.at \in Replacing => deploy.todo \subseteq DOMAIN deploy.running
UserRecord(record) == record \in Ended \cup Commands
DeployRecord(record) ==
    record \in Ended \cup Merging \cup Listed \cup Restarting /\ ListsItsOwn(record)
RecordOf(s, record) ==
    (s = "user" => UserRecord(record)) /\ (s = "deploy" => DeployRecord(record))

ShellTypes == shell = [s \in Shells |-> shell[s]] /\ \A s \in Shells : RecordOf(s, shell[s])
ProcTypes == procs \in [Pids -> {Free, Other} \cup ServerProcs]
CountTypes ==
    /\ pid_file \in AnyPid
    /\ clone \in 0 .. main /\ main \in 0 .. MaxCommits
    /\ commands \in 0 .. MaxCommands /\ mishaps \in 0 .. MaxMishaps
FlagTypes == tidy \in BOOLEAN /\ behind \in BOOLEAN
OneAnswers == \A p, q \in Servers :
    procs[p].addr = procs[q].addr /\ procs[p].bound /\ procs[q].bound => p = q

TypeInv == ProcTypes /\ CountTypes /\ FlagTypes /\ ShellTypes /\ OneAnswers

\* A shell that goes on to another record of its own.
LEMMA RecordsStay ==
    ASSUME ShellTypes, NEW s \in Shells, NEW step, RecordOf(s, step), Go(s, step)
    PROVE  ShellTypes'
    BY DEF ShellTypes, Go

\* The three kinds of processes, told apart.
LEMMA ProcKinds ==
    ASSUME ProcTypes
    PROVE  /\ Free.is = "free" /\ Other.is = "other"
           /\ \A p \in Pids : procs[p] \in {Free, Other} \cup ServerProcs
           /\ \A p \in Pids : procs[p].is = "server" <=> procs[p] \in ServerProcs
           /\ \A p \in Servers : p \in Pids /\ procs[p] \in ServerProcs
    BY DEF ProcTypes, Servers, ServerProcs, Free, Other

\* A process that ends, is another program, or is a server that does not answer yet.
LEMMA NobodyMoreAnswers ==
    ASSUME ProcTypes, OneAnswers, NEW p \in Pids, NEW proc \in {Free, Other} \cup ServerProcs,
           proc \in ServerProcs => proc.bound = FALSE,
           procs' = [procs EXCEPT ![p] = proc]
    PROVE  ProcTypes' /\ OneAnswers'
  <1>1. /\ procs' = [q \in Pids |-> IF q = p THEN proc ELSE procs[q]]
        /\ ProcTypes'
    BY DEF ProcTypes
  <1>2. \A q \in Servers' : q # p => q \in Servers /\ procs'[q] = procs[q]
    BY <1>1 DEF Servers
  <1>3. p \in Servers' => procs'[p].bound = FALSE
    BY <1>1, ProcKinds DEF Servers, Free, Other, ServerProcs
  <1>4. OneAnswers'
    BY <1>1, <1>2, <1>3 DEF OneAnswers
  <1> QED BY <1>1, <1>4

\* A server that comes to answer, where none answers.
LEMMA OneMoreAnswers ==
    ASSUME ProcTypes, OneAnswers, NEW p \in Servers, ~Taken(procs[p].addr),
           procs' = [procs EXCEPT ![p] = [procs[p] EXCEPT !.bound = TRUE]]
    PROVE  ProcTypes' /\ OneAnswers'
  <1> DEFINE proc == [procs[p] EXCEPT !.bound = TRUE]
  <1>1. p \in Pids /\ procs[p] \in ServerProcs
    BY ProcKinds
  <1>2. proc \in ServerProcs /\ proc.addr = procs[p].addr
    BY <1>1 DEF ServerProcs
  <1> HIDE DEF proc
  <1>3. procs' = [q \in Pids |-> IF q = p THEN proc ELSE procs[q]]
    BY DEF ProcTypes, proc
  <1>4. ProcTypes'
    BY <1>2, <1>3 DEF ProcTypes
  <1>5. \A q \in Servers' : q # p => q \in Servers /\ procs'[q] = procs[q]
    BY <1>3 DEF Servers
  <1>6. \A q \in Servers : procs[q].addr = procs[p].addr => ~procs[q].bound
    BY DEF Taken, Answering
  <1>7. OneAnswers'
    BY <1>2, <1>3, <1>5, <1>6 DEF OneAnswers
  <1> QED BY <1>4, <1>7

LEMMA InitTypes == ASSUME ServersAssumption, Init PROVE TypeInv
  <1>1. ProcTypes /\ OneAnswers
    BY DEF Init, ProcTypes, OneAnswers, Servers, Free
  <1>2. CountTypes
    BY DEF Init, CountTypes, AnyPid, ServersAssumption
  <1>3. FlagTypes
    BY DEF Init, FlagTypes
  <1>4. ShellTypes
    BY DEF Init, ShellTypes, RecordOf, UserRecord, DeployRecord, Ended, Idle, ListsItsOwn, Replacing
  <1> QED BY <1>1, <1>2, <1>3, <1>4 DEF TypeInv

\* Crashes, other programs, servers that bind or find their address taken.
LEMMA MachineTypes ==
    ASSUME ServersAssumption, TypeInv, NEW p \in Pids, Crash(p) \/ Comes(p) \/ Bind(p)
    PROVE  TypeInv'
  <1>1. ShellTypes' /\ FlagTypes'
    BY DEF TypeInv, ShellTypes, FlagTypes, Crash, Comes, Mishap, Bind
  <1>2. CountTypes'
    BY DEF TypeInv, CountTypes, counts, Crash, Comes, Mishap, Bind, ServersAssumption
  <1>3. ProcTypes' /\ OneAnswers'
    <2>1. CASE Crash(p) \/ Comes(p)
      BY <2>1, NobodyMoreAnswers DEF TypeInv, Crash, Comes, Mishap, ServerProcs, Free, Other
    <2>2. CASE Bind(p)
      <3>1. p \in Servers /\ ProcTypes /\ OneAnswers
        BY <2>2 DEF Bind, TypeInv
      <3>2. CASE Taken(procs[p].addr)
        <4>1. procs' = [procs EXCEPT ![p] = Free]
          BY <2>2, <3>2 DEF Bind
        <4> QED BY <3>1, <4>1, NobodyMoreAnswers DEF ServerProcs, Free
      <3>3. CASE ~Taken(procs[p].addr)
        <4>1. procs' = [procs EXCEPT ![p] = [procs[p] EXCEPT !.bound = TRUE]]
          BY <2>2, <3>3 DEF Bind
        <4> QED BY <3>1, <3>3, <4>1, OneMoreAnswers
      <3> QED BY <3>2, <3>3
    <2> QED BY <2>1, <2>2
  <1> QED BY <1>1, <1>2, <1>3 DEF TypeInv

\* A step of a shell that leaves the processes alone.
LEMMA ShellStepTypes ==
    ASSUME TypeInv, NEW s \in Shells, NEW step, RecordOf(s, step), Go(s, step),
           procs' = procs, CountTypes', FlagTypes'
    PROVE  TypeInv'
  <1>1. ShellTypes'
    BY RecordsStay DEF TypeInv
  <1>2. ProcTypes' /\ OneAnswers'
    BY DEF TypeInv, ProcTypes, OneAnswers, Servers
  <1> QED BY <1>1, <1>2 DEF TypeInv

\* Every end of what a shell does is a record of it.
LEMMA EndedIsARecord ==
    ASSUME NEW s \in Shells, NEW result \in {"ok", "failed"}
    PROVE  RecordOf(s, Idle(result))
    BY DEF RecordOf, UserRecord, DeployRecord, Ended, Idle, ListsItsOwn, Replacing

\* What start reads of a shell's record, and that its steps make records of it.
LEMMA StartingRecord ==
    ASSUME TypeInv, NEW s \in Shells, shell[s].at \in Starting
    PROVE  /\ shell[s].addr \in Addresses /\ shell[s].cwd \in Cwds /\ shell[s].pid \in AnyPid
           /\ \A to \in Starting : /\ RecordOf(s, [shell[s] EXCEPT !.at = to])
                                   /\ \A pid \in AnyPid :
                                         RecordOf(s, [shell[s] EXCEPT !.at = to, !.pid = pid])
           /\ s = "deploy" => RecordOf(s, [shell[s] EXCEPT !.at = "each"])
  <1>1. CASE s = "user"
    <2>1. shell[s] \in Commands
      BY <1>1 DEF TypeInv, ShellTypes, RecordOf, UserRecord, Ended, Starting
    <2> QED BY <1>1, <2>1 DEF Commands, RecordOf, UserRecord
  <1>2. CASE s = "deploy"
    <2>1. shell[s] \in Restarting /\ ListsItsOwn(shell[s])
      BY <1>2 DEF TypeInv, ShellTypes, RecordOf, DeployRecord, Ended, Merging, Listed, Starting
    <2>2. shell[s].todo \subseteq DOMAIN shell[s].running
      BY <2>1 DEF ListsItsOwn, Starting, Replacing
    <2> DEFINE lists == AddressLists
    <2>3. Restarting = [at : Replacing \cup {"check"}, addr : Addresses, todo : SUBSET Pids,
                        running : lists, cwd : {"clone"}, pid : AnyPid]
      BY DEF Restarting
    <2> HIDE DEF lists
    <2>4. ASSUME NEW to \in Starting \cup {"each"}
          PROVE  /\ DeployRecord([shell[s] EXCEPT !.at = to])
                 /\ \A pid \in AnyPid : DeployRecord([shell[s] EXCEPT !.at = to, !.pid = pid])
      BY <2>1, <2>2, <2>3 DEF DeployRecord, ListsItsOwn, Starting, Replacing
    <2> QED BY <1>2, <2>1, <2>3, <2>4 DEF RecordOf, Cwds
  <1> QED BY <1>1, <1>2 DEF Shells

\* The steps of start.
LEMMA StartTypes ==
    ASSUME ServersAssumption, TypeInv, NEW s \in Shells,
           Ping(s) \/ Save(s) \/ Wait(s) \/ GiveUp(s) \/ \E p \in Pids : Spawn(s, p)
    PROVE  TypeInv'
  <1>1. shell[s].at \in Starting
    BY DEF Ping, Spawn, Save, Wait, GiveUp, At, Starting
  <1>2. /\ shell[s].addr \in Addresses /\ shell[s].cwd \in Cwds /\ shell[s].pid \in AnyPid
        /\ \A to \in Starting : /\ RecordOf(s, [shell[s] EXCEPT !.at = to])
                                /\ \A pid \in AnyPid :
                                      RecordOf(s, [shell[s] EXCEPT !.at = to, !.pid = pid])
        /\ s = "deploy" => RecordOf(s, [shell[s] EXCEPT !.at = "each"])
    BY <1>1, StartingRecord
  <1>3. CountTypes'
    BY <1>2 DEF TypeInv, CountTypes, counts, Ping, Spawn, Save, Saved, Wait, GiveUp
  <1>4. FlagTypes'
    BY DEF TypeInv, FlagTypes, Ping, Spawn, Save, Wait, GiveUp, Started
  <1>5. ASSUME NEW code \in {"ok", "failed"}, Started(s, code), procs' = procs PROVE TypeInv'
    <2>1. CASE Go(s, Idle(code))
      BY <1>3, <1>4, <1>5, <2>1, EndedIsARecord, ShellStepTypes
    <2>2. CASE s = "deploy" /\ Go(s, [shell[s] EXCEPT !.at = "each"])
      BY <1>2, <1>3, <1>4, <1>5, <2>2, ShellStepTypes
    <2>3. CASE Go(s, Idle("failed"))
      BY <1>3, <1>4, <1>5, <2>3, EndedIsARecord, ShellStepTypes
    <2> QED BY <1>5, <2>1, <2>2, <2>3 DEF Started, Shells
  <1>6. CASE Ping(s)
    <2>1. Started(s, "ok") \/ Go(s, [shell[s] EXCEPT !.at = "spawn"])
      BY <1>6 DEF Ping, To
    <2>2. procs' = procs /\ "spawn" \in Starting
      BY <1>6 DEF Ping, Starting
    <2> QED BY <1>2, <1>3, <1>4, <1>5, <2>1, <2>2, ShellStepTypes
  <1>7. ASSUME NEW p \in Pids, Spawn(s, p) PROVE TypeInv'
    <2> DEFINE proc == [is |-> "server", addr |-> shell[s].addr, code |-> clone,
                        cwd |-> shell[s].cwd, bound |-> FALSE]
               step == [shell[s] EXCEPT !.at = "save", !.pid = p]
    <2>1. procs' = [procs EXCEPT ![p] = proc] /\ Go(s, step)
      BY <1>7 DEF Spawn
    <2>2. clone \in 0 .. MaxCommits
      BY DEF TypeInv, CountTypes, ServersAssumption
    <2>3. proc \in ServerProcs /\ proc.bound = FALSE
      BY <1>2, <2>2 DEF ServerProcs
    <2>4. RecordOf(s, step)
      BY <1>2 DEF Starting, AnyPid
    <2> HIDE DEF proc, step
    <2>5. ProcTypes' /\ OneAnswers'
      BY <2>1, <2>3, NobodyMoreAnswers DEF TypeInv
    <2>6. ShellTypes'
      BY <2>1, <2>4, RecordsStay DEF TypeInv
    <2> QED BY <1>3, <1>4, <2>5, <2>6 DEF TypeInv
  <1>8. CASE Save(s)
    <2>1. Go(s, [shell[s] EXCEPT !.at = "wait", !.pid = NoPid]) /\ procs' = procs
      BY <1>8 DEF Save
    <2>2. RecordOf(s, [shell[s] EXCEPT !.at = "wait", !.pid = NoPid])
      BY <1>2 DEF Starting, AnyPid
    <2> QED BY <1>3, <1>4, <2>1, <2>2, ShellStepTypes
  <1>9. CASE Wait(s) \/ GiveUp(s)
    <2>1. procs' = procs /\ (Started(s, "ok") \/ Started(s, "failed"))
      BY <1>9 DEF Wait, GiveUp
    <2> QED BY <1>5, <2>1
  <1> QED BY <1>6, <1>7, <1>8, <1>9

\* stop, the other steps of the user's shell, and anything cut short.
LEMMA UserTypes ==
    ASSUME ServersAssumption, TypeInv,
           \/ Kill \/ Unlink \/ Stopped
           \/ \E addr \in Addresses, job \in {"start", "stop", "restart"}, cwd \in Cwds :
                 Command(job, addr, cwd)
    PROVE  TypeInv'
  <1>1. CountTypes'
    <2>1. CASE Kill \/ Unlink \/ Stopped
      BY <2>1 DEF TypeInv, CountTypes, counts, AnyPid, Kill, Unlink, Stopped
    <2>2. CASE UNCHANGED <<pid_file, main, clone, mishaps>> /\ commands' = commands + 1
               /\ commands < MaxCommands
      BY <2>2 DEF TypeInv, CountTypes, ServersAssumption
    <2> QED BY <2>1, <2>2 DEF Command, Begin
  <1>2. FlagTypes'
    BY DEF TypeInv, FlagTypes, Kill, Unlink, Stopped, Command, Begin
  <1>3. "user" \in Shells
    BY DEF Shells
  <1>4. CASE Kill \/ Unlink \/ Stopped
    <2>1. shell["user"] \in Commands
      BY <1>3, <1>4 DEF TypeInv, ShellTypes, RecordOf, UserRecord, Ended, Kill, Unlink, Stopped, At
    <2>2. \A to \in Starting \cup {"unlink", "stopped"} :
             RecordOf("user", [shell["user"] EXCEPT !.at = to])
      BY <2>1 DEF RecordOf, UserRecord, Commands
    <2>3. \/ \E to \in Starting \cup {"unlink", "stopped"} : Go("user", [shell["user"] EXCEPT !.at = to])
          \/ Go("user", Idle("ok"))
      BY <1>4 DEF Kill, Unlink, Stopped, To, Starting
    <2>4. PICK step : RecordOf("user", step) /\ Go("user", step)
      BY <1>3, <2>2, <2>3, EndedIsARecord
    <2>5. CASE procs' = procs
      BY <1>1, <1>2, <1>3, <2>4, <2>5, ShellStepTypes
    <2>6. CASE Kill /\ pid_file # NoPid
      <3>1. pid_file \in Pids /\ procs' = [procs EXCEPT ![pid_file] = Free]
        BY <2>6 DEF TypeInv, CountTypes, AnyPid, Kill, Killed
      <3>2. ProcTypes' /\ OneAnswers'
        BY <3>1, NobodyMoreAnswers DEF TypeInv, ServerProcs, Free
      <3>3. ShellTypes'
        BY <1>3, <2>4, RecordsStay DEF TypeInv
      <3> QED BY <1>1, <1>2, <3>2, <3>3 DEF TypeInv
    <2> QED BY <1>4, <2>5, <2>6 DEF Kill, Unlink, Stopped
  <1>5. ASSUME NEW addr \in Addresses, NEW job \in {"start", "stop", "restart"}, NEW cwd \in Cwds,
               Command(job, addr, cwd)
        PROVE  TypeInv'
    <2> DEFINE step == [at |-> IF job = "start" THEN "ping" ELSE "stop", job |-> job,
                        addr |-> addr, cwd |-> cwd, pid |-> NoPid,
                        since |-> IF job = "restart" THEN clone ELSE 0]
    <2>1. clone \in 0 .. MaxCommits /\ 0 \in 0 .. MaxCommits
      BY DEF TypeInv, CountTypes, ServersAssumption
    <2>2. step \in Commands
      BY <2>1 DEF Commands, Starting, AnyPid
    <2>3. Go("user", step) /\ procs' = procs
      BY <1>5 DEF Command, Begin
    <2> HIDE DEF step
    <2>4. RecordOf("user", step)
      BY <2>2 DEF RecordOf, UserRecord
    <2> QED BY <1>1, <1>2, <1>3, <2>3, <2>4, ShellStepTypes
  <1> QED BY <1>4, <1>5

\* Whatever is cut short.
LEMMA CutShortTypes == ASSUME TypeInv, NEW s \in Shells, CutShort(s) PROVE TypeInv'
  <1>1. CountTypes' /\ procs' = procs /\ Go(s, Idle("failed"))
    BY DEF TypeInv, CountTypes, counts, CutShort
  <1>2. FlagTypes'
    BY DEF TypeInv, FlagTypes, CutShort
  <1> QED BY <1>1, <1>2, EndedIsARecord, ShellStepTypes

\* The steps of a deploy.
LEMMA DeployTypes ==
    ASSUME ServersAssumption, TypeInv,
           \/ \E restart \in BOOLEAN : Deploy(restart)
           \/ Merge \/ List \/ AllReplaced \/ Check \/ \E p \in Pids : Replace(p)
    PROVE  TypeInv'
  <1>1. "deploy" \in Shells /\ DeployRecord(shell["deploy"]) /\ ProcTypes
    BY DEF Shells, TypeInv, ShellTypes, RecordOf
  <1>2. ASSUME NEW step, DeployRecord(step), Go("deploy", step), procs' = procs,
               CountTypes', FlagTypes'
        PROVE  TypeInv'
    <2>1. RecordOf("deploy", step)
      BY <1>2 DEF RecordOf
    <2> QED BY <1>1, <1>2, <2>1, ShellStepTypes
  <1>3. \A result \in {"ok", "failed"} : DeployRecord(Idle(result))
    BY <1>1, EndedIsARecord DEF RecordOf
  <1>4. FlagTypes'
    BY DEF TypeInv, FlagTypes, Deploy, Begin, Merge, List, AllReplaced, Check, Replace, Fails
  <1>5. ASSUME NEW restart \in BOOLEAN, Deploy(restart) PROVE TypeInv'
    <2> DEFINE step == [at |-> "merge", restart |-> restart]
    <2>1. Go("deploy", step) /\ procs' = procs
      BY <1>5 DEF Deploy, Begin
    <2>2. DeployRecord(step)
      BY DEF DeployRecord, Merging, ListsItsOwn, Replacing
    <2>3. UNCHANGED <<pid_file, main, clone, mishaps>> /\ commands' = commands + 1
          /\ commands < MaxCommands
      BY <1>5 DEF Deploy, Begin
    <2>4. CountTypes'
      BY <2>3 DEF TypeInv, CountTypes, ServersAssumption
    <2> HIDE DEF step
    <2> QED BY <1>2, <1>4, <2>1, <2>2, <2>4
  <1>6. CASE Merge
    <2> DEFINE again == shell["deploy"].restart \/ needs_restart(clone, clone')
               step == [at |-> "list", restart |-> again]
    <2>1. Go("deploy", step) /\ procs' = procs
      BY <1>6 DEF Merge
    <2>2. shell["deploy"] \in Merging
      BY <1>1, <1>6 DEF DeployRecord, Ended, Listed, Restarting, Merge, At, Replacing
    <2>3. again \in BOOLEAN
      BY <2>2 DEF Merging, needs_restart
    <2>4. step \in Merging /\ step.at = "list"
      BY <2>3 DEF Merging
    <2>5. CountTypes'
      BY <1>6 DEF TypeInv, CountTypes, counts, Merge, ServersAssumption
    <2> HIDE DEF step
    <2>6. DeployRecord(step)
      BY <2>4 DEF DeployRecord, ListsItsOwn, Replacing
    <2> QED BY <1>2, <1>4, <2>1, <2>5, <2>6
  <1>7. CountTypes' \/ Merge \/ \E restart \in BOOLEAN : Deploy(restart)
    BY DEF TypeInv, CountTypes, counts, List, AllReplaced, Check, Replace
  <1>8. CASE List /\ CountTypes'
    <2> DEFINE running == {p \in servers : procs[p].cwd = "clone"}
               to == IF shell["deploy"].restart THEN "each" ELSE "check"
               addrs == [p \in running |-> procs[p].addr]
               step == [at |-> to, todo |-> running, running |-> addrs,
                        cwd |-> "clone", pid |-> NoPid]
    <2>1. procs' = procs /\ (Go("deploy", Idle("ok")) \/ Go("deploy", step))
      BY <1>8 DEF List
    <2>2. running \in SUBSET Pids /\ \A p \in running : procs[p].addr \in Addresses
      BY <1>1, ProcKinds DEF servers, ServerProcs
    <2> HIDE DEF running
    <2>3. addrs \in [running -> Addresses] /\ DOMAIN addrs = running
      BY <2>2
    <2>4. addrs \in AddressLists
      BY <2>2, <2>3 DEF AddressLists
    <2> HIDE DEF addrs
    <2>5. step \in Listed /\ step.todo = running /\ step.running = addrs
      BY <2>2, <2>4 DEF Listed, AnyPid
    <2> HIDE DEF step
    <2>6. DeployRecord(step)
      BY <2>3, <2>5 DEF DeployRecord, ListsItsOwn
    <2> QED BY <1>2, <1>3, <1>4, <1>8, <2>1, <2>6
  <1>9. ASSUME NEW p \in Pids, Replace(p), CountTypes' PROVE TypeInv'
    <2> DEFINE deploy == shell["deploy"]
               step == [at |-> "ping", addr |-> deploy.running[p], todo |-> deploy.todo \ {p},
                        running |-> deploy.running, cwd |-> "clone", pid |-> NoPid]
    <2>1. CASE Go("deploy", Idle("failed")) /\ procs' = procs
      BY <1>2, <1>3, <1>4, <1>9, <2>1
    <2>2. CASE Go("deploy", step) /\ procs' = [procs EXCEPT ![p] = Free]
      <3>1. deploy \in Listed \cup Restarting /\ deploy.todo \subseteq DOMAIN deploy.running
            /\ p \in deploy.todo
        BY <1>1, <1>9 DEF DeployRecord, Ended, Merging, ListsItsOwn, Replace, At, Replacing
      <3>2. deploy.running \in AddressLists /\ deploy.todo \in SUBSET Pids
        BY <3>1 DEF Listed, Restarting
      <3>3. deploy.running[p] \in Addresses
        <4>1. PICK pids \in SUBSET Pids : deploy.running \in [pids -> Addresses]
          BY <3>2 DEF AddressLists
        <4> QED BY <3>1, <4>1
      <3>4. step \in Restarting /\ step.todo = deploy.todo \ {p} /\ step.running = deploy.running
        BY <3>2, <3>3 DEF Restarting, Replacing, AnyPid
      <3> HIDE DEF step
      <3>5. RecordOf("deploy", step)
        BY <3>1, <3>4 DEF RecordOf, DeployRecord, ListsItsOwn
      <3>6. ShellTypes'
        BY <1>1, <2>2, <3>5, RecordsStay DEF TypeInv
      <3>7. ProcTypes' /\ OneAnswers'
        BY <2>2, NobodyMoreAnswers DEF TypeInv, ServerProcs, Free
      <3> QED BY <1>4, <1>9, <3>6, <3>7 DEF TypeInv
    <2> QED BY <1>9, <2>1, <2>2 DEF Replace, Fails, Killed
  <1>10. CASE AllReplaced /\ CountTypes'
    <2> DEFINE deploy == shell["deploy"]
               step == [deploy EXCEPT !.at = "check"]
    <2>1. Go("deploy", step) /\ procs' = procs
      BY <1>10 DEF AllReplaced, To
    <2>2. deploy \in Listed \cup Restarting
      BY <1>1, <1>10 DEF DeployRecord, Ended, Merging, AllReplaced, At
    <2>3. step \in Listed \cup Restarting /\ step.at = "check"
      BY <2>2 DEF Listed, Restarting
    <2> HIDE DEF step
    <2>4. DeployRecord(step)
      BY <2>3 DEF DeployRecord, ListsItsOwn, Replacing
    <2> QED BY <1>2, <1>4, <1>10, <2>1, <2>4
  <1>11. CASE Check /\ CountTypes'
    <2>1. procs' = procs /\ (Go("deploy", Idle("ok")) \/ Go("deploy", Idle("failed")))
      BY <1>11 DEF Check, Fails
    <2> QED BY <1>2, <1>3, <1>4, <1>11, <2>1
  <1> QED BY <1>5, <1>6, <1>7, <1>8, <1>9, <1>10, <1>11

\* Every step.
LEMMA NextTypes == ASSUME ServersAssumption, TypeInv, [Next]_vars PROVE TypeInv'
  <1>1. CASE UNCHANGED vars
    BY <1>1 DEF vars, TypeInv, ProcTypes, CountTypes, FlagTypes, ShellTypes, OneAnswers, Servers
  <1>2. CASE Commit
    <2>1. CountTypes'
      BY <1>2 DEF Commit, TypeInv, CountTypes, ServersAssumption
    <2> QED BY <1>2, <2>1 DEF Commit, TypeInv, ProcTypes, FlagTypes, ShellTypes, OneAnswers, Servers
  <1>3. CASE \E p \in Pids : Crash(p) \/ Comes(p) \/ Bind(p)
    BY <1>3, MachineTypes
  <1>4. CASE \E addr \in Addresses :
                \/ Command("stop", addr, "clone")
                \/ \E job \in {"start", "restart"}, cwd \in {"clone", "elsewhere"} :
                      Command(job, addr, cwd)
    BY <1>4, UserTypes DEF Cwds
  <1>5. CASE \E restart \in BOOLEAN : Deploy(restart)
    BY <1>5, DeployTypes
  <1>6. CASE Steps
    <2>1. CASE \E s \in Shells : \/ Ping(s) \/ Save(s) \/ Wait(s) \/ GiveUp(s)
                                 \/ \E p \in Pids : Spawn(s, p)
      BY <2>1, StartTypes
    <2>2. CASE \E s \in Shells : CutShort(s)
      BY <2>2, CutShortTypes
    <2>3. CASE Kill \/ Unlink \/ Stopped
      BY <2>3, UserTypes
    <2>4. CASE Merge \/ List \/ AllReplaced \/ Check \/ \E p \in Pids : Replace(p)
      BY <2>4, DeployTypes
    <2> QED BY <1>6, <2>1, <2>2, <2>3, <2>4 DEF Steps
  <1> QED BY <1>1, <1>2, <1>3, <1>4, <1>5, <1>6 DEF Next

\* At most one server answers on an address, and all the rest of the types.
THEOREM TypesHold == ASSUME ServersAssumption PROVE Spec => []TypeOK
  <1>1. Init => TypeInv
    BY InitTypes
  <1>2. TypeInv /\ [Next]_vars => TypeInv'
    BY NextTypes
  <1>3. TypeInv => TypeOK
    <2> SUFFICES ASSUME TypeInv PROVE TypeOK
      OBVIOUS
    <2>1. ASSUME NEW addr \in Addresses PROVE Cardinality(Answering(addr)) <= 1
      <3>1. \A p, q \in Answering(addr) : p = q
        BY DEF TypeInv, OneAnswers, Answering
      <3>2. CASE Answering(addr) = {}
        BY <3>2, FS_EmptySet
      <3>3. CASE Answering(addr) # {}
        <4>1. PICK p : Answering(addr) = {p}
          BY <3>1, <3>3
        <4>2. Cardinality({p}) = 1
          BY FS_Singleton, Zenon
        <4> QED BY <4>1, <4>2
      <3> QED BY <3>2, <3>3
    <2>2. {tidy, behind} \subseteq BOOLEAN
      BY DEF TypeInv, FlagTypes
    <2> QED BY <2>1, <2>2 DEF TypeInv, TypeOK, ProcTypes, CountTypes, ServerProcs, Cwds, AnyPid
  <1> QED BY <1>1, <1>2, <1>3, PTL DEF Spec

-----------------------------------------------------------------------------
(* A tidy user's commands keep their word *)

\* Nothing is on its way up: the one server there may be answers, and the pid
\* file names it.
Settled == \A p \in Servers : p = pid_file /\ procs[p].bound

\* What is so while a command is under way, and what while a deploy is.
CommandInv ==
    LET command == shell["user"] IN
    /\ command.since <= clone
    /\ command.at \in Starting => command.job # "stop"
    /\ command.at = "ping" => /\ Settled
                              /\ command.job = "restart" => Servers = {}
                              /\ \A p \in Servers : procs[p].addr = command.addr
    /\ command.at \in {"spawn", "unlink", "stopped"} => Servers = {}
    /\ command.at = "stop" => Settled
    /\ command.at = "save" => \A p \in Servers : p = command.pid /\ procs[p].code >= command.since
    /\ command.at = "wait" => \A p \in Servers : p = pid_file /\ procs[p].code >= command.since
DeployingInv ==
    LET deploy == shell["deploy"] IN
    /\ deploy.at \in {"merge", "list", "each", "check"} => Settled
    /\ deploy.at = "each" => deploy.todo \subseteq {pid_file}
    /\ deploy.at \in Starting => deploy.todo = {}
    /\ deploy.at \in {"ping", "spawn"} => Servers = {}
    /\ deploy.at = "save" => \A p \in Servers : p = deploy.pid
    /\ deploy.at = "wait" => \A p \in Servers : p = pid_file

TidyInv == tidy =>
    /\ shell["user"].at = "idle" \/ shell["deploy"].at = "idle"
    /\ shell["user"].at = "idle" /\ shell["deploy"].at = "idle" => Settled
    /\ shell["user"].at # "idle" => CommandInv
    /\ shell["deploy"].at # "idle" => DeployingInv

\* No more servers than before, and those on what they ran, where they were.
FewerServers ==
    \A p \in Servers' : /\ p \in Servers /\ procs'[p].addr = procs[p].addr
                        /\ procs'[p].code = procs[p].code
                        /\ procs[p].bound => procs'[p].bound

\* A step that touches neither the shells nor what they read of the files.
LEMMA FewerStayTidy ==
    ASSUME TidyInv, FewerServers, UNCHANGED <<shell, pid_file, clone, tidy>>
    PROVE  TidyInv'
  <1>1. Settled => Settled'
    BY DEF Settled, FewerServers
  <1>2. Servers' \subseteq Servers
    BY DEF FewerServers
  <1>3. CommandInv => CommandInv'
    BY <1>1, <1>2 DEF CommandInv, FewerServers
  <1>4. DeployingInv => DeployingInv'
    BY <1>1, <1>2 DEF DeployingInv, FewerServers
  <1> QED BY <1>1, <1>3, <1>4 DEF TidyInv

\* The machine.
LEMMA MachineTidy ==
    ASSUME TypeInv, TidyInv, Commit \/ \E p \in Pids : Crash(p) \/ Comes(p) \/ Bind(p)
    PROVE  TidyInv'
  <1>1. UNCHANGED <<shell, pid_file, clone, tidy>>
    BY DEF Commit, Crash, Comes, Mishap, Bind
  <1>2. CASE Commit
    BY <1>1, <1>2, FewerStayTidy DEF Commit, FewerServers, Servers
  <1>3. ASSUME NEW p \in Pids, Crash(p) \/ Comes(p) \/ Bind(p) PROVE FewerServers
    <2>1. PICK proc : procs' = [procs EXCEPT ![p] = proc] /\ proc \in {Free, Other, [procs[p] EXCEPT !.bound = TRUE]}
      BY <1>3 DEF Crash, Comes, Mishap, Bind
    <2>2. procs' = [q \in Pids |-> IF q = p THEN proc ELSE procs[q]]
      BY <2>1 DEF TypeInv, ProcTypes
    <2>3. CASE proc \in {Free, Other}
      BY <2>2, <2>3 DEF FewerServers, Servers, Free, Other
    <2>4. CASE proc \notin {Free, Other}
      <3>1. p \in Servers /\ procs[p] \in ServerProcs
        BY <1>3, <2>1, <2>2, <2>4, ProcKinds DEF TypeInv, Crash, Comes, Mishap, Bind
      <3>2. /\ proc.addr = procs[p].addr /\ proc.code = procs[p].code /\ proc.bound = TRUE
        BY <2>1, <2>4, <3>1 DEF ServerProcs
      <3> QED BY <2>2, <3>1, <3>2 DEF FewerServers, Servers
    <2> QED BY <2>3, <2>4
  <1> QED BY <1>1, <1>2, <1>3, FewerStayTidy

\* What a record keeps that moves on.
LEMMA CommandGoesOn ==
    ASSUME TypeInv, shell["user"].at # "idle", NEW to, NEW pid,
           NEW step \in MovedTo(shell["user"], to, pid), Go("user", step)
    PROVE  /\ shell'["deploy"] = shell["deploy"] /\ shell'["user"] = step
           /\ step.at = to /\ step.job = shell["user"].job /\ step.addr = shell["user"].addr
           /\ step.since = shell["user"].since
  <1>1. shell["user"] \in Commands /\ shell = [s \in Shells |-> shell[s]]
    BY DEF TypeInv, ShellTypes, RecordOf, UserRecord, Ended, Shells
  <1>2. shell'["deploy"] = shell["deploy"] /\ shell'["user"] = step
    BY <1>1 DEF Go, Shells
  <1>3. step.at = to /\ step.job = shell["user"].job /\ step.addr = shell["user"].addr
        /\ step.since = shell["user"].since
    BY <1>1 DEF MovedTo, Commands
  <1> QED BY <1>2, <1>3

\* The same of a deploy that replaces servers.
LEMMA DeployGoesOn ==
    ASSUME TypeInv, shell["deploy"].at \in Replacing, NEW to, NEW pid,
           NEW step \in MovedTo(shell["deploy"], to, pid), Go("deploy", step)
    PROVE  /\ shell'["user"] = shell["user"] /\ shell'["deploy"] = step
           /\ step.at = to /\ step.todo = shell["deploy"].todo
  <1>1. shell["deploy"] \in Listed \cup Restarting /\ shell = [s \in Shells |-> shell[s]]
    BY DEF TypeInv, ShellTypes, RecordOf, DeployRecord, Ended, Merging, Replacing, Shells
  <1>2. shell'["user"] = shell["user"] /\ shell'["deploy"] = step
    BY <1>1 DEF Go, Shells
  <1>3. step.at = to /\ step.todo = shell["deploy"].todo
    BY <1>1 DEF MovedTo, Listed, Restarting
  <1> QED BY <1>2, <1>3

\* While a tidy command is under way no deploy is, and the other way round.
LEMMA CommandStaysTidy ==
    ASSUME TidyInv, tidy' = tidy, shell["user"].at # "idle", shell'["deploy"] = shell["deploy"],
           tidy => IF shell'["user"].at = "idle" THEN Settled' ELSE CommandInv'
    PROVE  TidyInv'
    BY DEF TidyInv
LEMMA DeployStaysTidy ==
    ASSUME TidyInv, tidy' = tidy, shell["deploy"].at # "idle", shell'["user"] = shell["user"],
           tidy => IF shell'["deploy"].at = "idle" THEN Settled' ELSE DeployingInv'
    PROVE  TidyInv'
    BY DEF TidyInv

\* Where the user's shell or the deploy ends.
LEMMA GoesIdle ==
    ASSUME TypeInv, NEW s \in Shells, NEW result, Go(s, Idle(result))
    PROVE  /\ shell'[s].at = "idle" /\ shell'[s].result = result
           /\ \A t \in Shells \ {s} : shell'[t] = shell[t]
    BY DEF TypeInv, ShellTypes, Go, Idle, Shells

\* If the one server there may be is up, whoever answers is that server.
LEMMA AnsweredIsSettled ==
    ASSUME NEW addr, is_running(addr), \A p \in Servers : p = pid_file
    PROVE  Settled
    BY DEF is_running, Answering, Settled

\* The steps of start, of the user's.
LEMMA UserStartTidy ==
    ASSUME ServersAssumption, TypeInv, TidyInv,
           \/ Ping("user") \/ Save("user") \/ Wait("user")
           \/ \E p \in Pids : Spawn("user", p)
    PROVE  TidyInv'
  <1> DEFINE command == shell["user"]
  <1>1. /\ command.at \in Starting /\ command.at # "idle" /\ tidy' = tidy /\ "user" \in Shells
        /\ clone' = clone
    BY DEF Ping, Save, Wait, Spawn, At, Starting, Shells
  <1>2. SUFFICES ASSUME tidy
                 PROVE  /\ shell'["deploy"] = shell["deploy"]
                        /\ IF shell'["user"].at = "idle" THEN Settled' ELSE CommandInv'
    <2>1. shell'["deploy"] = shell["deploy"]
      BY DEF TypeInv, ShellTypes, Ping, Save, Wait, Spawn, To, Started, Go, Shells
    <2> QED BY <1>1, <2>1, CommandStaysTidy
  <1>3. CommandInv /\ command.job # "stop"
    BY <1>1, <1>2 DEF TidyInv, CommandInv
  <1>4. CASE Ping("user")
    <2>1. UNCHANGED <<procs, pid_file>> /\ Settled /\ command.at = "ping"
      BY <1>3, <1>4 DEF CommandInv, Ping, At
    <2>2. CASE is_running(command.addr)
      <3>1. Go("user", Idle("ok"))
        BY <1>4, <2>2 DEF Ping, Started
      <3>2. Settled'
        BY <2>1 DEF Settled, Servers
      <3> QED BY <1>1, <3>1, <3>2, GoesIdle DEF Shells
    <2>3. CASE ~is_running(command.addr)
      <3> DEFINE step == [command EXCEPT !.at = "spawn"]
      <3>1. Go("user", step) /\ step \in MovedTo(command, "spawn", NoPid)
        BY <1>4, <2>3 DEF Ping, To, MovedTo
      <3> HIDE DEF step
      <3>2. /\ shell'["deploy"] = shell["deploy"] /\ shell'["user"] = step
            /\ step.at = "spawn" /\ step.job = command.job /\ step.since = command.since
        BY <1>1, <3>1, CommandGoesOn
      <3>3. Servers = {}
        BY <1>3, <2>1, <2>3 DEF CommandInv, Settled, is_running, Answering
      <3>4. Servers' = {}
        BY <2>1, <3>3 DEF Servers
      <3> QED BY <1>1, <1>3, <3>2, <3>4 DEF CommandInv, Starting
    <2> QED BY <2>2, <2>3
  <1>5. ASSUME NEW p \in Pids, Spawn("user", p)
        PROVE  shell'["deploy"] = shell["deploy"] /\ shell'["user"].at # "idle" /\ CommandInv'
    <2> DEFINE proc == [is |-> "server", addr |-> command.addr, code |-> clone,
                        cwd |-> command.cwd, bound |-> FALSE]
               step == [command EXCEPT !.at = "save", !.pid = p]
    <2>1. /\ Go("user", step) /\ step \in MovedTo(command, "save", p) /\ command.at = "spawn"
          /\ procs' = [procs EXCEPT ![p] = proc]
      BY <1>5 DEF Spawn, MovedTo, At
    <2>2. command \in Commands
      BY <1>1 DEF TypeInv, ShellTypes, RecordOf, UserRecord, Ended
    <2>3. step.pid = p
      BY <2>2 DEF Commands
    <2>4. proc.code = clone
      OBVIOUS
    <2> HIDE DEF step, proc
    <2>5. /\ shell'["deploy"] = shell["deploy"] /\ shell'["user"] = step
          /\ step.at = "save" /\ step.job = command.job /\ step.since = command.since
      BY <1>1, <2>1, CommandGoesOn
    <2>6. \A q \in Servers' : q = p /\ procs'[q].code = clone
      BY <1>3, <2>1, <2>4 DEF CommandInv, Servers, TypeInv, ProcTypes
    <2> QED BY <1>1, <1>3, <2>3, <2>5, <2>6 DEF CommandInv, Starting
  <1>6. CASE Save("user")
    <2> DEFINE step == [command EXCEPT !.at = "wait", !.pid = NoPid]
    <2>1. /\ Go("user", step) /\ step \in MovedTo(command, "wait", NoPid) /\ command.at = "save"
          /\ procs' = procs /\ pid_file' = command.pid
      BY <1>6 DEF Save, Saved, MovedTo, At
    <2> HIDE DEF step
    <2>2. /\ shell'["deploy"] = shell["deploy"] /\ shell'["user"] = step
          /\ step.at = "wait" /\ step.job = command.job /\ step.since = command.since
      BY <1>1, <2>1, CommandGoesOn
    <2>3. \A q \in Servers' : q = pid_file' /\ procs'[q].code >= command.since
      BY <1>3, <2>1 DEF CommandInv, Servers
    <2> QED BY <1>1, <1>3, <2>2, <2>3 DEF CommandInv, Starting
  <1>7. CASE Wait("user")
    <2>1. /\ Go("user", Idle("ok")) /\ UNCHANGED <<procs, pid_file>> /\ is_running(command.addr)
          /\ command.at = "wait"
      BY <1>7 DEF Wait, Started, At
    <2>2. Settled
      BY <1>3, <2>1, AnsweredIsSettled DEF CommandInv
    <2>3. Settled'
      BY <2>1, <2>2 DEF Settled, Servers
    <2> QED BY <1>1, <2>1, <2>3, GoesIdle DEF Shells
  <1> QED BY <1>4, <1>5, <1>6, <1>7

\* The same of a deploy's.
LEMMA DeployStartTidy ==
    ASSUME ServersAssumption, TypeInv, TidyInv,
           \/ Ping("deploy") \/ Save("deploy") \/ Wait("deploy")
           \/ \E p \in Pids : Spawn("deploy", p)
    PROVE  TidyInv'
  <1> DEFINE deploy == shell["deploy"]
  <1>1. /\ deploy.at \in Starting /\ deploy.at \in Replacing /\ deploy.at # "idle"
        /\ tidy' = tidy /\ "deploy" \in Shells
    BY DEF Ping, Save, Wait, Spawn, At, Starting, Replacing, Shells
  <1>2. SUFFICES ASSUME tidy
                 PROVE  /\ shell'["user"] = shell["user"]
                        /\ IF shell'["deploy"].at = "idle" THEN Settled' ELSE DeployingInv'
    <2>1. shell'["user"] = shell["user"]
      BY DEF TypeInv, ShellTypes, Ping, Save, Wait, Spawn, To, Started, Go, Shells
    <2> QED BY <1>1, <2>1, DeployStaysTidy
  <1>3. DeployingInv /\ deploy.todo = {}
    BY <1>1, <1>2 DEF TidyInv, DeployingInv
  <1>4. CASE Ping("deploy")
    <2> DEFINE step == [deploy EXCEPT !.at = "spawn"]
    <2>1. procs' = procs /\ Servers = {}
      BY <1>3, <1>4 DEF DeployingInv, Ping, At
    <2>2. Go("deploy", step) /\ step \in MovedTo(deploy, "spawn", NoPid)
      BY <1>4, <2>1 DEF Ping, is_running, Answering, To, MovedTo
    <2> HIDE DEF step
    <2>3. /\ shell'["user"] = shell["user"] /\ shell'["deploy"] = step
          /\ step.at = "spawn" /\ step.todo = {}
      BY <1>1, <1>3, <2>2, DeployGoesOn
    <2>4. Servers' = {}
      BY <2>1 DEF Servers
    <2> QED BY <2>3, <2>4 DEF DeployingInv, Starting
  <1>5. ASSUME NEW p \in Pids, Spawn("deploy", p)
        PROVE  shell'["user"] = shell["user"] /\ shell'["deploy"].at # "idle" /\ DeployingInv'
    <2> DEFINE proc == [is |-> "server", addr |-> deploy.addr, code |-> clone,
                        cwd |-> deploy.cwd, bound |-> FALSE]
               step == [deploy EXCEPT !.at = "save", !.pid = p]
    <2>1. /\ Go("deploy", step) /\ step \in MovedTo(deploy, "save", p) /\ deploy.at = "spawn"
          /\ procs' = [procs EXCEPT ![p] = proc]
      BY <1>5 DEF Spawn, MovedTo, At
    <2>2. deploy \in Restarting
      BY <1>1 DEF TypeInv, ShellTypes, RecordOf, DeployRecord, Ended, Merging, Listed, Starting
    <2>3. step.pid = p
      BY <2>2 DEF Restarting
    <2> HIDE DEF step, proc
    <2>4. /\ shell'["user"] = shell["user"] /\ shell'["deploy"] = step
          /\ step.at = "save" /\ step.todo = {}
      BY <1>1, <1>3, <2>1, DeployGoesOn
    <2>5. \A q \in Servers' : q = p
      BY <1>3, <2>1 DEF DeployingInv, Servers, TypeInv, ProcTypes
    <2> QED BY <2>3, <2>4, <2>5 DEF DeployingInv, Starting
  <1>6. CASE Save("deploy")
    <2> DEFINE step == [deploy EXCEPT !.at = "wait", !.pid = NoPid]
    <2>1. /\ Go("deploy", step) /\ step \in MovedTo(deploy, "wait", NoPid) /\ deploy.at = "save"
          /\ procs' = procs /\ pid_file' = deploy.pid
      BY <1>6 DEF Save, Saved, MovedTo, At
    <2> HIDE DEF step
    <2>2. /\ shell'["user"] = shell["user"] /\ shell'["deploy"] = step
          /\ step.at = "wait" /\ step.todo = {}
      BY <1>1, <1>3, <2>1, DeployGoesOn
    <2>3. \A q \in Servers' : q = pid_file'
      BY <1>3, <2>1 DEF DeployingInv, Servers
    <2> QED BY <2>2, <2>3 DEF DeployingInv, Starting
  <1>7. CASE Wait("deploy")
    <2> DEFINE step == [deploy EXCEPT !.at = "each"]
    <2>1. /\ Go("deploy", step) /\ step \in MovedTo(deploy, "each", NoPid)
          /\ UNCHANGED <<procs, pid_file>> /\ is_running(deploy.addr) /\ deploy.at = "wait"
      BY <1>7 DEF Wait, Started, MovedTo, At
    <2> HIDE DEF step
    <2>2. /\ shell'["user"] = shell["user"] /\ shell'["deploy"] = step
          /\ step.at = "each" /\ step.todo = {}
      BY <1>1, <1>3, <2>1, DeployGoesOn
    <2>3. Settled
      BY <1>3, <2>1, AnsweredIsSettled DEF DeployingInv
    <2>4. Settled'
      BY <2>1, <2>3 DEF Settled, Servers
    <2> QED BY <2>2, <2>4 DEF DeployingInv, Starting
  <1> QED BY <1>4, <1>5, <1>6, <1>7

\* A process id that is freed.
LEMMA KilledIsGone ==
    ASSUME TypeInv, NEW p \in Pids, procs' = Killed(p), \A q \in Servers : q = p
    PROVE  Servers' = {}
  <1>1. procs' = [q \in Pids |-> IF q = p THEN Free ELSE procs[q]]
    BY DEF Killed, TypeInv, ProcTypes
  <1> QED BY <1>1 DEF Servers, Free

\* stop: the server that the pid file names is the only one.
LEMMA StopTidy ==
    ASSUME ServersAssumption, TypeInv, TidyInv, Kill \/ Unlink \/ Stopped
    PROVE  TidyInv'
  <1> DEFINE command == shell["user"]
  <1>1. /\ command.at \in {"stop", "unlink", "stopped"} /\ command.at # "idle" /\ tidy' = tidy
        /\ "user" \in Shells /\ clone' = clone
    BY DEF Kill, Unlink, Stopped, At, Shells
  <1>2. SUFFICES ASSUME tidy
                 PROVE  /\ shell'["deploy"] = shell["deploy"]
                        /\ IF shell'["user"].at = "idle" THEN Settled' ELSE CommandInv'
    <2>1. shell'["deploy"] = shell["deploy"]
      BY DEF TypeInv, ShellTypes, Kill, Unlink, Stopped, To, Go, Shells
    <2> QED BY <1>1, <2>1, CommandStaysTidy
  <1>3. CommandInv
    BY <1>1, <1>2 DEF TidyInv
  <1>4. Servers' = {}
    <2>1. CASE Kill
      <3>1. Settled
        BY <1>3, <2>1 DEF CommandInv, Kill, At
      <3>2. CASE pid_file = NoPid
        BY <2>1, <3>1, <3>2 DEF Kill, Settled, Servers, NoPid, ServersAssumption
      <3>3. CASE pid_file # NoPid
        <4>1. pid_file \in Pids /\ procs' = Killed(pid_file)
          BY <2>1, <3>3 DEF Kill, TypeInv, CountTypes, AnyPid
        <4> QED BY <3>1, <4>1, KilledIsGone DEF Settled
      <3> QED BY <3>2, <3>3
    <2>2. CASE Unlink \/ Stopped
      BY <1>3, <2>2 DEF CommandInv, Unlink, Stopped, At, Servers
    <2> QED BY <2>1, <2>2
  <1>5. Settled'
    BY <1>4 DEF Settled
  <1>6. CASE Go("user", Idle("ok"))
    BY <1>1, <1>5, <1>6, GoesIdle DEF Shells
  <1>7. ASSUME NEW to \in {"unlink", "stopped", "ping"}, To("user", to),
               to = "ping" => command.job = "restart"
        PROVE  shell'["deploy"] = shell["deploy"] /\ shell'["user"].at # "idle" /\ CommandInv'
    <2> DEFINE step == [command EXCEPT !.at = to]
    <2>1. Go("user", step) /\ step \in MovedTo(command, to, NoPid)
      BY <1>7 DEF To, MovedTo
    <2> HIDE DEF step
    <2>2. /\ shell'["deploy"] = shell["deploy"] /\ shell'["user"] = step
          /\ step.at = to /\ step.job = command.job /\ step.since = command.since
      BY <1>1, <2>1, CommandGoesOn
    <2> QED BY <1>1, <1>3, <1>4, <1>5, <1>7, <2>2 DEF CommandInv, Starting
  <1>8. \/ Go("user", Idle("ok"))
        \/ \E to \in {"unlink", "stopped", "ping"} :
              To("user", to) /\ (to = "ping" => command.job = "restart")
    BY DEF Kill, Unlink, Stopped
  <1> QED BY <1>6, <1>7, <1>8

\* A command or a deploy that begins is tidy if nothing else is under way.
LEMMA BeginTidy ==
    ASSUME TypeInv, TidyInv,
           \/ \E addr \in Addresses, job \in {"start", "stop", "restart"}, cwd \in Cwds :
                 Command(job, addr, cwd)
           \/ \E restart \in BOOLEAN : Deploy(restart)
    PROVE  TidyInv'
  <1>1. SUFFICES ASSUME tidy' PROVE TidyInv'
    BY DEF TidyInv
  <1>2. shell["user"].at = "idle" /\ shell["deploy"].at = "idle" /\ tidy /\ Settled
    BY <1>1 DEF Command, Deploy, Begin, TidyInv, Shells
  <1>3. UNCHANGED <<procs, pid_file, clone>> /\ Settled' /\ clone \in Nat /\ 0 <= clone
    <2>1. UNCHANGED <<procs, pid_file, clone>>
      BY DEF Command, Deploy, Begin
    <2>2. Settled'
      BY <1>2, <2>1 DEF Settled, Servers
    <2>3. clone \in Nat /\ 0 <= clone
      BY DEF TypeInv, CountTypes
    <2> QED BY <2>1, <2>2, <2>3
  <1>4. ASSUME NEW addr \in Addresses, NEW job \in {"start", "stop", "restart"}, NEW cwd \in Cwds,
               Command(job, addr, cwd)
        PROVE  TidyInv'
    <2> DEFINE step == [at |-> IF job = "start" THEN "ping" ELSE "stop", job |-> job,
                        addr |-> addr, cwd |-> cwd, pid |-> NoPid,
                        since |-> IF job = "restart" THEN clone ELSE 0]
    <2>1. /\ Go("user", step) /\ step.addr = addr /\ step.job = job /\ step.since <= clone
          /\ step.at = IF job = "start" THEN "ping" ELSE "stop"
      BY <1>3, <1>4 DEF Command, Begin
    <2> HIDE DEF step
    <2>2. \A p \in Servers : procs[p].addr = addr
      <3>1. Begin("user", step)
        BY <1>4 DEF Command, step
      <3>2. \A p \in Servers : procs[p].addr = step.addr
        BY <1>1, <3>1 DEF Begin, Shells
      <3> QED BY <2>1, <3>2
    <2>3. shell'["user"] = step /\ shell'["deploy"] = shell["deploy"]
      BY <2>1 DEF Go, TypeInv, ShellTypes, Shells
    <2>4. CommandInv'
      BY <1>3, <2>1, <2>2, <2>3 DEF CommandInv, Starting, Servers
    <2> QED BY <1>2, <2>1, <2>3, <2>4 DEF TidyInv
  <1>5. ASSUME NEW restart \in BOOLEAN, Deploy(restart) PROVE TidyInv'
    <2> DEFINE step == [at |-> "merge", restart |-> restart]
    <2>1. Go("deploy", step) /\ step.at = "merge"
      BY <1>5 DEF Deploy, Begin
    <2> HIDE DEF step
    <2>2. shell'["deploy"] = step /\ shell'["user"] = shell["user"]
      BY <2>1 DEF Go, TypeInv, ShellTypes, Shells
    <2>3. DeployingInv'
      BY <1>3, <2>1, <2>2 DEF DeployingInv, Starting
    <2> QED BY <1>2, <2>1, <2>2, <2>3 DEF TidyInv
  <1> QED BY <1>4, <1>5

\* The other steps of a deploy.
LEMMA DeployTidy ==
    ASSUME ServersAssumption, TypeInv, TidyInv,
           Merge \/ List \/ AllReplaced \/ Check \/ \E p \in Pids : Replace(p)
    PROVE  TidyInv'
  <1> DEFINE deploy == shell["deploy"]
  <1>1. /\ deploy.at \in {"merge", "list", "each", "check"} /\ deploy.at # "idle"
        /\ tidy' = tidy /\ pid_file' = pid_file /\ "deploy" \in Shells
    BY DEF Merge, List, AllReplaced, Check, Replace, At, Shells
  <1>2. SUFFICES ASSUME tidy
                 PROVE  /\ shell'["user"] = shell["user"]
                        /\ IF shell'["deploy"].at = "idle" THEN Settled' ELSE DeployingInv'
    <2>1. shell'["user"] = shell["user"]
      BY DEF TypeInv, ShellTypes, Merge, List, AllReplaced, Check, Replace, Fails, To, Go, Shells
    <2> QED BY <1>1, <2>1, DeployStaysTidy
  <1>3. DeployingInv /\ Settled
    BY <1>1, <1>2 DEF TidyInv, DeployingInv
  <1>4. procs' = procs => Settled'
    BY <1>1, <1>3 DEF Settled, Servers
  <1>5. ASSUME NEW step, Go("deploy", step)
        PROVE  shell'["user"] = shell["user"] /\ shell'["deploy"] = step
    BY <1>5 DEF Go, TypeInv, ShellTypes, Shells
  <1>6. ASSUME NEW result, Go("deploy", Idle(result)), procs' = procs
        PROVE  shell'["user"] = shell["user"] /\ shell'["deploy"].at = "idle" /\ Settled'
    BY <1>4, <1>5, <1>6 DEF Idle
  <1>7. CASE Merge
    <2>1. PICK step : Go("deploy", step) /\ step.at = "list" /\ procs' = procs
      BY <1>7 DEF Merge
    <2> QED BY <1>4, <1>5, <2>1 DEF DeployingInv, Starting
  <1>8. CASE List
    <2> DEFINE running == {p \in servers : procs[p].cwd = "clone"}
               to == IF deploy.restart THEN "each" ELSE "check"
               step == [at |-> to, todo |-> running, running |-> [p \in running |-> procs[p].addr],
                        cwd |-> "clone", pid |-> NoPid]
    <2>1. procs' = procs /\ (Go("deploy", Idle("ok")) \/ Go("deploy", step))
      BY <1>8 DEF List
    <2>2. step.at \in {"each", "check"} /\ step.todo = running
      OBVIOUS
    <2>3. running \subseteq {pid_file}
      BY <1>3 DEF Settled, servers
    <2> HIDE DEF step, running
    <2>4. CASE Go("deploy", step)
      BY <1>1, <1>4, <1>5, <2>1, <2>2, <2>3, <2>4 DEF DeployingInv, Starting
    <2> QED BY <1>6, <2>1, <2>4
  <1>9. ASSUME NEW p \in Pids, Replace(p)
        PROVE  /\ shell'["user"] = shell["user"]
               /\ IF shell'["deploy"].at = "idle" THEN Settled' ELSE DeployingInv'
    <2> DEFINE step == [at |-> "ping", addr |-> deploy.running[p], todo |-> deploy.todo \ {p},
                        running |-> deploy.running, cwd |-> "clone", pid |-> NoPid]
    <2>1. \/ Go("deploy", Idle("failed")) /\ procs' = procs
          \/ Go("deploy", step) /\ procs' = Killed(p)
      BY <1>9 DEF Replace, Fails
    <2>2. step.at = "ping" /\ step.todo = deploy.todo \ {p}
      OBVIOUS
    <2>3. p = pid_file /\ deploy.todo \subseteq {pid_file}
      BY <1>3, <1>9 DEF Replace, At, DeployingInv
    <2> HIDE DEF step
    <2>4. CASE Go("deploy", step) /\ procs' = Killed(p)
      <3>1. Servers' = {}
        BY <1>3, <2>3, <2>4, KilledIsGone DEF Settled
      <3> QED BY <1>5, <2>2, <2>3, <2>4, <3>1 DEF DeployingInv, Starting
    <2> QED BY <1>6, <2>1, <2>4
  <1>10. CASE AllReplaced
    <2> DEFINE step == [deploy EXCEPT !.at = "check"]
    <2>1. /\ Go("deploy", step) /\ step \in MovedTo(deploy, "check", NoPid)
          /\ procs' = procs /\ deploy.at \in Replacing
      BY <1>10 DEF AllReplaced, To, MovedTo, At, Replacing
    <2> HIDE DEF step
    <2>2. step.at = "check"
      BY <2>1, DeployGoesOn
    <2> QED BY <1>4, <1>5, <2>1, <2>2 DEF DeployingInv, Starting
  <1>11. CASE Check
    BY <1>6, <1>11 DEF Check, Fails
  <1> QED BY <1>7, <1>8, <1>9, <1>10, <1>11

LEMMA InitTidy == Init => TidyInv
    BY DEF Init, TidyInv, Settled, Servers, Free, Idle, Shells

\* Every step.
LEMMA NextTidy == ASSUME ServersAssumption, TypeInv, TidyInv, [Next]_vars PROVE TidyInv'
  <1>1. CASE UNCHANGED vars
    BY <1>1, FewerStayTidy DEF vars, FewerServers, Servers
  <1>2. CASE Commit \/ \E p \in Pids : Crash(p) \/ Comes(p) \/ Bind(p)
    BY <1>2, MachineTidy
  <1>3. CASE \/ \E addr \in Addresses :
                   \/ Command("stop", addr, "clone")
                   \/ \E job \in {"start", "restart"}, cwd \in {"clone", "elsewhere"} :
                         Command(job, addr, cwd)
             \/ \E restart \in BOOLEAN : Deploy(restart)
    BY <1>3, BeginTidy DEF Cwds
  <1>4. CASE Steps
    <2>1. CASE \E s \in Shells : Ping(s) \/ Save(s) \/ Wait(s) \/ \E p \in Pids : Spawn(s, p)
      BY <2>1, UserStartTidy, DeployStartTidy DEF Shells
    <2>2. CASE \E s \in Shells : GiveUp(s) \/ CutShort(s)
      BY <2>2 DEF GiveUp, CutShort, TidyInv
    <2>3. CASE Kill \/ Unlink \/ Stopped
      BY <2>3, StopTidy
    <2>4. CASE Merge \/ List \/ AllReplaced \/ Check \/ \E p \in Pids : Replace(p)
      BY <2>4, DeployTidy
    <2> QED BY <1>4, <2>1, <2>2, <2>3, <2>4 DEF Steps
  <1> QED BY <1>1, <1>2, <1>3, <1>4 DEF Next

\* What a tidy command may count on, in every state.
THEOREM TidyHolds == ASSUME ServersAssumption PROVE Spec => [](TypeInv /\ TidyInv)
  <1>1. Init => TypeInv /\ TidyInv
    BY InitTypes, InitTidy
  <1>2. TypeInv /\ TidyInv /\ [Next]_vars => TypeInv' /\ TidyInv'
    BY NextTypes, NextTidy
  <1> QED BY <1>1, <1>2, PTL DEF Spec

\* A stop that has not yet killed what it is to stop does not end well.
LEMMA StopsNoneEarly ==
    ASSUME TypeInv, Next, shell["user"].at = "stop", Done("user", shell'["user"])
    PROVE  FALSE
  <1>1. shell'["user"].at = "idle" /\ shell'["user"].result = "ok" /\ shell["user"].at # "idle"
    BY DEF Done
  <1>2. "user" \in Shells /\ "deploy" \in Shells /\ shell = [s \in Shells |-> shell[s]]
    BY DEF Shells, TypeInv, ShellTypes
  <1>3. shell'["user"] # shell["user"] /\ ~ \E step : Go("deploy", step)
    BY <1>1, <1>2 DEF Go
  <1>4. ~ \E p \in Pids : Crash(p) \/ Comes(p) \/ Bind(p)
    BY <1>3 DEF Crash, Comes, Mishap, Bind
  <1>5. ~ \E addr, job, cwd : Command(job, addr, cwd)
    BY <1>1 DEF Command, Begin
  <1>6. ~ \E restart : Deploy(restart)
    BY <1>3 DEF Deploy, Begin
  <1>7. Steps
    BY <1>3, <1>4, <1>5, <1>6 DEF Next, Commit
  <1>8. ~ (Merge \/ List \/ AllReplaced \/ Check \/ \E p \in Pids : Replace(p))
    BY <1>3 DEF Merge, List, AllReplaced, Check, Replace, Fails, To
  <1>9. ~ \E s \in Shells : Ping(s) \/ Save(s) \/ Wait(s) \/ GiveUp(s) \/ \E p \in Pids : Spawn(s, p)
    <2> SUFFICES ASSUME NEW s \in Shells,
                        Ping(s) \/ Save(s) \/ Wait(s) \/ GiveUp(s) \/ \E p \in Pids : Spawn(s, p)
                 PROVE  FALSE
      OBVIOUS
    <2>1. s = "deploy"
      BY DEF Ping, Save, Wait, GiveUp, Spawn, At, Shells
    <2>2. \E step : Go(s, step)
      BY DEF Ping, Save, Wait, GiveUp, Spawn, Started, To
    <2> QED BY <1>3, <2>1, <2>2
  <1>10. ~ \E s \in Shells : CutShort(s)
    <2> SUFFICES ASSUME NEW s \in Shells, CutShort(s) PROVE FALSE
      OBVIOUS
    <2>1. Go(s, Idle("failed"))
      BY DEF CutShort
    <2>2. s = "user"
      BY <1>3, <2>1 DEF Shells
    <2> QED BY <1>1, <2>1, <2>2, GoesIdle
  <1>11. ~Kill
    <2> SUFFICES ASSUME Kill PROVE FALSE
      OBVIOUS
    <2>1. PICK to \in {"unlink", "stopped"} : To("user", to)
      BY DEF Kill
    <2> DEFINE step == [shell["user"] EXCEPT !.at = to]
    <2>2. Go("user", step) /\ step \in MovedTo(shell["user"], to, NoPid)
      BY <2>1 DEF To, MovedTo
    <2> HIDE DEF step
    <2>3. shell'["user"] = step /\ step.at = to
      BY <1>1, <2>2, CommandGoesOn
    <2> QED BY <1>1, <2>3
  <1> QED BY <1>7, <1>8, <1>9, <1>10, <1>11 DEF Steps, Unlink, Stopped, At

\* Where a tidy command may end well, its word holds.
LEMMA WordAtTheEnd ==
    ASSUME TypeInv, TidyInv, Next, Done("user", shell'["user"]), tidy
    PROVE  /\ shell["user"].job = "restart" =>
                 \A p \in Answering(shell["user"].addr) : procs[p].code >= shell["user"].since
           /\ shell["user"].job = "stop" => Answering(shell["user"].addr) = {}
  <1>1. shell["user"].at # "idle" /\ CommandInv
    BY DEF Done, TidyInv
  <1>2. shell["user"].at \in Starting \cup {"unlink", "stopped"}
    BY <1>1, StopsNoneEarly DEF TypeInv, ShellTypes, RecordOf, UserRecord, Ended, Commands, Shells
  <1>3. Servers = {} => Answering(shell["user"].addr) = {}
    BY DEF Answering
  <1>4. CASE shell["user"].at \in {"spawn", "unlink", "stopped"}
    BY <1>1, <1>3, <1>4 DEF CommandInv
  <1>5. CASE shell["user"].at = "ping"
    BY <1>1, <1>3, <1>5 DEF CommandInv, Starting
  <1>6. CASE shell["user"].at \in {"save", "wait"}
    <2>1. shell["user"].job # "stop" /\ \A p \in Servers : procs[p].code >= shell["user"].since
      BY <1>1, <1>6 DEF CommandInv, Starting
    <2> QED BY <2>1 DEF Answering
  <1> QED BY <1>2, <1>4, <1>5, <1>6 DEF Starting

\* With one address, and one command after the other, whoever crashes and
\* however many servers there are: after `restart' the server that answers has
\* the code of the start or newer, and after `stop' none answers.
THEOREM WordIsKept == ASSUME ServersAssumption PROVE Spec => CommandsKeepTheirWord
  <1>1. (TypeInv /\ TidyInv) /\ [Next]_vars =>
           [(Done("user", shell'["user"]) /\ tidy) =>
              /\ shell["user"].job = "restart" =>
                    \A p \in Answering(shell["user"].addr) : procs[p].code >= shell["user"].since
              /\ shell["user"].job = "stop" => Answering(shell["user"].addr) = {}]_shell
    BY WordAtTheEnd DEF vars
  <1> QED BY <1>1, TidyHolds, PTL DEF Spec, CommandsKeepTheirWord

-----------------------------------------------------------------------------
(* A run over the rules *)

\* The record that is written before the rule is put off.
OfThisRule == Record(text, Off(text, rule))

\* Where `text' has the line of the rule, and is what the file had when read.
HasText == {"record", "recording", "mutate", "mutating", "mutated", "suite", "restore",
            "reopen", "rewrite", "clear"}
\* Where the record is of this rule.
Recorded == {"mutate", "mutating", "mutated", "suite", "restore", "reopen", "rewrite", "clear"}
\* Where the file is as it was last saved,
Whole == {"repaired", "read", "record", "recording", "mutate", "clear", "unlink"}
\* and where it may have the rule off instead.
Either == {"mutated", "suite", "restore"}
Standing == {"suite", "restore", "reopen", "rewrite", "clear"}
NotYet == {"repair", "repairing", "repaired", "read", "record", "recording", "mutate", "mutating",
           "mutated"}

USE DEF Points, HalfWritten, Looked, InTheTry, HasText, Recorded, Whole, Either, Standing, NotYet

Typed ==
    /\ file \in Texts \/ file = Empty
    /\ RECOVERY = Missing \/ RECOVERY = Torn \/ \E o, m \in Texts : RECOVERY = Record(o, m)
    /\ at \in Points /\ rule \in Rules /\ text \in Texts
    /\ standing \in BOOLEAN /\ ending \in BOOLEAN /\ lost \in BOOLEAN
    /\ edits \in 0 .. MaxEdits /\ saved \in Texts

\* What is saved is never taken for what the record says was switched off.
RecordIsTrue ==
    \A o, m \in Texts : RECOVERY = Record(o, m) =>
        /\ m.edit <= edits
        /\ file = m => o = saved

Whereabouts ==
    /\ at = "idle" => file = saved \/ RECOVERY = Record(saved, file)
    /\ at \in Whole => file = saved
    /\ at = "read" => RECOVERY = Missing
    /\ at \in {"repair", "repairing"} =>
           \E m \in Texts : RECOVERY = Record(saved, m) /\ (at = "repair" => file = m)
    /\ at \in HasText => rule \notin text.off /\ text.edit <= edits
    /\ at \in {"record", "recording", "mutate", "mutating", "reopen", "rewrite"} => text = saved
    /\ at \in Recorded => RECOVERY = OfThisRule
    /\ at \in Either => file = saved \/ file = Off(text, rule)
    /\ at = "reopen" => file = Off(text, rule)
    /\ at \in Standing => standing
    /\ at \in NotYet => ~standing
    /\ saved.edit <= edits

IInv == Typed /\ RecordIsTrue /\ Whereabouts

LEMMA OffFacts ==
    ASSUME NEW t \in Texts, NEW r \in Rules, r \notin t.off
    PROVE  Off(t, r) \in Texts /\ Off(t, r) # t /\ Off(t, r).edit = t.edit
  BY DEF Off, Texts

LEMMA RecordFacts ==
    ASSUME NEW o, NEW m, NEW o2, NEW m2
    PROVE  /\ Record(o, m) # Missing /\ Record(o, m) # Torn /\ Missing # Torn
           /\ Record(o, m).original = o /\ Record(o, m).mutated = m
           /\ Record(o, m) = Record(o2, m2) => o = o2 /\ m = m2
  <1>1. Record(o, m).is # Missing.is /\ Record(o, m).is # Torn.is /\ Missing.is # Torn.is
    BY DEF Record, Missing, Torn
  <1>2. Record(o, m).original = o /\ Record(o, m).mutated = m
    BY DEF Record
  <1>3. Record(o2, m2).original = o2 /\ Record(o2, m2).mutated = m2
    BY DEF Record
  <1> QED BY <1>1, <1>2, <1>3

LEMMA EmptyIsNoText == Empty \notin Texts
  BY DEF Empty, Texts

LEMMA InitHolds == RuleInit => IInv
  <1> SUFFICES ASSUME RuleInit PROVE IInv OBVIOUS
  <1>1. file \in Texts /\ edits \in 0 .. MaxEdits /\ rule \in Rules
    BY RuleRunAssumption DEF RuleInit, Texts, Rules
  <1>2. Typed
    BY <1>1 DEF RuleInit, Typed, Points
  <1>3. RecordIsTrue
    BY RecordFacts DEF RuleInit, RecordIsTrue
  <1>4. Whereabouts
    BY DEF RuleInit, Whereabouts
  <1> QED BY <1>2, <1>3, <1>4 DEF IInv

LEMMA StartKeeps == IInv /\ Start => IInv'
  <1> SUFFICES ASSUME IInv, Start PROVE IInv' OBVIOUS
  <1> USE RuleRunAssumption, RecordFacts, OffFacts, EmptyIsNoText DEF Start, IInv, run, user
  <1>1. Typed'
    <2>1. 1 \in Rules BY DEF Rules
    <2> QED BY <2>1 DEF Typed
  <1>2. RecordIsTrue'
    BY DEF RecordIsTrue
  <1>3. Whereabouts'
    BY DEF Typed, RecordIsTrue, Whereabouts
  <1> QED BY <1>1, <1>2, <1>3

LEMMA RepairOpenKeeps == IInv /\ RepairOpen => IInv'
  <1> SUFFICES ASSUME IInv, RepairOpen PROVE IInv' OBVIOUS
  <1> USE RuleRunAssumption, RecordFacts, OffFacts, EmptyIsNoText DEF RepairOpen, IInv, run, user
  <1>1. Typed'
    BY DEF Typed
  <1>2. RecordIsTrue'
    BY DEF RecordIsTrue
  <1>3. Whereabouts'
    BY DEF Whereabouts
  <1> QED BY <1>1, <1>2, <1>3

LEMMA RepairWriteKeeps == IInv /\ RepairWrite => IInv'
  <1> SUFFICES ASSUME IInv, RepairWrite PROVE IInv' OBVIOUS
  <1> USE RuleRunAssumption, RecordFacts, OffFacts, EmptyIsNoText DEF RepairWrite, IInv, run, user
  <1>1. Typed'
    BY DEF Typed, Whereabouts
  <1>2. RecordIsTrue'
    BY DEF RecordIsTrue, Whereabouts
  <1>3. Whereabouts'
    BY DEF Typed, RecordIsTrue, Whereabouts, OfThisRule
  <1> QED BY <1>1, <1>2, <1>3

LEMMA RepairedKeeps == IInv /\ Repaired => IInv'
  <1> SUFFICES ASSUME IInv, Repaired PROVE IInv' OBVIOUS
  <1> USE RuleRunAssumption, RecordFacts, OffFacts, EmptyIsNoText DEF Repaired, IInv, run, user
  <1>1. Typed'
    BY DEF Typed
  <1>2. RecordIsTrue'
    BY DEF RecordIsTrue
  <1>3. Whereabouts'
    BY DEF Whereabouts
  <1> QED BY <1>1, <1>2, <1>3

LEMMA ReadKeeps == IInv /\ Read => IInv'
  <1> SUFFICES ASSUME IInv, Read PROVE IInv' OBVIOUS
  <1> USE RuleRunAssumption, RecordFacts, OffFacts, EmptyIsNoText DEF Read, AsItIsNow, HasLine, IInv, run, user
  <1>1. Typed'
    BY DEF Typed, Whereabouts
  <1>2. RecordIsTrue'
    BY DEF RecordIsTrue
  <1>3. Whereabouts'
    <2>1. file = saved /\ saved.edit <= edits /\ ~standing
      BY DEF Whereabouts
    <2>2. CASE at' = "record"
      <3>1. text' = saved /\ rule \notin text'.off /\ text'.edit <= edits
        BY <2>1, <2>2
      <3> QED BY <2>1, <2>2, <3>1 DEF Whereabouts
    <2>3. CASE at' = "unlink"
      BY <2>1, <2>3 DEF Whereabouts
    <2> QED BY <2>2, <2>3
  <1> QED BY <1>1, <1>2, <1>3

LEMMA OpenRecordKeeps == IInv /\ OpenRecord => IInv'
  <1> SUFFICES ASSUME IInv, OpenRecord PROVE IInv' OBVIOUS
  <1> USE RuleRunAssumption, RecordFacts, OffFacts, EmptyIsNoText DEF OpenRecord, IInv, run, user
  <1>1. Typed'
    BY DEF Typed
  <1>2. RecordIsTrue'
    BY DEF RecordIsTrue
  <1>3. Whereabouts'
    BY DEF Whereabouts
  <1> QED BY <1>1, <1>2, <1>3

LEMMA WriteRecordKeeps == IInv /\ WriteRecord => IInv'
  <1> SUFFICES ASSUME IInv, WriteRecord PROVE IInv' OBVIOUS
  <1> USE RuleRunAssumption, RecordFacts, OffFacts, EmptyIsNoText DEF WriteRecord, IInv, run, user
  <1>1. Typed'
    BY DEF Typed, Whereabouts
  <1>2. RecordIsTrue'
    <2>1. rule \in Rules /\ text \in Texts /\ rule \notin text.off /\ text.edit <= edits /\ file = text
      BY DEF Typed, Whereabouts
    <2>2. Off(text, rule).edit <= edits /\ file # Off(text, rule)
      BY <2>1
    <2>3. SUFFICES ASSUME NEW o \in Texts, NEW m \in Texts, RECOVERY' = Record(o, m)
                   PROVE  m.edit <= edits' /\ file' # m
      BY DEF RecordIsTrue
    <2>4. Record(o, m) = Record(text, Off(text, rule))
      BY <2>3
    <2>5. m = Off(text, rule)
      BY <2>4 DEF Record
    <2> QED BY <2>2, <2>5
  <1>3. Whereabouts'
    BY DEF Typed, Whereabouts, OfThisRule
  <1> QED BY <1>1, <1>2, <1>3

LEMMA OpenFileKeeps == IInv /\ OpenFile => IInv'
  <1> SUFFICES ASSUME IInv, OpenFile PROVE IInv' OBVIOUS
  <1> USE RuleRunAssumption, RecordFacts, OffFacts, EmptyIsNoText DEF OpenFile, IInv, run, user
  <1>1. Typed'
    BY DEF Typed
  <1>2. RecordIsTrue'
    BY DEF RecordIsTrue
  <1>3. Whereabouts'
    BY DEF Typed, Whereabouts, OfThisRule
  <1> QED BY <1>1, <1>2, <1>3

LEMMA WriteMutatedKeeps == IInv /\ WriteMutated => IInv'
  <1> SUFFICES ASSUME IInv, WriteMutated PROVE IInv' OBVIOUS
  <1> USE RuleRunAssumption, RecordFacts, OffFacts, EmptyIsNoText DEF WriteMutated, IInv, run, user
  <1>1. Typed'
    BY DEF Typed, Whereabouts
  <1>2. RecordIsTrue'
    BY DEF Typed, RecordIsTrue, Whereabouts, OfThisRule
  <1>3. Whereabouts'
    BY DEF Typed, Whereabouts, OfThisRule
  <1> QED BY <1>1, <1>2, <1>3

LEMMA StandKeeps == IInv /\ Stand => IInv'
  <1> SUFFICES ASSUME IInv, Stand PROVE IInv' OBVIOUS
  <1> USE RuleRunAssumption, RecordFacts, OffFacts, EmptyIsNoText DEF Stand, IInv, run, user
  <1>1. Typed'
    BY DEF Typed
  <1>2. RecordIsTrue'
    BY DEF RecordIsTrue
  <1>3. Whereabouts'
    BY DEF Typed, Whereabouts, OfThisRule
  <1> QED BY <1>1, <1>2, <1>3

LEMMA SuiteEndsKeeps == IInv /\ SuiteEnds => IInv'
  <1> SUFFICES ASSUME IInv, SuiteEnds PROVE IInv' OBVIOUS
  <1> USE RuleRunAssumption, RecordFacts, OffFacts, EmptyIsNoText DEF SuiteEnds, IInv, run, user
  <1>1. Typed'
    BY DEF Typed
  <1>2. RecordIsTrue'
    BY DEF RecordIsTrue
  <1>3. Whereabouts'
    BY DEF Typed, Whereabouts, OfThisRule
  <1> QED BY <1>1, <1>2, <1>3

LEMMA RestoreKeeps == IInv /\ Restore => IInv'
  <1> SUFFICES ASSUME IInv, Restore PROVE IInv' OBVIOUS
  <1> USE RuleRunAssumption, RecordFacts, OffFacts, EmptyIsNoText DEF Restore, MayRestore, AfterRestore, IInv, run, user
  <1>1. Typed'
    BY DEF Typed
  <1>2. RecordIsTrue'
    BY DEF RecordIsTrue
  <1>3. Whereabouts'
    BY DEF Typed, RecordIsTrue, Whereabouts, OfThisRule
  <1> QED BY <1>1, <1>2, <1>3

LEMMA ReopenKeeps == IInv /\ Reopen => IInv'
  <1> SUFFICES ASSUME IInv, Reopen PROVE IInv' OBVIOUS
  <1> USE RuleRunAssumption, RecordFacts, OffFacts, EmptyIsNoText DEF Reopen, IInv, run, user
  <1>1. Typed'
    BY DEF Typed
  <1>2. RecordIsTrue'
    BY DEF RecordIsTrue
  <1>3. Whereabouts'
    BY DEF Typed, Whereabouts, OfThisRule
  <1> QED BY <1>1, <1>2, <1>3

LEMMA RewriteKeeps == IInv /\ Rewrite => IInv'
  <1> SUFFICES ASSUME IInv, Rewrite PROVE IInv' OBVIOUS
  <1> USE RuleRunAssumption, RecordFacts, OffFacts, EmptyIsNoText DEF Rewrite, AfterRestore, IInv, run, user
  <1>1. Typed'
    BY DEF Typed, RecordIsTrue, Whereabouts, OfThisRule
  <1>2. RecordIsTrue'
    BY DEF Typed, RecordIsTrue, Whereabouts, OfThisRule
  <1>3. Whereabouts'
    BY DEF Typed, Whereabouts, OfThisRule
  <1> QED BY <1>1, <1>2, <1>3

LEMMA ClearKeeps == IInv /\ Clear => IInv'
  <1> SUFFICES ASSUME IInv, Clear PROVE IInv' OBVIOUS
  <1> USE RuleRunAssumption, RecordFacts, OffFacts, EmptyIsNoText DEF Clear, NoRecord, IInv, run, user
  <1>1. Typed'
    <2>1. rule < NumRules => rule + 1 \in Rules BY DEF Typed, Rules
    <2> QED BY <2>1 DEF Typed
  <1>2. RecordIsTrue'
    BY DEF RecordIsTrue
  <1>3. Whereabouts'
    BY DEF Whereabouts
  <1> QED BY <1>1, <1>2, <1>3

LEMMA UnlinkKeeps == IInv /\ UnlinkRecord => IInv'
  <1> SUFFICES ASSUME IInv, UnlinkRecord PROVE IInv' OBVIOUS
  <1> USE RuleRunAssumption, RecordFacts, OffFacts, EmptyIsNoText DEF UnlinkRecord, IInv, run, user
  <1>1. Typed'
    BY DEF Typed
  <1>2. RecordIsTrue'
    BY DEF RecordIsTrue
  <1>3. Whereabouts'
    BY DEF Whereabouts
  <1> QED BY <1>1, <1>2, <1>3

LEMMA KillKeeps == IInv /\ KillRun => IInv'
  <1> SUFFICES ASSUME IInv, KillRun PROVE IInv' OBVIOUS
  <1> USE RuleRunAssumption, RecordFacts, OffFacts, EmptyIsNoText DEF KillRun, IInv, run, user
  <1>1. Typed'
    BY DEF Typed
  <1>2. RecordIsTrue'
    BY DEF RecordIsTrue
  <1>3. Whereabouts'
    BY DEF Typed, RecordIsTrue, Whereabouts, OfThisRule
  <1> QED BY <1>1, <1>2, <1>3

LEMMA InterruptKeeps == IInv /\ Interrupt => IInv'
  <1> SUFFICES ASSUME IInv, Interrupt PROVE IInv' OBVIOUS
  <1> USE RuleRunAssumption, RecordFacts, OffFacts, EmptyIsNoText DEF Interrupt, IInv, run, user
  <1>1. Typed'
    BY DEF Typed
  <1>2. RecordIsTrue'
    BY DEF RecordIsTrue
  <1>3. Whereabouts'
    BY DEF Typed, Whereabouts, OfThisRule
  <1> QED BY <1>1, <1>2, <1>3

LEMMA EditKeeps == IInv /\ Edit => IInv'
  <1> SUFFICES ASSUME IInv, Edit PROVE IInv' OBVIOUS
  <1> USE RuleRunAssumption, RecordFacts, OffFacts, EmptyIsNoText DEF Edit, IInv, run, user
  <1>1. Typed'
    <2>1. at \notin HalfWritten /\ file \in Texts
      BY DEF Typed, Whereabouts
    <2>2. edits' \in 0 .. MaxEdits /\ edits' = edits + 1
      BY DEF Typed
    <2>3. file' \in Texts /\ saved' \in Texts
      BY <2>1, <2>2 DEF Typed, Texts
    <2> QED BY <2>2, <2>3 DEF Typed
  <1>2. RecordIsTrue'
    <2>1. SUFFICES ASSUME NEW o \in Texts, NEW m \in Texts, RECOVERY = Record(o, m)
                   PROVE  m.edit <= edits' /\ file' # m
      BY DEF RecordIsTrue
    <2>2. m.edit <= edits /\ m.edit \in Nat /\ edits \in Nat
      BY <2>1 DEF RecordIsTrue, Typed, Texts
    <2>3. file'.edit = edits + 1
      OBVIOUS
    <2> QED BY <2>2, <2>3
  <1>3. Whereabouts'
    <2>1. file' = saved' /\ saved'.edit = edits' /\ edits' = edits + 1 /\ edits \in Nat
      BY DEF Typed
    <2>2. at \notin Looked /\ at \notin HalfWritten
      OBVIOUS
    <2>3. text \in Texts /\ text.edit \in Nat
      BY DEF Typed, Texts
    <2> QED BY <2>1, <2>2, <2>3 DEF Whereabouts, OfThisRule
  <1> QED BY <1>1, <1>2, <1>3

THEOREM IInvHolds == RuleSpec => []IInv
  <1>1. IInv /\ [RuleNext]_ruleVars => IInv'
    <2> SUFFICES ASSUME IInv, [RuleNext]_ruleVars PROVE IInv' OBVIOUS
    <2>1. CASE RepairRaises \/ UNCHANGED ruleVars
      BY <2>1 DEF RepairRaises, ruleVars, IInv, Typed, RecordIsTrue, Whereabouts, OfThisRule
    <2>2. CASE Start \/ RepairOpen \/ RepairWrite \/ Repaired
      BY <2>2, StartKeeps, RepairOpenKeeps, RepairWriteKeeps, RepairedKeeps
    <2>3. CASE Read \/ OpenRecord \/ WriteRecord \/ OpenFile \/ WriteMutated \/ Stand
      BY <2>3, ReadKeeps, OpenRecordKeeps, WriteRecordKeeps, OpenFileKeeps, WriteMutatedKeeps,
         StandKeeps
    <2>4. CASE SuiteEnds \/ Restore \/ Reopen \/ Rewrite \/ Clear \/ UnlinkRecord
      BY <2>4, SuiteEndsKeeps, RestoreKeeps, ReopenKeeps, RewriteKeeps, ClearKeeps, UnlinkKeeps
    <2>5. CASE KillRun \/ Interrupt \/ Edit
      BY <2>5, KillKeeps, InterruptKeeps, EditKeeps
    <2> QED BY <2>1, <2>2, <2>3, <2>4, <2>5 DEF RuleNext
  <1> QED BY InitHolds, <1>1, PTL DEF RuleSpec

\* The variables keep their types, and no rule begins while there is a record
\* of another.
THEOREM TypeCorrect == RuleSpec => []RuleTypeOK
  <1>1. IInv => RuleTypeOK
    BY RecordFacts DEF IInv, Typed, Whereabouts, RuleTypeOK, IsRecord, Record
  <1> QED BY IInvHolds, <1>1, PTL

\* When no run is under way, the file is as it was last saved, or the record
\* says that it was switched off and has what was saved.
THEOREM NothingIsEverLost == RuleSpec => []NothingIsLost
  <1>1. IInv => NothingIsLost
    BY DEF IInv, Whereabouts, NothingIsLost
  <1> QED BY IInvHolds, <1>1, PTL

\* The tests run on what was last saved with one more rule off, or on what was
\* saved since.
THEOREM TestsRunOnWhatWasSaved == RuleSpec => []OneRuleIsOff
  <1>1. ASSUME IInv, at = "suite" PROVE file \in {Off(saved, rule), saved}
    <2>1. RECOVERY = Record(text, Off(text, rule)) /\ text \in Texts
          /\ Off(text, rule) \in Texts /\ (file = saved \/ file = Off(text, rule))
      BY <1>1, OffFacts DEF IInv, Typed, Whereabouts, OfThisRule
    <2>2. file = Off(text, rule) => text = saved
      BY <1>1, <2>1 DEF IInv, RecordIsTrue
    <2> QED BY <2>1, <2>2
  <1>2. IInv => OneRuleIsOff
    BY <1>1 DEF OneRuleIsOff
  <1> QED BY IInvHolds, <1>2, PTL
=============================================================================
