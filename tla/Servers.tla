------------------------------ MODULE Servers ------------------------------
(***************************************************************************)
(* The viewer's servers on one machine, and who starts and ends them: the  *)
(* user's session-tree command (cli.py) and scripts/deploy_local.py, each  *)
(* step by step, beside servers that crash and other programs that come    *)
(* and go.  One pid file stands for all servers.                           *)
(*                                                                         *)
(* A server runs the code that the clone has when it is spawned, in the    *)
(* directory it is started from.  Commits that leave Python alone change   *)
(* nothing here: the page is read on every request.  A deploy that finds   *)
(* the clone changed by hand ends before it begins; nobody pulls in it by  *)
(* hand.                                                                   *)
(***************************************************************************)
EXTENDS Integers, FiniteSets

CONSTANTS Pids, Addresses,
          MaxCommits,    \* bound: commits on main
          MaxCommands,   \* bound: commands and deploys
          MaxMishaps     \* bound: crashes and other programs

ASSUME ServersAssumption ==
    /\ "none" \notin Pids
    /\ MaxCommits \in Nat /\ MaxCommands \in Nat /\ MaxMishaps \in Nat

VARIABLES procs,      \* the processes
          pid_file,   \* server.pid
          main,       \* the code on main: its number of commits
          clone,      \* the code in the clone
          shell,      \* what the user's command and the deploy are doing
          commands, mishaps,
          tidy,       \* one address, one command at a time, none that gave up
          behind      \* a deploy ended without reaching its end

vars == <<procs, pid_file, main, clone, shell, commands, mishaps, tidy, behind>>

counts == <<main, commands, mishaps>>

Shells == {"user", "deploy"}
NoPid == "none"
Free == [is |-> "free"]
Other == [is |-> "other"]
Servers == {p \in Pids : procs[p].is = "server"}
Idle(result) == [at |-> "idle", result |-> result]

Init ==
    /\ procs = [p \in Pids |-> Free] /\ pid_file = NoPid
    /\ main = 0 /\ clone = 0
    /\ shell = [s \in Shells |-> Idle("ok")]
    /\ commands = 0 /\ mishaps = 0 /\ tidy = TRUE /\ behind = FALSE

-----------------------------------------------------------------------------
(* The machine *)

Commit ==
    /\ main < MaxCommits /\ main' = main + 1
    /\ UNCHANGED <<procs, pid_file, clone, shell, commands, mishaps, tidy, behind>>

Mishap(p, proc) ==
    /\ mishaps < MaxMishaps /\ mishaps' = mishaps + 1
    /\ procs' = [procs EXCEPT ![p] = proc]
    /\ UNCHANGED <<pid_file, main, clone, shell, commands, tidy, behind>>
Crash(p) == p \in Servers /\ Mishap(p, Free)
Comes(p) == procs[p] = Free /\ Mishap(p, Other)

Answering(addr) == {p \in Servers : procs[p].addr = addr /\ procs[p].bound}

ReusePort(addr) == FALSE
Taken(addr) == Answering(addr) # {}
\* make_server: a server whose address is taken ends.
Bind(p) ==
    /\ p \in Servers /\ ~procs[p].bound
    /\ procs' = [procs EXCEPT ![p] = IF Taken(@.addr) THEN Free ELSE [@ EXCEPT !.bound = TRUE]]
    /\ UNCHANGED <<counts, pid_file, clone, shell, tidy, behind>>

-----------------------------------------------------------------------------
(* start, stop and restart of cli.py, in shell s *)

is_running(addr) == Answering(addr) # {}

Go(s, step) == shell' = [shell EXCEPT ![s] = step]
At(s, at) == shell[s].at = at
To(s, at) == Go(s, [shell[s] EXCEPT !.at = at])

\* What comes of a start that returns code: of the user's, the end; of the
\* deploy's, the next server, or the end.
Started(s, code) ==
    /\ Go(s, IF s = "user" THEN Idle(code)
             ELSE IF code = "ok" THEN [shell[s] EXCEPT !.at = "each"] ELSE Idle("failed"))
    /\ behind' = (behind \/ (s = "deploy" /\ code # "ok"))

Ping(s) ==
    /\ At(s, "ping")
    /\ IF is_running(shell[s].addr) THEN Started(s, "ok") ELSE To(s, "spawn") /\ UNCHANGED behind
    /\ UNCHANGED <<counts, procs, pid_file, clone, tidy>>
Spawn(s, p) ==
    /\ At(s, "spawn") /\ procs[p] = Free
    /\ procs' = [procs EXCEPT ![p] = [is |-> "server", addr |-> shell[s].addr, code |-> clone,
                                      cwd |-> shell[s].cwd, bound |-> FALSE]]
    /\ Go(s, [shell[s] EXCEPT !.at = "save", !.pid = p])
    /\ UNCHANGED <<counts, pid_file, clone, tidy, behind>>
SavedOnce(old, new) == IF old = NoPid THEN new ELSE old
Saved(old, new) == new
Save(s) ==
    /\ At(s, "save") /\ Go(s, [shell[s] EXCEPT !.at = "wait", !.pid = NoPid])
    /\ pid_file' = Saved(pid_file, shell[s].pid)
    /\ UNCHANGED <<counts, procs, clone, tidy, behind>>
Wait(s) ==
    /\ At(s, "wait") /\ is_running(shell[s].addr)
    /\ Started(s, "ok")
    /\ UNCHANGED <<counts, procs, pid_file, clone, tidy>>
\* STARTUP_TIMEOUT
GiveUp(s) ==
    /\ At(s, "wait") /\ ~is_running(shell[s].addr)
    /\ Started(s, "failed") /\ tidy' = FALSE
    /\ UNCHANGED <<counts, procs, pid_file, clone>>

\* The pid is read and the signal sent in one go; a server ends on it at once.
Killed(p) == [procs EXCEPT ![p] = Free]
Kill ==
    /\ At("user", "stop")
    /\ IF pid_file = NoPid
       THEN To("user", "stopped") /\ UNCHANGED procs
       ELSE To("user", "unlink") /\ procs' = Killed(pid_file)
    /\ UNCHANGED <<counts, pid_file, clone, tidy, behind>>
Unlink ==
    /\ At("user", "unlink") /\ To("user", "stopped")
    /\ pid_file' = NoPid
    /\ UNCHANGED <<counts, procs, clone, tidy, behind>>
Stopped ==
    /\ At("user", "stopped")
    /\ IF shell["user"].job = "restart" THEN To("user", "ping") ELSE Go("user", Idle("ok"))
    /\ UNCHANGED <<counts, procs, pid_file, clone, tidy, behind>>

Begin(s, step) ==
    /\ shell[s].at = "idle" /\ commands < MaxCommands
    /\ commands' = commands + 1
    /\ Go(s, step)
    /\ tidy' = (tidy /\ \A other \in Shells : shell[other].at = "idle"
                     /\ (s = "user" => \A p \in Servers : procs[p].addr = step.addr))
    /\ UNCHANGED <<procs, pid_file, main, clone, mishaps, behind>>

Command(job, addr, cwd) ==
    Begin("user", [at |-> IF job = "start" THEN "ping" ELSE "stop", job |-> job,
                   addr |-> addr, cwd |-> cwd, pid |-> NoPid,
                   since |-> IF job = "restart" THEN clone ELSE 0])

-----------------------------------------------------------------------------
(* deploy_local.py *)

Deploy(restart) == Begin("deploy", [at |-> "merge", restart |-> restart])

needs_restart(before, after) == before # after
Merge ==
    /\ At("deploy", "merge")
    /\ clone' = main
    /\ Go("deploy", [at |-> "list",
                     restart |-> shell["deploy"].restart \/ needs_restart(clone, clone')])
    /\ UNCHANGED <<counts, procs, pid_file, tidy, behind>>

servers_that_answer == {p \in Servers : procs[p].bound}
\* Every server process, from wherever it runs, that has come to answer or not.
servers == Servers
List ==
    /\ At("deploy", "list")
    /\ LET running == {p \in servers : procs[p].cwd = "clone"}
       IN  Go("deploy", IF servers = {} THEN Idle("ok")
                        ELSE [at |-> IF shell["deploy"].restart THEN "each" ELSE "check",
                              todo |-> running, running |-> [p \in running |-> procs[p].addr],
                              cwd |-> "clone", pid |-> NoPid])
    /\ UNCHANGED <<counts, procs, pid_file, clone, tidy, behind>>

Fails == Go("deploy", Idle("failed")) /\ behind' = TRUE

\* stop: a process that is gone by now is an error nobody catches.
Replace(p) ==
    /\ At("deploy", "each") /\ p \in shell["deploy"].todo
    /\ IF procs[p] = Free THEN Fails /\ UNCHANGED procs
       ELSE /\ procs' = Killed(p)
            /\ Go("deploy", [at |-> "ping", addr |-> shell["deploy"].running[p],
                             todo |-> shell["deploy"].todo \ {p},
                             running |-> shell["deploy"].running, cwd |-> "clone", pid |-> NoPid])
            /\ UNCHANGED behind
    /\ UNCHANGED <<counts, pid_file, clone, tidy>>
AllReplaced ==
    /\ At("deploy", "each") /\ shell["deploy"].todo = {}
    /\ To("deploy", "check")
    /\ UNCHANGED <<counts, procs, pid_file, clone, tidy, behind>>
\* served: every address answers, with the clone's page.
Served(running) == \A p \in DOMAIN running : is_running(running[p])
Check ==
    /\ At("deploy", "check")
    /\ IF Served(shell["deploy"].running) THEN Go("deploy", Idle("ok")) /\ UNCHANGED behind
       ELSE Fails
    /\ UNCHANGED <<counts, procs, pid_file, clone, tidy>>

CutShort(s) ==
    /\ shell[s].at # "idle"
    /\ Go(s, Idle("failed")) /\ tidy' = FALSE /\ behind' = (behind \/ s = "deploy")
    /\ UNCHANGED <<counts, procs, pid_file, clone>>

-----------------------------------------------------------------------------
Steps ==
    \/ \E s \in Shells :
          Ping(s) \/ Save(s) \/ Wait(s) \/ GiveUp(s) \/ CutShort(s) \/ \E p \in Pids : Spawn(s, p)
    \/ Kill \/ Unlink \/ Stopped
    \/ Merge \/ List \/ AllReplaced \/ Check \/ \E p \in Pids : Replace(p)

Next ==
    \/ Commit
    \/ \E p \in Pids : Crash(p) \/ Comes(p) \/ Bind(p)
    \/ \E addr \in Addresses :
          \/ Command("stop", addr, "clone")
          \/ \E job \in {"start", "restart"}, cwd \in {"clone", "elsewhere"} : Command(job, addr, cwd)
    \/ \E restart \in BOOLEAN : Deploy(restart)
    \/ Steps

Spec == Init /\ [][Next]_vars

-----------------------------------------------------------------------------
(* Properties *)

TypeOK ==
    /\ procs \in [Pids -> {Free, Other} \cup [is : {"server"}, addr : Addresses, code : 0 .. MaxCommits,
                                             cwd : {"clone", "elsewhere"}, bound : BOOLEAN]]
    /\ pid_file \in Pids \cup {NoPid}
    /\ clone \in 0 .. main /\ main \in 0 .. MaxCommits
    /\ commands \in 0 .. MaxCommands /\ mishaps \in 0 .. MaxMishaps
    /\ {tidy, behind} \subseteq BOOLEAN
    /\ \A addr \in Addresses : Cardinality(Answering(addr)) <= 1

\* What shell s did has just ended, well.
Done(s, result) == result.at = "idle" /\ result.result = "ok" /\ shell[s].at # "idle"

\* A deploy puts live what is merged: when it ends well, every server that runs
\* from the clone has the clone's code, starting ones and those of commands given
\* meanwhile included - unless an earlier deploy stopped half way, for then the
\* clone is up to date and nothing looks at what the servers have loaded.
DeployedIsLive ==
    [][(Done("deploy", shell'["deploy"]) /\ ~behind) =>
          \A p \in Servers : procs[p].cwd = "clone" => procs[p].code = clone]_shell

\* `session-tree restart    # after upgrading': with one address, and one command
\* after the other, whoever crashed or took over a process id, the server that
\* answers afterwards has the code there was at the start or newer; and after
\* `stop' none answers.
CommandsKeepTheirWord ==
    [][(Done("user", shell'["user"]) /\ tidy) =>
          /\ shell["user"].job = "restart" =>
                \A p \in Answering(shell["user"].addr) : procs[p].code >= shell["user"].since
          /\ shell["user"].job = "stop" => Answering(shell["user"].addr) = {}]_shell
=============================================================================
