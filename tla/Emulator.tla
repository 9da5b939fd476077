------------------------------ MODULE Emulator ------------------------------
(***************************************************************************)
(* The network emulator (src/netsim): POST and DELETE of a topology,       *)
(* asynchronous deployments and their jobs, the Mininet network they       *)
(* replace, and the terminals of its nodes.                                *)
(*                                                                         *)
(* operation_lock is taken without waiting: a second operation is refused, *)
(* so there is at most one, `op`.  Only its holder takes lifecycle_lock,   *)
(* which therefore never makes anybody wait and is not a variable.  Input  *)
(* for terminals takes neither lock.                                       *)
(***************************************************************************)
EXTENDS Integers, FiniteSets

CONSTANTS
  Files,         \* topology files
  Nodes,         \* nodes of each topology that have a terminal
  Users,         \* websocket clients
  NoFile, NoNode,
  MaxJobs,       \* 20, the deployments that are remembered
  MaxOperations  \* bound of the model: operations begun

ASSUME NamesAssumption  == NoFile \notin Files /\ NoNode \notin Nodes
ASSUME LimitsAssumption == {MaxJobs, MaxOperations} \subseteq Nat \ {0}

VARIABLES
  topoFile,   \* runner.topo_file
  fields,     \* the file that runner.hosts, switches, links ... come from
  net,        \* runner.net: the network object
  alive,      \* the network whose nodes run
  dirty,      \* the last `mn -c` failed
  status,     \* runner.deployment['status']
  op,         \* the holder of operation_lock
  operations, \* operations begun; they are numbered, and so are jobs and networks
  jobs,       \* runner.deployment_jobs, in the order of their numbers
  clis,       \* the terminals on offer
  stopped,    \* terminals whose stop_event is set
  waiting,    \* terminals whose node waits for the end of a command
  cmd         \* what run_cmd does for each user

runnerVars == <<topoFile, fields, net, alive, dirty, status>>
jobVars    == <<operations, jobs>>
cliVars    == <<clis, stopped, waiting, cmd>>
vars == <<runnerVars, op, jobVars, cliVars>>

Numbers   == 1..MaxOperations
Network   == [number : Numbers, file : Files]
NoNetwork == [number |-> 0, file |-> NoFile]
Terminal  == [net : Numbers, node : Nodes]
NoJob     == [status |-> "none", topology |-> NoFile]
Job       == [status : {"none", "pending", "running", "ready", "failed"},
              topology : Files \cup {NoFile}]
Free      == [kind |-> "none", pc |-> "free", file |-> NoFile]
NoCmd     == [pc |-> "idle", cli |-> [net |-> 0, node |-> NoNode]]

Known == {j \in Numbers : jobs[j] # NoJob}

TypeOK ==
  /\ {topoFile, fields} \subseteq Files \cup {NoFile}
  /\ {net, alive} \subseteq Network \cup {NoNetwork}
  /\ dirty \in BOOLEAN /\ status \in {"idle", "starting", "ready", "failed"}
  /\ op \in [kind : {"load", "deploy", "clear"}, file : Files \cup {NoFile},
             pc : {"reading", "thread", "closing", "destroying", "parsing", "creating", "starting",
                   "cleaning", "terminals", "reporting", "finishing", "releasing"}] \cup {Free}
  /\ operations \in 0..MaxOperations
  /\ jobs \in [Numbers -> Job] /\ Cardinality(Known) <= MaxJobs
  /\ clis \subseteq Terminal /\ stopped \subseteq Terminal /\ waiting \subseteq Terminal
  /\ cmd \in [Users -> [pc : {"fetched", "locked", "waiting"}, cli : Terminal] \cup {NoCmd}]

Init ==
  /\ topoFile = NoFile /\ fields = NoFile /\ net = NoNetwork /\ alive = NoNetwork
  /\ dirty = FALSE /\ status = "idle" /\ op = Free
  /\ operations = 0 /\ jobs = [j \in Numbers |-> NoJob]
  /\ clis = {} /\ stopped = {} /\ waiting = {} /\ cmd = [u \in Users |-> NoCmd]

Goes(pc) == op' = [op EXCEPT !.pc = pc]

\* The deployment job of the operation, when it has one, becomes x.
Reports(x) ==
  jobs' = IF op.kind = "deploy" THEN [jobs EXCEPT ![operations] = x] ELSE jobs

-----------------------------------------------------------------------------
(* The beginning of an operation, and its failure.                          *)

Begin(k, f) ==
  /\ op = Free /\ operations < MaxOperations
  /\ operations' = operations + 1
  /\ op' = [kind |-> k, file |-> f, pc |-> IF k = "clear" THEN "closing" ELSE "reading"]
  /\ UNCHANGED <<runnerVars, jobs, cliVars>>

\* The file is refused.  POST /topology/load clears topo_file when the error
\* is neither a ValueError nor an OSError.
Refuse ==
  /\ op.pc = "reading"
  /\ op' = Free
  /\ topoFile' \in IF op.kind = "load" THEN {topoFile, NoFile} ELSE {topoFile}
  /\ UNCHANGED <<fields, net, alive, dirty, status, jobVars, cliVars>>

Accept ==
  /\ op.pc = "reading" /\ op.kind = "load"
  /\ Goes("closing")
  /\ UNCHANGED <<runnerVars, jobVars, cliVars>>

\* Faulty: a finished deployment makes room, whichever it is.
Newest(J) == CHOOSE j \in J : \A k \in J : k <= j
Oldest(J) == CHOOSE j \in J : \A k \in J : j <= k

\* The job is registered; the oldest makes room for it.
AcceptJob ==
  /\ op.pc = "reading" /\ op.kind = "deploy"
  /\ LET full == Cardinality(Known) >= MaxJobs
     IN jobs' = [j \in Numbers |->
                   IF j = operations THEN [status |-> "pending", topology |-> NoFile]
                   ELSE IF full /\ j = Oldest(Known) THEN NoJob ELSE jobs[j]]
  /\ Goes("thread")
  /\ UNCHANGED <<runnerVars, operations, cliVars>>

ThreadStarts ==
  /\ op.pc = "thread"
  /\ Reports([jobs[operations] EXCEPT !.status = "running"])
  /\ Goes("closing")
  /\ UNCHANGED <<runnerVars, operations, cliVars>>

ThreadFails ==
  /\ op.pc = "thread"
  /\ Reports(NoJob)
  /\ op' = Free
  /\ UNCHANGED <<runnerVars, operations, cliVars>>

\* What topo_file may be after a failure; `replaced`: replacement_started.
FileAfter(replaced) ==
  CASE op.kind = "load"   -> {topoFile, NoFile}
    [] op.kind = "deploy" -> IF replaced THEN {NoFile} ELSE {topoFile}
    [] op.kind = "clear"  -> {topoFile}

\* Faulty: SystemExit, which is no Exception, passes the handler of the job.
FailsUnseen(replaced) ==
  /\ topoFile' \in FileAfter(replaced)
  /\ \/ Reports([status |-> "failed", topology |-> NoFile])
     \/ UNCHANGED jobs
  /\ Goes("releasing")

Fails(replaced) ==
  /\ topoFile' \in FileAfter(replaced)
  /\ Reports([status |-> "failed", topology |-> NoFile])
  /\ Goes("releasing")

-----------------------------------------------------------------------------
(* close_clis: each terminal is stopped, and interrupted if it waits.       *)

CloseNext(c) ==
  /\ op.pc = "closing" /\ c \in clis \ stopped
  /\ stopped' = stopped \cup {c}
  /\ UNCHANGED <<runnerVars, op, jobVars, clis, waiting, cmd>>

\* The interrupt raises.  Nothing was replaced yet.
CloseFails(c) ==
  /\ op.pc = "closing" /\ c \in clis \cap waiting
  /\ stopped' = stopped \cup {c}
  /\ Fails(FALSE)
  /\ UNCHANGED <<fields, net, alive, dirty, status, operations, clis, waiting, cmd>>

\* Faulty: the terminals stay on offer until the new ones are made.
StayOffered == clis' = clis
NotOffered  == clis' = {}

Closed ==
  /\ op.pc = "closing" /\ clis \subseteq stopped
  /\ NotOffered
  /\ topoFile' = IF op.kind = "clear" THEN topoFile ELSE op.file
  /\ Goes("destroying")
  /\ UNCHANGED <<fields, net, alive, dirty, status, jobVars, stopped, waiting, cmd>>

-----------------------------------------------------------------------------
(* run() and destroy_topology().                                            *)

\* destroy_topology up to its last line, when `mn -c` succeeds.
Destroyed ==
  /\ alive' = NoNetwork /\ net' = NoNetwork /\ fields' = NoFile
  /\ dirty' = FALSE

\* `mn -c` raises and nothing is reset; the nodes were stopped before, unless
\* that failed too or there was no network object to stop.
DestroyFails ==
  /\ alive' \in {NoNetwork, alive}
  /\ dirty' = TRUE
  /\ UNCHANGED <<net, fields>>

Destroy ==
  /\ op.pc = "destroying"
  /\ \/ /\ Destroyed /\ status' = "idle"
        /\ IF op.kind = "clear"
           THEN topoFile' = NoFile /\ Goes("releasing")
           ELSE Goes("parsing") /\ UNCHANGED topoFile
        /\ UNCHANGED jobs
     \/ /\ DestroyFails
        /\ Fails(TRUE)
        /\ UNCHANGED status
  /\ UNCHANGED <<operations, cliVars>>

\* parse_topology_file
Parse ==
  /\ op.pc = "parsing"
  /\ fields' = op.file /\ status' = "starting"
  /\ Goes("creating")
  /\ UNCHANGED <<topoFile, net, alive, dirty, jobVars, cliVars>>

\* create_network: nodes are made before self.net is assigned, and interfaces
\* are attached after it; either part may raise.
Create ==
  /\ op.pc = "creating"
  /\ alive' = [number |-> operations, file |-> fields]
  /\ \/ net' = alive' /\ \E next \in {"starting", "cleaning"} : Goes(next)
     \/ Goes("cleaning") /\ UNCHANGED net
  /\ UNCHANGED <<topoFile, fields, dirty, status, jobVars, cliVars>>

\* net.start() and what follows it
Start ==
  /\ op.pc = "starting"
  /\ \/ status' = "ready" /\ Goes("terminals")
     \/ Goes("cleaning") /\ UNCHANGED status
  /\ UNCHANGED <<topoFile, fields, net, alive, dirty, jobVars, cliVars>>

\* Faulty: the network that failed to start is left to the next operation.
LeaveNetwork ==
  /\ op.pc = "cleaning"
  /\ status' = "failed" /\ Fails(TRUE)
  /\ UNCHANGED <<fields, net, alive, dirty, operations, cliVars>>

\* The handler of run(): the partial network is destroyed.
CleanUp ==
  /\ op.pc = "cleaning"
  /\ Destroyed \/ DestroyFails
  /\ status' = "failed" /\ Fails(TRUE)
  /\ UNCHANGED <<operations, cliVars>>

-----------------------------------------------------------------------------
(* The end of an operation.                                                 *)

\* init_clis; that a shell is missing is a warning.
InitTerminals ==
  /\ op.pc = "terminals"
  /\ \E N \in SUBSET Nodes : clis' = {[net |-> net.number, node |-> n] : n \in N}
  /\ Goes(IF op.kind = "load" THEN "releasing" ELSE "reporting")
  /\ UNCHANGED <<runnerVars, jobVars, stopped, waiting, cmd>>

\* Faulty: the status is set before the topology.
ReportStatus ==
  /\ op.pc = "reporting"
  /\ Reports([jobs[operations] EXCEPT !.status = "ready"])
  /\ Goes("finishing")
  /\ UNCHANGED <<runnerVars, operations, cliVars>>

Report ==
  /\ op.pc = "reporting"
  /\ Reports([jobs[operations] EXCEPT !.topology = fields])
  /\ Goes("finishing")
  /\ UNCHANGED <<runnerVars, operations, cliVars>>

Finish ==
  /\ op.pc = "finishing"
  /\ Reports([status |-> "ready", topology |-> fields])
  /\ Goes("releasing")
  /\ UNCHANGED <<runnerVars, operations, cliVars>>

Release ==
  /\ op.pc = "releasing" /\ op' = Free
  /\ UNCHANGED <<runnerVars, jobVars, cliVars>>

-----------------------------------------------------------------------------
(* Commands.  A terminal is looked up without a lock.                       *)

Goto(u, pc) == cmd' = [cmd EXCEPT ![u] = IF pc = "idle" THEN NoCmd ELSE [@ EXCEPT !.pc = pc]]

\* command_lock of c is held
Held(c) == \E v \in Users : cmd[v].cli = c /\ cmd[v].pc \in {"locked", "waiting"}

Fetch(u, c) ==
  /\ cmd[u] = NoCmd /\ c \in clis
  /\ cmd' = [cmd EXCEPT ![u] = [pc |-> "fetched", cli |-> c]]
  /\ UNCHANGED <<runnerVars, op, jobVars, clis, stopped, waiting>>

Check(u) ==
  /\ cmd[u].pc = "fetched"
  /\ LET c == cmd[u].cli
     IN Goto(u, IF c \in stopped \/ Held(c) THEN "idle" ELSE "locked")
  /\ UNCHANGED <<runnerVars, op, jobVars, clis, stopped, waiting>>

\* sendCmd asserts that the shell runs and waits for nothing.
Send(u) ==
  LET c == cmd[u].cli IN
  /\ cmd[u].pc = "locked"
  /\ \/ /\ c.net = alive.number /\ c \notin waiting
        /\ waiting' = waiting \cup {c}
        /\ Goto(u, "waiting")
     \/ Goto(u, "idle") /\ UNCHANGED waiting
  /\ UNCHANGED <<runnerVars, op, jobVars, clis, stopped>>

\* monitor() reads the end of the command; nothing obliges a command to end.
CommandEnds(u) ==
  /\ cmd[u].pc = "waiting" /\ cmd[u].cli.net = alive.number
  /\ waiting' = waiting \ {cmd[u].cli}
  /\ UNCHANGED <<runnerVars, op, jobVars, clis, stopped, cmd>>

\* Faulty: only the end of the command ends the loop.
LeavesOnEnd(c) == c \notin waiting
Leaves(c)      == c \notin waiting \/ c \in stopped

LeaveLoop(u) ==
  /\ cmd[u].pc = "waiting" /\ Leaves(cmd[u].cli)
  /\ Goto(u, "idle")
  /\ UNCHANGED <<runnerVars, op, jobVars, clis, stopped, waiting>>

-----------------------------------------------------------------------------
Proceed ==
  \/ Refuse \/ Accept \/ AcceptJob \/ ThreadStarts \/ ThreadFails
  \/ \E c \in clis : CloseNext(c)
  \/ \E c \in clis : CloseFails(c)
  \/ Closed \/ Destroy \/ Parse \/ Create \/ Start \/ CleanUp
  \/ InitTerminals \/ Report \/ Finish \/ Release

Command(u) == Check(u) \/ Send(u) \/ LeaveLoop(u)

Next ==
  \/ \E k \in {"load", "deploy"}, f \in Files : Begin(k, f)
  \/ Begin("clear", NoFile)
  \/ Proceed
  \/ \E u \in Users : Command(u) \/ CommandEnds(u) \/ \E c \in clis : Fetch(u, c)

Spec == Init /\ [][Next]_vars

\* Operations go on: reading and cleaning are local, and the start of a switch
\* is bounded by its timeout.  Commands poll every 0.1 s.
Fairness == WF_vars(Proceed) /\ \A u \in Users : WF_vars(Command(u))
FairSpec == Spec /\ Fairness

-----------------------------------------------------------------------------
(* Properties.                                                              *)

\* A terminal on offer belongs to the network that runs, although its input
\* takes no lock: handle_message never finds a node that was destroyed.
TerminalsRun == \A c \in clis : c.net = net.number /\ net = alive

\* Between operations a network runs if and only if the emulator says so, and
\* then GET /topology describes it ("actually built topology"); failed starts
\* leave no partial network.  A failure of `mn -c` is the exception.
NetworkIsReported ==
  op = Free /\ ~dirty =>
    /\ alive # NoNetwork <=> status = "ready"
    /\ net = alive /\ (alive # NoNetwork => fields = alive.file)
    /\ topoFile # NoFile /\ alive # NoNetwork => topoFile = alive.file

\* Who polls a deployment without a lock and reads `ready` also reads the
\* topology, and its network runs until another operation begins.
ReadyIsRunning ==
  \A j \in Known : jobs[j].status = "ready" =>
    /\ jobs[j].topology # NoFile
    /\ j = operations => /\ alive = [number |-> j, file |-> jobs[j].topology]
                         /\ status = "ready"

\* A deployment that was accepted stays known, with its result, until MaxJobs
\* later ones were accepted ("without discarding a currently executing job").
AnswersStay ==
  [][\A j \in Known :
       /\ jobs'[j] = NoJob =>
            \/ Cardinality({k \in Known' : k > j}) = MaxJobs
            \/ op.pc = "thread" /\ j = operations
       /\ jobs[j].status \in {"ready", "failed"} => jobs'[j] \in {jobs[j], NoJob}]_vars

\* Every deployment ends, and then the lock of the emulator is free.
Underway(j) == jobs[j].status \in {"pending", "running"}
DeploymentsEnd ==
  (\E j \in Numbers : Underway(j)) ~> (op = Free /\ ~ \E j \in Numbers : Underway(j))

\* A command on a terminal that was closed ends, also when it was looked up
\* or started while the terminal was being closed.
StoppedCommandsEnd ==
  \A u \in Users : (cmd[u].cli \in stopped) ~> (cmd[u] = NoCmd)
=============================================================================
