--------------------------- MODULE ProgramBuilds ---------------------------
(***************************************************************************)
(* Tofino program builds (backend/api/program_builds.py): asynchronous     *)
(* compilation into one directory per job, the cleanup that deletes        *)
(* superseded builds when a compilation ends, and the requests that load,  *)
(* record, copy and forget builds at the same time: POST /init             *)
(* (endpoints/init.py), POST and DELETE /saved, DELETE /history and the    *)
(* switch connections.  The database and the build directories survive a   *)
(* restart of the backend; jobs, pins and connections do not.              *)
(*                                                                         *)
(* A removal of a switch connection is one step here (it waits for the     *)
(* switch's operation lock, as TofinoTarget.shutdown does).                *)
(***************************************************************************)
EXTENDS Integers, FiniteSets

CONSTANTS
  Builds,     \* job identifiers; one names the directory of its build
  Programs,   \* (target, architecture, source): what makes builds comparable
  Times,      \* values of created_at; the wall clock may repeat or step back
  Rows,       \* primary keys of TableStates
  Switches,   \* device ids of Tofino switches
  Requests,   \* concurrent POST /init requests
  Savers,     \* concurrent POST /saved requests
  NoBuild, NoRow, NoSwitch, NoRequest

ASSUME TimesAssumption   == Times \subseteq Nat
ASSUME NoBuildAssumption == NoBuild \notin Builds
ASSUME FiniteAssumption  == IsFiniteSet(Requests)

VARIABLES
  disk,       \* what the build directory holds
  program,    \* the program a build was compiled from
  created,    \* created_at in its manifest
  job,        \* progress of the job's thread; "none": unknown to BuildJobs
  pins,       \* _PINNED, a counter per manifest
  cleaner,    \* the job that holds _PRUNE_LOCK for cleanup, or NoBuild
  stage,      \* how far that cleanup is
  kept,       \* `referenced` of prune_builds: what this cleanup must keep
  connected,  \* switches in controller.switch_configs
  running,    \* program_manifest of each switch
  oplock,     \* the request that holds a switch's operation_lock
  req,        \* POST /init requests
  rows,       \* rows of TableStates: the build they replay, and location
  saver,      \* POST /saved requests
  unanchored  \* auxiliary: rows written when nothing kept their build

buildVars   == <<disk, program, created, job>>
cleanVars   == <<cleaner, stage, kept>>
switchVars  == <<connected, running, oplock>>
rowVars     == <<rows, unanchored>>
vars == <<buildVars, pins, cleanVars, switchVars, req, rowVars, saver>>

ActiveJob == {"pending", "compiling", "built", "cleaning", "cleaned"}
HoldsPin  == {"pinned", "sent", "loaded", "copying", "unpin"}

Row  == [build : Builds, saved : BOOLEAN]
Idle == [stage |-> "idle", switch |-> NoSwitch, build |-> NoBuild,
         src |-> NoRow, copy |-> NoBuild]
IdleSaver == [stage |-> "idle", build |-> NoBuild, over |-> NoRow]

InitRequest == [stage  : {"idle", "entered"} \cup HoldsPin,
                switch : Switches \cup {NoSwitch},
                build  : Builds \cup {NoBuild},
                src    : Rows \cup {NoRow},   \* the state to re-initialize
                copy   : Builds \cup {NoBuild}]
SaveRequest == [stage : {"idle", "writing"},
                build : Builds \cup {NoBuild},
                over  : Rows \cup {NoRow}]    \* the saved state to overwrite

TypeOK ==
  /\ disk \in [Builds -> {"unused", "partial", "ready", "removed", "pruned"}]
  /\ program \in [Builds -> Programs]
  /\ created \in [Builds -> Times \cup {0}]
  /\ job \in [Builds -> ActiveJob \cup {"none", "complete", "failed"}]
  /\ pins \in [Builds -> Nat]
  /\ cleaner \in Builds \cup {NoBuild}
  /\ stage \in {"idle", "rows", "switches", "pins", "delete"}
  /\ kept \subseteq Builds
  /\ connected \subseteq Switches
  /\ running \in [Switches -> Builds \cup {NoBuild}]
  /\ oplock \in [Switches -> Requests \cup {NoRequest}]
  /\ req \in [Requests -> InitRequest]
  /\ rows \in [Rows -> Row \cup {NoRow}]
  /\ saver \in [Savers -> SaveRequest]
  /\ unanchored \subseteq Rows

Stored == {s \in Rows : rows[s] # NoRow}

(* A build is loadable when its manifest and artifacts pass validate_bundle. *)
Loadable(b) == disk[b] = "ready"

(***************************************************************************)
(* The backend starts on whatever the database and the build directory     *)
(* hold; the empty installation is the first such state.                   *)
(***************************************************************************)
Init ==
  /\ disk = [b \in Builds |-> "unused"]
  /\ program \in [Builds -> Programs]
  /\ created = [b \in Builds |-> 0]
  /\ job = [b \in Builds |-> "none"]
  /\ pins = [b \in Builds |-> 0]
  /\ cleaner = NoBuild /\ stage = "idle" /\ kept = {}
  /\ connected = {}
  /\ running = [w \in Switches |-> NoBuild]
  /\ oplock = [w \in Switches |-> NoRequest]
  /\ req = [r \in Requests |-> Idle]
  /\ rows = [s \in Rows |-> NoRow]
  /\ saver = [v \in Savers |-> IdleSaver]
  /\ unanchored = {}

-----------------------------------------------------------------------------
(* BuildJobs.start and BuildJobs._compile.                                 *)

\* start() refuses while another job is pending or running.
StartBuild(b) ==
  /\ disk[b] = "unused" /\ job[b] = "none"
  /\ \A c \in Builds : job[c] \notin ActiveJob
  /\ job' = [job EXCEPT ![b] = "pending"]
  /\ UNCHANGED <<disk, program, created, pins, cleanVars, switchVars, req, rowVars, saver>>

\* status 'running', then the directory and the frozen sources.
CompileBegin(b) ==
  /\ job[b] = "pending"
  /\ job' = [job EXCEPT ![b] = "compiling"]
  /\ disk' = [disk EXCEPT ![b] = "partial"]
  /\ UNCHANGED <<program, created, pins, cleanVars, switchVars, req, rowVars, saver>>

\* The compiler answered: checksums and manifest.json are written.
WriteManifest(b, t) ==
  /\ job[b] = "compiling"
  /\ job' = [job EXCEPT ![b] = "built"]
  /\ disk' = [disk EXCEPT ![b] = "ready"]
  /\ created' = [created EXCEPT ![b] = t]
  /\ UNCHANGED <<program, pins, cleanVars, switchVars, req, rowVars, saver>>

\* Any error before the manifest is valid removes the directory.
CompileFail(b) ==
  /\ job[b] \in {"pending", "compiling"}
  /\ job' = [job EXCEPT ![b] = "failed"]
  /\ disk' = [disk EXCEPT ![b] = "removed"]
  /\ UNCHANGED <<program, created, pins, cleanVars, switchVars, req, rowVars, saver>>

JobComplete(b) ==
  /\ job[b] = "cleaned"
  /\ job' = [job EXCEPT ![b] = "complete"]
  /\ UNCHANGED <<disk, program, created, pins, cleanVars, switchVars, req, rowVars, saver>>

-----------------------------------------------------------------------------
(* prune_builds and referenced_builds.  The lock is held from CleanBegin to *)
(* CleanEnd; use_build cannot pin or unpin in between.                      *)

CleanBegin(b) ==
  /\ job[b] = "built"
  /\ cleaner = NoBuild
  /\ cleaner' = b /\ stage' = "rows" /\ kept' = {}
  /\ job' = [job EXCEPT ![b] = "cleaning"]
  /\ UNCHANGED <<disk, program, created, pins, switchVars, req, rowVars, saver>>

\* The saved states alone, as if history states were never replayed.
SavedReferences == {rows[s].build : s \in {x \in Stored : rows[x].saved}}
RowReferences   == {rows[s].build : s \in Stored}

CleanReadRows ==
  /\ stage = "rows"
  /\ kept' = kept \cup RowReferences
  /\ stage' = "switches"
  /\ UNCHANGED <<buildVars, pins, cleaner, switchVars, req, rowVars, saver>>

\* Faulty: switches are not asked; or each is asked under its operation lock.
NoSwitchReferences == {}
SwitchReferences == {running[w] : w \in {x \in connected : running[x] # NoBuild}}

CleanAskSwitches ==
  /\ stage = "switches"
  /\ \A w \in connected : oplock[w] = NoRequest
  /\ kept' = kept \cup SwitchReferences
  /\ stage' = "pins"
  /\ UNCHANGED <<buildVars, pins, cleaner, switchVars, req, rowVars, saver>>

CleanReadSwitches ==
  /\ stage = "switches"
  /\ kept' = kept \cup SwitchReferences
  /\ stage' = "pins"
  /\ UNCHANGED <<buildVars, pins, cleaner, switchVars, req, rowVars, saver>>

CleanReadPins ==
  /\ stage = "pins"
  /\ kept' = kept \cup {b \in Builds : pins[b] > 0}
  /\ stage' = "delete"
  /\ UNCHANGED <<buildVars, pins, cleaner, switchVars, req, rowVars, saver>>

\* Faulty: of two builds of the same moment, each is older.
IsNotNewer(v, b)   == program[v] = program[b] /\ created[v] <= created[b]
IsSuperseded(v, b) == program[v] = program[b] /\ created[v] < created[b]

\* One iteration of the loop over the manifests.
CleanDelete(v) ==
  /\ stage = "delete"
  /\ v # cleaner /\ v \notin kept
  /\ Loadable(v) /\ IsSuperseded(v, cleaner)
  /\ disk' = [disk EXCEPT ![v] = "pruned"]
  /\ UNCHANGED <<program, created, job, pins, cleanVars, switchVars, req, rowVars, saver>>

\* Faulty: the lock is not released.
CleanStop ==
  /\ cleaner # NoBuild /\ stage # "idle"
  /\ job' = [job EXCEPT ![cleaner] = "cleaned"]
  /\ stage' = "idle" /\ kept' = {}
  /\ UNCHANGED <<disk, program, created, pins, cleaner, switchVars, req, rowVars, saver>>

\* The loop is over (rmtree ignores errors, so a build may stay), or reading
\* the references failed and nothing is deleted.
CleanEnd ==
  /\ cleaner # NoBuild
  /\ job' = [job EXCEPT ![cleaner] = "cleaned"]
  /\ cleaner' = NoBuild /\ stage' = "idle" /\ kept' = {}
  /\ UNCHANGED <<disk, program, created, pins, switchVars, req, rowVars, saver>>

-----------------------------------------------------------------------------
(* Rows of TableStates.                                                     *)

\* Something else keeps b: a pin, or a row that was itself kept when written.
Anchored(b) ==
  \/ pins[b] > 0
  \/ \E s \in Stored \ unanchored : rows[s].build = b

WriteRow(s, b, saved) ==
  /\ rows' = [rows EXCEPT ![s] = [build |-> b, saved |-> saved]]
  /\ unanchored' = IF Anchored(b) THEN unanchored \ {s} ELSE unanchored \cup {s}

DeleteRow(s) ==
  /\ s \in Stored
  /\ rows' = [rows EXCEPT ![s] = NoRow]
  /\ unanchored' = unanchored \ {s}
  /\ UNCHANGED <<buildVars, pins, cleanVars, switchVars, req, saver>>

\* POST /saved: the state to save, and a saved state of that name if any.
SaveQuery(v, s, over) ==
  /\ saver[v].stage = "idle"
  /\ s \in Stored
  /\ over = NoRow \/ (over \in Stored /\ rows[over].saved)
  /\ saver' = [saver EXCEPT ![v] = [stage |-> "writing", build |-> rows[s].build, over |-> over]]
  /\ UNCHANGED <<buildVars, pins, cleanVars, switchVars, req, rowVars>>

\* Updating a row that is gone raises StaleDataError and writes nothing.
SaveCommit(v) ==
  /\ saver[v].stage = "writing"
  /\ \/ /\ saver[v].over = NoRow
        /\ \E s \in Rows \ Stored : WriteRow(s, saver[v].build, TRUE)
     \/ /\ saver[v].over \in Stored
        /\ WriteRow(saver[v].over, saver[v].build, TRUE)
     \/ /\ saver[v].over # NoRow /\ saver[v].over \notin Stored
        /\ UNCHANGED rowVars
  /\ saver' = [saver EXCEPT ![v] = IdleSaver]
  /\ UNCHANGED <<buildVars, pins, cleanVars, switchVars, req>>

-----------------------------------------------------------------------------
(* POST /init for a Tofino switch.                                          *)

\* SwitchEndpoint.dispatch_request takes the operation lock; the build comes
\* from program_id or from the state to re-initialize.
InitBegin(r, w, b, s) ==
  /\ req[r].stage = "idle"
  /\ w \in connected /\ oplock[w] = NoRequest
  /\ IF s = NoRow THEN disk[b] # "unused" ELSE s \in Stored /\ rows[s].build = b
  /\ oplock' = [oplock EXCEPT ![w] = r]
  /\ req' = [req EXCEPT ![r] = [stage |-> "entered", switch |-> w, build |-> b,
                                src |-> s, copy |-> NoBuild]]
  /\ UNCHANGED <<buildVars, pins, cleanVars, connected, running, rowVars, saver>>

\* use_build: validate and pin under the cleanup lock.
InitPin(r) ==
  LET b == req[r].build IN
  /\ req[r].stage = "entered"
  /\ cleaner = NoBuild
  /\ \/ /\ Loadable(b)
        /\ pins' = [pins EXCEPT ![b] = @ + 1]
        /\ req' = [req EXCEPT ![r].stage = "pinned"]
        /\ UNCHANGED oplock
     \/ /\ ~Loadable(b)
        /\ oplock' = [oplock EXCEPT ![req[r].switch] = NoRequest]
        /\ req' = [req EXCEPT ![r] = Idle]
        /\ UNCHANGED pins
  /\ UNCHANGED <<buildVars, cleanVars, connected, running, rowVars, saver>>

\* BfRtClient.initialize_bundle has read the artifacts: _clear_program, RPC.
InitSend(r) ==
  /\ req[r].stage = "pinned"
  /\ running' = [running EXCEPT ![req[r].switch] = NoBuild]
  /\ req' = [req EXCEPT ![r].stage = "sent"]
  /\ UNCHANGED <<buildVars, pins, cleanVars, connected, oplock, rowVars, saver>>

InitLoaded(r) ==
  /\ req[r].stage = "sent"
  /\ running' = [running EXCEPT ![req[r].switch] = req[r].build]
  /\ req' = [req EXCEPT ![r].stage = "loaded"]
  /\ UNCHANGED <<buildVars, pins, cleanVars, connected, oplock, rowVars, saver>>

\* A new history state is committed.
InitRecord(r) ==
  /\ req[r].stage = "loaded" /\ req[r].src = NoRow
  /\ \E s \in Rows \ Stored : WriteRow(s, req[r].build, FALSE)
  /\ req' = [req EXCEPT ![r].stage = "unpin"]
  /\ UNCHANGED <<buildVars, pins, cleanVars, switchVars, saver>>

\* last_init of the state is committed.  A history state is reused; a saved
\* one is read again, as it is now, to be copied.
InitTouch(r) ==
  LET s == req[r].src IN
  /\ req[r].stage = "loaded" /\ s \in Stored
  /\ req' = IF rows[s].saved
            THEN [req EXCEPT ![r].stage = "copying", ![r].copy = rows[s].build]
            ELSE [req EXCEPT ![r].stage = "unpin"]
  /\ UNCHANGED <<buildVars, pins, cleanVars, switchVars, rowVars, saver>>

\* copy_state: the copy of a saved state becomes the switch's history state.
InitCopy(r) ==
  /\ req[r].stage = "copying"
  /\ \E s \in Rows \ Stored : WriteRow(s, req[r].copy, FALSE)
  /\ req' = [req EXCEPT ![r].stage = "unpin"]
  /\ UNCHANGED <<buildVars, pins, cleanVars, switchVars, saver>>

\* Any error of the request: the pin is released all the same.
InitFail(r) ==
  /\ req[r].stage \in HoldsPin \ {"unpin"}
  /\ req' = [req EXCEPT ![r].stage = "unpin"]
  /\ UNCHANGED <<buildVars, pins, cleanVars, switchVars, rowVars, saver>>

\* Faulty: leaving one use_build block forgets the pins of the others.
Forgotten(b) == [pins EXCEPT ![b] = 0]
Released(b)  == [pins EXCEPT ![b] = @ - 1]

\* builds.close() in the `finally`, then the operation lock is released.
InitUnpin(r) ==
  /\ req[r].stage = "unpin"
  /\ cleaner = NoBuild
  /\ pins' = Released(req[r].build)
  /\ oplock' = [oplock EXCEPT ![req[r].switch] = NoRequest]
  /\ req' = [req EXCEPT ![r] = Idle]
  /\ UNCHANGED <<buildVars, cleanVars, connected, running, rowVars, saver>>

-----------------------------------------------------------------------------
(* Switch connections and the process.                                      *)

\* addSwitchConnection: a new target object reports no program manifest.
Connect(w) ==
  /\ w \notin connected
  /\ connected' = connected \cup {w}
  /\ running' = [running EXCEPT ![w] = NoBuild]
  /\ UNCHANGED <<buildVars, pins, cleanVars, oplock, req, rowVars, saver>>

Disconnect(w) ==
  /\ w \in connected /\ oplock[w] = NoRequest
  /\ connected' = connected \ {w}
  /\ UNCHANGED <<buildVars, pins, cleanVars, running, oplock, req, rowVars, saver>>

\* The backend process ends at any point and starts again.
Restart ==
  /\ job' = [b \in Builds |-> "none"]
  /\ pins' = [b \in Builds |-> 0]
  /\ cleaner' = NoBuild /\ stage' = "idle" /\ kept' = {}
  /\ connected' = {}
  /\ running' = [w \in Switches |-> NoBuild]
  /\ oplock' = [w \in Switches |-> NoRequest]
  /\ req' = [r \in Requests |-> Idle]
  /\ saver' = [v \in Savers |-> IdleSaver]
  /\ UNCHANGED <<disk, program, created, rowVars>>

-----------------------------------------------------------------------------
Compile(b) ==
  \/ CompileBegin(b)
  \/ \E t \in Times : WriteManifest(b, t)
  \/ CompileFail(b)
  \/ CleanBegin(b)
  \/ JobComplete(b)

Cleanup ==
  \/ CleanReadRows \/ CleanReadSwitches \/ CleanReadPins
  \/ \E v \in Builds : CleanDelete(v)
  \/ CleanEnd

Initialize(r) ==
  \/ InitPin(r) \/ InitSend(r) \/ InitLoaded(r)
  \/ InitRecord(r) \/ InitTouch(r) \/ InitCopy(r)
  \/ InitFail(r) \/ InitUnpin(r)

Next ==
  \/ \E b \in Builds : StartBuild(b) \/ Compile(b)
  \/ Cleanup
  \/ \E r \in Requests, w \in Switches, b \in Builds, s \in Rows \cup {NoRow} :
        InitBegin(r, w, b, s)
  \/ \E r \in Requests : Initialize(r)
  \/ \E s \in Rows : DeleteRow(s)
  \/ \E v \in Savers, s \in Rows, over \in Rows \cup {NoRow} : SaveQuery(v, s, over)
  \/ \E v \in Savers : SaveCommit(v)
  \/ \E w \in Switches : Connect(w) \/ Disconnect(w)
  \/ Restart

Spec == Init /\ [][Next]_vars

(***************************************************************************)
(* Threads that run keep running: the compile thread and its cleanup (the  *)
(* compiler answers or times out after 600 s), and a request's handler.    *)
(* Nothing obliges a user to start anything, or a cleanup to fail.         *)
(***************************************************************************)
Fairness ==
  /\ \A b \in Builds : WF_vars(Compile(b))
  /\ WF_vars(CleanReadRows \/ CleanReadSwitches \/ CleanReadPins \/ (stage = "delete" /\ CleanEnd))
  /\ \A r \in Requests : WF_vars(Initialize(r))

FairSpec == Spec /\ Fairness

-----------------------------------------------------------------------------
(***************************************************************************)
(* A build that a POST /init has pinned can be loaded until that request   *)
(* has released it, however cleanup, failures and the requests of other    *)
(* switches that use the same build interleave.                            *)
(***************************************************************************)
HeldBuildsLoadable ==
  \A r \in Requests : req[r].stage \in HoldsPin => Loadable(req[r].build)

(***************************************************************************)
(* A connected switch never reports a build that cleanup has deleted, even *)
(* when every state that recorded it is gone: it can be exported again.    *)
(***************************************************************************)
RunningBuildsLoadable ==
  \A w \in connected : running[w] # NoBuild => Loadable(running[w])

(***************************************************************************)
(* A history or saved state can be replayed, unless it was copied from a   *)
(* state that was deleted or overwritten while the copy was in flight.     *)
(***************************************************************************)
StatesReplayable == \A s \in Stored \ unanchored : Loadable(rows[s].build)

(***************************************************************************)
(* "Never neither" (program_builds.py:290), for all states: a build that a *)
(* state refers to is never deleted.  The copies of POST /saved break it.  *)
(***************************************************************************)
NeverNeither == \A s \in Stored : Loadable(rows[s].build)

(***************************************************************************)
(* Cleanup deletes only what a newer build of the same program supersedes, *)
(* and that build is still there: the newest one is never deleted.         *)
(***************************************************************************)
PrunedAreSuperseded ==
  \A v \in Builds : disk[v] = "pruned" =>
    \E b \in Builds : Loadable(b) /\ program[b] = program[v] /\ created[b] > created[v]

(***************************************************************************)
(* Every compilation ends: its cleanup, which holds the lock that requests *)
(* need while they hold operation locks, waits for none of them.           *)
(***************************************************************************)
JobsEnd == \A b \in Builds : job[b] = "pending" ~> job[b] \notin ActiveJob

(***************************************************************************)
(* An initialization ends, and gives its pin and the operation lock back.  *)
(***************************************************************************)
RequestsEnd == \A r \in Requests : req[r].stage = "entered" ~> req[r].stage = "idle"
=============================================================================
