---------------------------- MODULE NetworkImport ----------------------------
(***************************************************************************)
(* Import of a network archive: uploads are validated and staged under a   *)
(* token, requests to deploy a token reserve its stage under _STAGE_LOCK,  *)
(* take _DEPLOY_LOCK without waiting, replace the emulated network,        *)
(* restore the switch category by category and cache the result.           *)
(*                                                                         *)
(* The archive is the one NetworkSnapshot exports.  A synchronous request  *)
(* deploys itself; of an asynchronous one, the thread it starts goes on as *)
(* the same member of Requests.  Tokens are numbered in the order they     *)
(* were handed out, in which they also expire.                             *)
(***************************************************************************)
EXTENDS NetworkSnapshot, SequencesExt

CONSTANTS
  Requests,     \* requests to deploy that run at the same time
  NoRequest,
  MaxStaged,    \* 4
  MaxCompleted, \* 16
  MaxRetries,   \* 9 lost answers of the emulator in a row
  MaxTokens     \* bound of the model: uploads

ASSUME ImportAssumption ==
  /\ NoRequest \notin Requests
  /\ {MaxStaged, MaxCompleted, MaxTokens} \subseteq Nat \ {0} /\ MaxRetries \in Nat

VARIABLES
  tokens,     \* tokens handed out
  stages,     \* the tokens in _STAGES: their files exist
  inUse,      \* staged tokens with in_use and a deployment
  expired,    \* those of them that are past their time
  results,    \* the tokens in _RESULTS, oldest first
  lapsed,     \* as many of them are past their time
  deployLock, \* the holder of _DEPLOY_LOCK
  request,    \* what deploy_import does for each request
  device,     \* what the switch of the network that is being restored holds
  deployed    \* how often the archive of each token was deployed (history)

stageVars  == <<tokens, stages, inUse, expired, results, lapsed>>
deployVars == <<deployLock, request, device, deployed>>
vars == <<exportVars, stageVars, deployVars>>

Tokens == 1..MaxTokens
At(pc, t) == [pc |-> pc, token |-> t, retries |-> 0, next |-> 0, complete |-> FALSE]
Idle   == At("idle", 0)
Working == {"preparing", "loading", "polling", "connecting", "restoring", "finishing"}
Deployment == [pc : Working \cup {"reserved", "starting", "refused", "caching"}, token : Tokens,
               retries : 0..MaxRetries, next : 0..Len(Categories), complete : BOOLEAN]

TypeOK ==
  /\ ExportTypeOK
  /\ tokens \in 0..MaxTokens
  /\ stages \in SUBSET Tokens /\ inUse \in SUBSET Tokens /\ expired \in SUBSET Tokens
  /\ results \in Seq(Tokens) /\ Len(results) <= MaxCompleted /\ lapsed \in 0..Len(results)
  /\ deployLock \in Requests \cup {NoRequest}
  /\ request \in [Requests -> {Idle} \cup Deployment]
  /\ device \in SUBSET Entities
  /\ deployed \in [Tokens -> Nat]

Init ==
  /\ ExportInit
  /\ tokens = 0 /\ stages = {} /\ inUse = {} /\ expired = {} /\ results = <<>> /\ lapsed = 0
  /\ deployLock = NoRequest /\ request = [r \in Requests |-> Idle]
  /\ device = {} /\ deployed = [t \in Tokens |-> 0]

\* Time passes: the oldest stage or result that has not expired does.
Tick ==
  /\ \/ /\ \E t \in stages \ expired :
              /\ \A u \in stages \ expired : t <= u
              /\ expired' = expired \cup {t}
        /\ UNCHANGED lapsed
     \/ lapsed < Len(results) /\ lapsed' = lapsed + 1 /\ UNCHANGED expired
  /\ UNCHANGED <<exportVars, tokens, stages, inUse, results, deployVars>>

\* Faulty: a stage that is being deployed expires like any other.
KeptByTime == stages \ expired

\* _cleanup_stages: the stages and the results that it leaves.
Kept  == (stages \ expired) \cup (stages \cap inUse)
Fresh == SubSeq(results, lapsed + 1, Len(results))

CleanUpStages == results' = Fresh /\ lapsed' = 0 /\ expired' = expired \cap Kept

\* stage_import, unless too many are staged.
Stage ==
  /\ exported /\ Valid(rows) /\ tokens < MaxTokens /\ CleanUpStages
  /\ \/ Cardinality(Kept) < MaxStaged /\ stages' = Kept \cup {tokens + 1} /\ tokens' = tokens + 1
     \/ Cardinality(Kept) >= MaxStaged /\ stages' = Kept /\ UNCHANGED tokens
  /\ UNCHANGED <<exportVars, inUse, deployVars>>

\* deployment_status, and requests to deploy that end with what they find: a
\* result, a deployment under way, or a token nobody knows.
Status ==
  /\ CleanUpStages /\ stages' = Kept
  /\ UNCHANGED <<exportVars, tokens, inUse, deployVars>>

\* Faulty: a stage that is being deployed is reserved again.
ReserveAgain(r) ==
  /\ request[r] = Idle
  /\ \E t \in Kept \ ToSet(Fresh) :
        /\ inUse' = inUse \cup {t}
        /\ request' = [request EXCEPT ![r] = At("reserved", t)]
  /\ CleanUpStages /\ stages' = Kept
  /\ UNCHANGED <<exportVars, tokens, deployLock, device, deployed>>

\* A request finds a stage with no result that no other request deploys.
Reserve(r) ==
  /\ request[r] = Idle
  /\ \E t \in Kept \ (ToSet(Fresh) \cup inUse) :
        /\ inUse' = inUse \cup {t}
        /\ request' = [request EXCEPT ![r] = At("reserved", t)]
  /\ CleanUpStages /\ stages' = Kept
  /\ UNCHANGED <<exportVars, tokens, deployLock, device, deployed>>

Goes(r, pc) == request' = [request EXCEPT ![r].pc = pc]

\* _DEPLOY_LOCK is not waited for.
Acquire(r) ==
  /\ request[r].pc = "reserved"
  /\ \/ deployLock = NoRequest /\ deployLock' = r /\ \E pc \in {"preparing", "starting"} : Goes(r, pc)
     \/ deployLock # NoRequest /\ Goes(r, "refused") /\ UNCHANGED deployLock
  /\ UNCHANGED <<exportVars, stageVars, device, deployed>>

\* The thread of an asynchronous deployment starts, or cannot be started.
StartThread(r) ==
  /\ request[r].pc = "starting"
  /\ \/ Goes(r, "preparing") /\ UNCHANGED deployLock
     \/ deployLock' = NoRequest /\ Goes(r, "refused")
  /\ UNCHANGED <<exportVars, stageVars, device, deployed>>

\* Faulty: a request that did not get _DEPLOY_LOCK keeps its reservation.
KeepReservation(r) ==
  /\ request[r].pc = "refused"
  /\ request' = [request EXCEPT ![r] = Idle]
  /\ UNCHANGED <<exportVars, stageVars, deployLock, device, deployed>>

\* The reservation is given up, under _STAGE_LOCK again.
Unreserve(r) ==
  /\ request[r].pc = "refused"
  /\ inUse' = inUse \ {request[r].token}
  /\ request' = [request EXCEPT ![r] = Idle]
  /\ UNCHANGED <<exportVars, tokens, stages, expired, results, lapsed, deployLock, device, deployed>>

\* An exception in _deploy_reserved: the result is partial.
Fails(r) == request' = [request EXCEPT ![r].pc = "finishing", ![r].complete = FALSE, ![r].retries = 0]

\* The staged files are compared with their hashes and copied, the topology
\* is written, and every connection is closed.
Prepare(r) ==
  /\ request[r].pc = "preparing"
  /\ \/ request[r].token \in stages /\ \E pc \in {"loading", "polling"} : Goes(r, pc)
     \/ Fails(r)
  /\ deployed' = [deployed EXCEPT ![request[r].token] = @ + 1]
  /\ UNCHANGED <<exportVars, stageVars, deployLock, device>>

\* POST /topology/load, for networks without Tofino switches, replaces the
\* network or not.
Load(r) ==
  /\ request[r].pc = "loading"
  /\ Goes(r, "connecting") \/ Fails(r)
  /\ UNCHANGED <<exportVars, stageVars, deployLock, device, deployed>>

\* One round of the loop that follows a deployment of the emulator: it is
\* lost, it is not over, it failed, or the network is ready.
Poll(r) ==
  /\ request[r].pc = "polling"
  /\ \/ request[r].retries < MaxRetries /\ request' = [request EXCEPT ![r].retries = @ + 1]
     \/ request' = [request EXCEPT ![r].retries = 0]
     \/ Fails(r)
     \/ request' = [request EXCEPT ![r].pc = "connecting", ![r].retries = 0]
  /\ UNCHANGED <<exportVars, stageVars, deployLock, device, deployed>>

\* The loop's time is over.
Deadline(r) ==
  /\ request[r].pc = "polling" /\ Fails(r)
  /\ UNCHANGED <<exportVars, stageVars, deployLock, device, deployed>>

\* restore_switch connects and installs the pipeline with its constant entries.
Connect(r) ==
  /\ request[r].pc = "connecting"
  /\ \/ /\ request' = [request EXCEPT ![r].pc = "restoring", ![r].next = 1, ![r].complete = TRUE]
        /\ device' = ConstEntries
     \/ Fails(r) /\ UNCHANGED device
  /\ UNCHANGED <<exportVars, stageVars, deployLock, deployed>>

\* Entries of the category that is next; constant ones are skipped.
Entries(r) == Of(rows, Categories[request[r].next]) \ ConstEntries

\* The category's entries are written one by one.  The switch refuses those
\* that refer to something it does not hold; any write may fail or lose its
\* answer, and some errors end the category.
WriteCategory(r) ==
  /\ request[r].pc = "restoring"
  /\ \E written \in SUBSET {e \in Entries(r) : Needs[e] \subseteq device} :
        /\ device' = device \cup written
        /\ \E complete \in {FALSE} \cup (IF written = Entries(r) THEN {request[r].complete} ELSE {}),
              last \in {request[r].next = Len(Categories)} :
              request' = [request EXCEPT
                ![r].pc = IF last THEN "finishing" ELSE @,
                ![r].next = IF last THEN @ ELSE @ + 1,
                ![r].complete = complete /\ (last => ok)]
  /\ UNCHANGED <<exportVars, stageVars, deployLock, deployed>>

\* `finally`: first _DEPLOY_LOCK is released (from here on the network is its
\* users', and what its switch holds is not followed) ...
Finish(r) ==
  /\ request[r].pc = "finishing"
  /\ deployLock' = NoRequest /\ device' = {}
  /\ request' = [request EXCEPT ![r] = At("caching", request[r].token)]
  /\ UNCHANGED <<exportVars, stageVars, deployed>>

\* ... then, under _STAGE_LOCK, the result takes the place of the stage.
Cache(r) ==
  /\ request[r].pc = "caching"
  /\ stages' = stages \ {request[r].token} /\ inUse' = inUse \ {request[r].token}
  /\ expired' = expired \ {request[r].token}
  /\ LET all == Append(results, request[r].token)
         evicted == Len(all) - MaxCompleted
     IN IF evicted > 0
        THEN /\ results' = SubSeq(all, evicted + 1, Len(all))
             /\ lapsed' = IF lapsed > evicted THEN lapsed - evicted ELSE 0
        ELSE results' = all /\ UNCHANGED lapsed
  /\ request' = [request EXCEPT ![r] = Idle]
  /\ UNCHANGED <<exportVars, tokens, deployLock, device, deployed>>

Continue(r) ==
  \/ Acquire(r) \/ StartThread(r) \/ Unreserve(r) \/ Prepare(r) \/ Load(r) \/ Poll(r)
  \/ Connect(r) \/ WriteCategory(r) \/ Finish(r) \/ Cache(r)

Next ==
  \/ Export /\ UNCHANGED <<stageVars, deployVars>>
  \/ Tick \/ Stage \/ Status
  \/ \E r \in Requests : Reserve(r) \/ Continue(r) \/ Deadline(r)

Spec == Init /\ [][Next]_vars

\* A deployment that has begun goes on, and the polling loop's clock runs.
FairSpec ==
  Spec /\ \A r \in Requests : WF_vars(Continue(r)) /\ WF_vars(Deadline(r))
------------------------------------------------------------------------------
\* What was on the exported switch all through the capture, and whatever else
\* was read from it, is on the restored one when the deployment reports
\* `complete`: the report hides no read that failed, no entry that was
\* omitted and no write that failed.
CompleteIsFaithful ==
  \A r \in Requests :
    request[r].pc = "finishing" /\ request[r].complete => owed \subseteq device

\* Entries are restored after what they refer to: as long as no write has
\* failed, the switch has no reason to refuse one.
ReferencesRestored ==
  \A r \in Requests :
    request[r].pc = "restoring" /\ request[r].complete
      => \A e \in Entries(r) : Needs[e] \subseteq device

\* A token's archive replaces the network at most once, however often it is
\* requested and whatever expires meanwhile, and its files stay until that
\* deployment is over.
DeployedOnce ==
  /\ \A t \in Tokens : deployed[t] <= 1
  /\ inUse \subseteq stages

\* Reservations end, so that no stage is occupied for ever: one that is in
\* use does not expire.
ReservationsEnd == \A t \in Tokens : t \in inUse ~> t \notin inUse
==============================================================================
