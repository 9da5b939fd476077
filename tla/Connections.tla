---------------------------- MODULE Connections ----------------------------
(***************************************************************************)
(* The switch connections of the controller and the locks of the requests  *)
(* that use, add and remove them (backend/controller/controller.py, the    *)
(* SwitchEndpoint of api/endpoints/Endpoint.py, switchesactive.py,         *)
(* switchesknown.py, switchesfromtopology.py, init.py and restore_switch   *)
(* of api/network_archive.py).                                             *)
(*                                                                         *)
(* Adding and removing hold connections_lock, and removing a Tofino waits  *)
(* for its operation_lock while it does.  A request for a Tofino reads the *)
(* connection under the first lock, then waits for the second.  Who holds  *)
(* a lock follows from where the requests are: see ConnectionsFree, Holds. *)
(***************************************************************************)
EXTENDS Integers, FiniteSets

CONSTANTS
  Ids,      \* device ids
  Native,   \* those of a Tofino
  Requests,
  Retries,  \* AUTOCONNECT_RETRIES
  NoId

ASSUME NativeAssumption  == Native \subseteq Ids /\ NoId \notin Ids
ASSUME RetriesAssumption == Retries \in Nat \ {0}
ASSUME IdsAssumption     == IsFiniteSet(Ids)

VARIABLES
  registered, \* switch_configs: the connection of each id; 0 without one
  open,       \* connections with an open channel
  created,    \* connections made so far; they are numbered
  req,        \* the requests
  reopened    \* auxiliary: connections an initialization opened again

vars == <<registered, open, created, req, reopened>>

Kinds == {"operate", "initialize", "add", "remove", "removeAll", "topology", "import"}

\* `remove` and `add` are the ids a request still removes, then adds, and `made`
\* those it added; `closing` those it still closes under connections_lock; `id`
\* and `conn` what it is at.
Request ==
  [kind : Kinds \cup {"none"},
   pc : {"idle", "snapshot", "waiting", "admitted", "serving", "list", "all", "next", "closing",
         "connecting", "added", "restoring", "loading", "done"},
   remove : SUBSET Ids, add : SUBSET Ids, made : SUBSET Ids, closing : SUBSET Ids,
   id : Ids \cup {NoId}, conn : Nat, tries : 0..(Retries - 1)]

TypeOK ==
  /\ registered \in [Ids -> Nat]
  /\ open \subseteq Nat /\ reopened \subseteq Nat
  /\ created \in Nat
  /\ req \in [Requests -> Request]

Registered == {i \in Ids : registered[i] # 0}

Idle == [kind |-> "none", pc |-> "idle", remove |-> {}, add |-> {}, made |-> {}, closing |-> {},
         id |-> NoId, conn |-> 0, tries |-> 0]

\* Some switches are connected; a Tofino may have lost its channel when an
\* initialization failed.
Init ==
  /\ created = Cardinality(Ids)
  /\ registered \in {f \in [Ids -> 0..Cardinality(Ids)] :
                       \A i, j \in Ids : i # j /\ f[i] = f[j] => f[i] = 0}
  /\ \E lost \in SUBSET (Registered \cap Native) :
       open = {registered[i] : i \in Registered \ lost}
  /\ req = [r \in Requests |-> Idle]
  /\ reopened = {}

-----------------------------------------------------------------------------
(* The locks.                                                               *)

ConnectionsFree == \A r \in Requests : req[r].pc \notin {"closing", "connecting"}

\* r holds the operation_lock of connection c.
Holds(r, c) == req[r].conn = c /\ req[r].pc \in {"admitted", "serving", "loading"}
Free(c)     == \A r \in Requests : ~Holds(r, c)

Becomes(r, q) == req' = [req EXCEPT ![r] = q]
Goes(r, pc)   == Becomes(r, [req[r] EXCEPT !.pc = pc])
Ends(r)       == Becomes(r, [Idle EXCEPT !.pc = "done"])
Connections   == <<registered, open, created, reopened>>

-----------------------------------------------------------------------------
(* What a request does.  A topology or an import replaces the connections.  *)

Begin(r, k, i, I) ==
  LET new == [Idle EXCEPT !.kind = k] IN
  /\ req[r].pc = "idle"
  /\ CASE k \in {"operate", "initialize"} ->
            Becomes(r, [new EXCEPT !.pc = "snapshot", !.id = i])
       [] k = "add"       -> Becomes(r, [new EXCEPT !.pc = "next", !.add = {i}])
       [] k = "remove"    -> Becomes(r, [new EXCEPT !.pc = "next", !.remove = {i}])
       [] k = "removeAll" -> Becomes(r, [new EXCEPT !.pc = "all"])
       [] k = "topology"  -> Becomes(r, [new EXCEPT !.pc = "list", !.add = I])
       [] k = "import"    -> \* one at a time: _DEPLOY_LOCK
            /\ \A s \in Requests : req[s].kind # "import"
            /\ Becomes(r, [new EXCEPT !.pc = "all", !.add = I])
  /\ UNCHANGED Connections

Finish(r) ==
  /\ req[r].pc = "next" /\ req[r].remove = {} /\ req[r].add = {}
  /\ Ends(r)
  /\ UNCHANGED Connections

-----------------------------------------------------------------------------
(* SwitchEndpoint.dispatch_request and the handler it calls.                *)

Snapshot(r) ==
  LET i == req[r].id IN
  /\ req[r].pc = "snapshot" /\ ConnectionsFree
  /\ IF i \in Native /\ registered[i] # 0
     THEN Becomes(r, [req[r] EXCEPT !.pc = "waiting", !.conn = registered[i]])
     ELSE Ends(r)      \* served without a lock, or refused
  /\ UNCHANGED Connections

Admit(r) ==
  /\ req[r].pc = "waiting" /\ Free(req[r].conn)
  /\ Goes(r, "admitted")
  /\ UNCHANGED Connections

\* Faulty: the connection is looked up under connections_lock again.
RecheckLocked(r) ==
  /\ req[r].pc = "admitted" /\ ConnectionsFree
  /\ IF registered[req[r].id] = req[r].conn THEN Goes(r, "serving") ELSE Ends(r)
  /\ UNCHANGED Connections

Recheck(r) ==
  /\ req[r].pc = "admitted"
  /\ IF registered[req[r].id] = req[r].conn THEN Goes(r, "serving") ELSE Ends(r)
  /\ UNCHANGED Connections

Serve(r) ==
  /\ req[r].pc = "serving" /\ req[r].kind = "operate"
  /\ Ends(r)
  /\ UNCHANGED Connections

\* initialize_bundle of connection c: it is connected, also when it had no
\* channel; a failure may leave it without one, or change nothing.
Load(c) ==
  /\ \/ open' = open \cup {c} /\ reopened' = reopened \cup ({c} \ open)
     \/ open' = open \ {c} /\ UNCHANGED reopened
  /\ UNCHANGED <<registered, created>>

\* POST /init looks the connection up once more, and locks what it finds.
Initialize(r) ==
  LET c == registered[req[r].id] IN
  /\ req[r].pc = "serving" /\ req[r].kind = "initialize"
  /\ IF c = 0
     THEN UNCHANGED Connections
     ELSE /\ \A s \in Requests \ {r} : ~Holds(s, c)
          /\ Load(c)
  /\ Ends(r)

-----------------------------------------------------------------------------
(* deleteSwitchConnection, deleteAllSwitchConnections.                      *)

\* getSwitchConnections, by the handler of a topology.
List(r) ==
  /\ req[r].pc = "list" /\ ConnectionsFree
  /\ Becomes(r, [req[r] EXCEPT !.pc = "next", !.remove = Registered])
  /\ UNCHANGED Connections

RemoveAllBegin(r) ==
  /\ req[r].pc = "all" /\ ConnectionsFree
  /\ Becomes(r, [req[r] EXCEPT !.pc = "closing", !.id = NoId, !.closing = Registered])
  /\ UNCHANGED Connections

\* Without a connection a KeyError ends the request.
RemoveBegin(r, i) ==
  /\ req[r].pc = "next" /\ i \in req[r].remove /\ ConnectionsFree
  /\ IF registered[i] = 0
     THEN Ends(r)
     ELSE Becomes(r, [req[r] EXCEPT !.pc = "closing", !.id = i, !.closing = {i}])
  /\ UNCHANGED Connections

\* A roll-back first looks whether there is one.
RemoveSkip(r, i) ==
  /\ req[r].pc = "next" /\ i \in req[r].remove \cap req[r].made /\ registered[i] = 0
  /\ Becomes(r, [req[r] EXCEPT !.remove = @ \ {i}])
  /\ UNCHANGED Connections

\* Faulty: a Tofino is shut down without its operation_lock.
MayCloseAny(i) == TRUE
MayClose(i)    == i \in Native => Free(registered[i])

Close(r, i) ==
  /\ req[r].pc = "closing" /\ i \in req[r].closing /\ MayClose(i)
  /\ open' = open \ {registered[i]}
  /\ Becomes(r, [req[r] EXCEPT !.closing = @ \ {i}])
  /\ UNCHANGED <<registered, created, reopened>>

\* The references go once every connection is closed.
Forget(r) ==
  LET gone == IF req[r].id = NoId THEN Ids ELSE {req[r].id} IN
  /\ req[r].pc = "closing" /\ req[r].closing = {}
  /\ registered' = [i \in Ids |-> IF i \in gone THEN 0 ELSE registered[i]]
  /\ Becomes(r, [req[r] EXCEPT !.pc = "next", !.remove = @ \ gone])
  /\ UNCHANGED <<open, created, reopened>>

-----------------------------------------------------------------------------
(* addSwitchConnection and what its callers do with the connection.         *)

\* An import goes on with its next switch; the others remove what they made.
GivesUp(r, i) ==
  Becomes(r, IF req[r].kind = "import"
             THEN [req[r] EXCEPT !.pc = "next", !.add = @ \ {i}, !.tries = 0]
             ELSE [req[r] EXCEPT !.pc = "next", !.add = {}, !.remove = req[r].made, !.tries = 0])

AddBegin(r, i) ==
  /\ req[r].pc = "next" /\ req[r].remove = {} /\ i \in req[r].add /\ ConnectionsFree
  /\ IF registered[i] = 0
     THEN Becomes(r, [req[r] EXCEPT !.pc = "connecting", !.id = i])
     ELSE GivesUp(r, i)    \* the id is taken
  /\ UNCHANGED Connections

Connected(r) ==
  LET i == req[r].id IN
  /\ req[r].pc = "connecting"
  /\ created' = created + 1
  /\ open' = open \cup {created + 1}
  /\ registered' = [registered EXCEPT ![i] = created + 1]
  /\ Becomes(r, [req[r] EXCEPT !.pc = "added", !.made = @ \cup {i}, !.tries = 0])
  /\ UNCHANGED reopened

RetriesLeft(n) == n < Retries - 1

\* Only the handler of a topology tries again.
AddFailed(r) ==
  IF req[r].kind = "topology" /\ RetriesLeft(req[r].tries)
  THEN \/ Becomes(r, [req[r] EXCEPT !.pc = "next", !.tries = @ + 1])
       \/ GivesUp(r, req[r].id)
  ELSE GivesUp(r, req[r].id)

\* Faulty: connect() leaves its channel open.
ConnectFailsOpen(r) ==
  /\ req[r].pc = "connecting"
  /\ created' = created + 1
  /\ open' = open \cup {created + 1}
  /\ AddFailed(r)
  /\ UNCHANGED <<registered, reopened>>

ConnectFails(r) ==
  /\ req[r].pc = "connecting"
  /\ AddFailed(r)
  /\ UNCHANGED Connections

\* The id of its database record is written to the connection, if there still
\* is one; POST /switches may have failed to commit that record.
Persist(r) ==
  LET i == req[r].id IN
  /\ req[r].pc = "added" /\ req[r].kind # "import"
  /\ \/ registered[i] # 0 /\ Becomes(r, [req[r] EXCEPT !.pc = "next", !.add = @ \ {i}])
     \/ registered[i] = 0 /\ GivesUp(r, i)
     \/ req[r].kind = "add" /\ GivesUp(r, i)
  /\ UNCHANGED Connections

\* restore_switch locks the connection it finds, without a second look.
RestoreBegin(r) ==
  LET i == req[r].id IN
  /\ req[r].pc = "added" /\ req[r].kind = "import"
  /\ IF i \in Native /\ registered[i] # 0
     THEN Becomes(r, [req[r] EXCEPT !.pc = "restoring", !.conn = registered[i]])
     ELSE Becomes(r, [req[r] EXCEPT !.pc = "next", !.add = @ \ {i}])
  /\ UNCHANGED Connections

RestoreAdmit(r) ==
  /\ req[r].pc = "restoring" /\ Free(req[r].conn)
  /\ Goes(r, "loading")
  /\ UNCHANGED Connections

Restore(r) ==
  /\ req[r].pc = "loading"
  /\ Load(req[r].conn)
  /\ Becomes(r, [req[r] EXCEPT !.pc = "next", !.add = @ \ {req[r].id}, !.conn = 0])

-----------------------------------------------------------------------------
Step(r) ==
  \/ Snapshot(r) \/ Admit(r) \/ Recheck(r) \/ Serve(r) \/ Initialize(r)
  \/ List(r) \/ RemoveAllBegin(r) \/ Forget(r)
  \/ \E i \in Ids : RemoveBegin(r, i) \/ RemoveSkip(r, i) \/ Close(r, i) \/ AddBegin(r, i)
  \/ Connected(r) \/ ConnectFails(r) \/ Persist(r)
  \/ RestoreBegin(r) \/ RestoreAdmit(r) \/ Restore(r)
  \/ Finish(r)

Next ==
  \E r \in Requests :
    \/ Step(r)
    \/ \E k \in Kinds, i \in Ids, I \in SUBSET Ids : Begin(r, k, i, I)

Spec == Init /\ [][Next]_vars

(***************************************************************************)
(* The thread of a request runs, and gets a lock that stays free.          *)
(***************************************************************************)
Fairness == \A r \in Requests : WF_vars(Step(r))

FairSpec == Spec /\ Fairness

-----------------------------------------------------------------------------
(***************************************************************************)
(* Nobody waits for ever, whatever requests for, removals and additions of *)
(* the same and other switches run at the same time.                       *)
(***************************************************************************)
RequestsEnd == \A r \in Requests : (req[r].pc # "idle") ~> (req[r].pc = "done")

(***************************************************************************)
(* The channel of a Tofino is not closed by others while a request that    *)
(* was admitted to it uses it.                                             *)
(***************************************************************************)
NotClosedWhileHeld ==
  [][\A c \in open \ open' : \A r \in Requests : Holds(r, c) => req'[r] # req[r]]_vars

(***************************************************************************)
(* When no request is under way every open channel belongs to a connection *)
(* that the user can see and remove, except one that an initialization     *)
(* opened again: it may have been admitted to a connection being removed.  *)
(***************************************************************************)
NothingLeaks ==
  (\A r \in Requests : req[r].pc \in {"idle", "done"}) =>
     open \subseteq {registered[i] : i \in Registered} \cup reopened

(***************************************************************************)
(* A request that is served has a connection that was not removed          *)
(* (test_native_failure_paths.py:161).  A removal that has closed the      *)
(* connection and not yet forgotten it breaks it.                          *)
(***************************************************************************)
ServedIsRegistered ==
  \A r \in Requests : req[r].pc = "serving" => registered[req[r].id] = req[r].conn
=============================================================================
