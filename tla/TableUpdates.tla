---------------------------- MODULE TableUpdates ----------------------------
(***************************************************************************)
(* Editing the rows of a table (backend/controller/controller.py and the   *)
(* update_table_entry of SwitchManager.py and targets/tofino.py): POST and *)
(* DELETE write one row; the edits of a PATCH are applied one RPC after    *)
(* the other, and when one fails, those before it are undone in reverse.   *)
(*                                                                         *)
(* A client edits rows it read earlier, so what it calls the old row may   *)
(* no longer be what the switch has.  Requests to a BMv2 switch interleave *)
(* at every RPC; those to a Tofino hold its operation lock.                *)
(***************************************************************************)
EXTENDS Integers, SequencesExt

CONSTANTS
  Keys,      \* match keys of the rows
  Actions,   \* what a row does
  Absent,    \* there is no row
  Clients,   \* requests to /tables
  Batches,   \* the edits each may send: a batch for PATCH, one for POST and DELETE
  DirectMeter, \* the table has a direct meter
  MaxFaults  \* bound of the model: RPCs refused at will, or whose reply is lost

Edit == [kind : {"replace", "delete", "insert"},
         key : Keys, action : Actions, newKey : Keys, newAction : Actions]

ASSUME MeterAssumption   == DirectMeter \in BOOLEAN
\* Having no row is not an action of one; only a POST inserts, one row.
ASSUME AbsentAssumption  == Absent \notin Actions
ASSUME BatchesAssumption ==
  \A c \in Clients : \A b \in Batches[c] :
     b \in Seq(Edit) \ {<<>>} /\ \A i \in DOMAIN b : b[i].kind = "insert" => Len(b) = 1

VARIABLES
  native,  \* the switch is a Tofino
  table,   \* switch: its rows
  client,  \* the state of each request
  faults   \* auxiliary: RPCs refused at will, or whose reply was lost

rowsVars == <<native, table, client, faults>>

\* `next` is the edit that is applied or undone, and `row` what the insertion
\* of a moved row falls back to.  Auxiliary: the table `before` the request,
\* and whether every RPC did what it reported and none was refused at will
\* where the code has no further repair (`clean`).
ClientState(c) ==
  [pc : {"idle", "patch", "insert", "restore", "succeeded", "failed"},
   undoing : BOOLEAN, batch : Batches[c] \cup {<<>>}, next : Nat, row : Actions \cup {Absent},
   before : [Keys -> Actions \cup {Absent}], clean : BOOLEAN]

RowsTypeOK ==
  /\ native \in BOOLEAN
  /\ table \in [Keys -> Actions \cup {Absent}]
  /\ DOMAIN client = Clients
  /\ \A c \in Clients : client[c] \in ClientState(c) /\ client[c].next <= Len(client[c].batch)
  /\ faults \in Nat

RowsInit ==
  /\ native \in BOOLEAN
  /\ table \in [Keys -> Actions \cup {Absent}]
  /\ client = [c \in Clients |->
       [pc |-> "idle", undoing |-> FALSE, batch |-> <<>>, next |-> 0, row |-> Absent,
        before |-> table, clean |-> TRUE]]
  /\ faults = 0

Busy(c) == client[c].pc \in {"patch", "insert", "restore"}

-----------------------------------------------------------------------------
(* An RPC of client c writes v at key k, if it can.                         *)

Continue(c, s) == client' = [client EXCEPT ![c] = s]

\* Nobody repairs what fails in here.
Repairing(s) == s.undoing \/ s.pc = "restore"

Call(c, can, k, v, done, failed) ==
  \/ /\ can /\ table' = [table EXCEPT ![k] = v]
     /\ \/ UNCHANGED faults /\ Continue(c, done)
        \/ /\ faults < MaxFaults /\ faults' = faults + 1   \* the reply is lost
           /\ Continue(c, [failed EXCEPT !.clean = FALSE])
  \/ /\ UNCHANGED table                                    \* the switch refuses
     /\ IF can
        THEN /\ faults < MaxFaults /\ faults' = faults + 1
             /\ Continue(c, [failed EXCEPT !.clean = @ /\ ~Repairing(client[c])])
        ELSE UNCHANGED faults /\ Continue(c, failed)

HasRow(k) == table[k] # Absent

-----------------------------------------------------------------------------
(* The edits of a batch, and their undoing.                                 *)

\* What is applied: an edit, or the reverse of one.
Work(s) ==
  LET e == s.batch[s.next] IN
  IF s.undoing
  THEN [kind |-> IF e.kind = "delete" THEN "insert" ELSE e.kind, key |-> e.newKey,
        action |-> e.newAction, newKey |-> e.key, newAction |-> e.action]
  ELSE e

\* Faulty: the list of new rows is one longer.
IsBeyond(s) == s.next > Len(s.batch)
IsLast(s)   == s.next = Len(s.batch)

PatchDone(s) ==
  IF s.undoing
  THEN IF s.next = 1 THEN [s EXCEPT !.pc = "failed"] ELSE [s EXCEPT !.pc = "patch", !.next = @ - 1]
  ELSE IF IsLast(s)
       THEN [s EXCEPT !.pc = "succeeded"]
       ELSE [s EXCEPT !.pc = "patch", !.next = @ + 1]

\* Faulty: the edit that failed is undone as well.
LastTried(s)   == s.next
LastApplied(s) == s.next - 1

\* An edit that fails starts the undoing; undoing stops where it fails.
PatchFailed(s) ==
  IF s.undoing \/ LastApplied(s) = 0 THEN [s EXCEPT !.pc = "failed"]
  ELSE [s EXCEPT !.pc = "patch", !.undoing = TRUE, !.next = LastApplied(s)]

-----------------------------------------------------------------------------
\* Requests to a Tofino wait for its operation lock.
BeginEdits(c, b) ==
  /\ client[c].pc = "idle"
  /\ native => \A x \in Clients : ~Busy(x)
  /\ client' = [client EXCEPT ![c] = [@ EXCEPT !.pc = "patch", !.batch = b, !.next = 1,
                                               !.before = table]]
  /\ UNCHANGED <<native, table, faults>>

\* Faulty: a row is only compared by its key.
SameKey(w)   == w.key = w.newKey
Unchanged(w) == w.key = w.newKey /\ w.action = w.newAction

\* A row is read before it is compared, and a row that is not there cannot
\* be read: on a Tofino, and where the configuration of a meter is kept.
Reads == native \/ DirectMeter

\* The edit changes nothing: what it calls is at most the read, which leaves
\* the row as it is.
PatchNothing(c) ==
  LET s == client[c]
      w == Work(s)
  IN /\ s.pc = "patch" /\ w.kind = "replace" /\ Unchanged(w)
     /\ IF Reads
        THEN Call(c, HasRow(w.key), w.key, table[w.key], PatchDone(s), PatchFailed(s))
        ELSE Continue(c, PatchDone(s)) /\ UNCHANGED <<table, faults>>
     /\ UNCHANGED native

\* The row is deleted: by a PATCH, or by a DELETE request.
RemoveRow(c) ==
  LET s == client[c]
      w == Work(s)
  IN /\ s.pc = "patch" /\ w.kind = "delete"
     /\ Call(c, HasRow(w.key), w.key, Absent, PatchDone(s), PatchFailed(s))
     /\ UNCHANGED native

\* A POST request, which undoing a deletion uses as well.
PostRow(c) ==
  LET s == client[c]
      w == Work(s)
  IN /\ s.pc = "patch" /\ w.kind = "insert"
     /\ Call(c, ~HasRow(w.newKey), w.newKey, w.newAction, PatchDone(s), PatchFailed(s))
     /\ UNCHANGED native

\* The key stays: MODIFY.
PatchAction(c) ==
  LET s == client[c]
      w == Work(s)
  IN /\ s.pc = "patch" /\ w.kind = "replace"
     /\ w.key = w.newKey /\ ~Unchanged(w)
     /\ Call(c, HasRow(w.key), w.key, w.newAction, PatchDone(s), PatchFailed(s))
     /\ UNCHANGED native

\* Faulty: a Tofino row falls back to what the client read of it.
ClientsRow(w)  == w.action
OriginalRow(w) == IF native THEN table[w.key] ELSE w.action

\* The key changes: DELETE, then INSERT.
PatchKey(c) ==
  LET s == client[c]
      w == Work(s)
  IN /\ s.pc = "patch" /\ w.kind = "replace" /\ w.key # w.newKey
     /\ Call(c, HasRow(w.key), w.key, Absent,
             [s EXCEPT !.pc = "insert", !.row = OriginalRow(w)], PatchFailed(s))
     /\ UNCHANGED native

PatchInsert(c) ==
  LET s == client[c]
      w == Work(s)
  IN /\ s.pc = "insert"
     /\ Call(c, ~HasRow(w.newKey), w.newKey, w.newAction,
             PatchDone(s), [s EXCEPT !.pc = "restore"])
     /\ UNCHANGED native

\* The row could not be inserted at its new key: it is put back.
PatchRestore(c) ==
  LET s == client[c]
      w == Work(s)
  IN /\ s.pc = "restore"
     /\ Call(c, ~HasRow(w.key), w.key, s.row,
             PatchFailed(s), PatchFailed(s))
     /\ UNCHANGED native

EditStep(c) ==
  \/ PatchNothing(c) \/ RemoveRow(c) \/ PostRow(c) \/ PatchAction(c)
  \/ PatchKey(c) \/ PatchInsert(c) \/ PatchRestore(c)

RowsNext == \E c \in Clients : EditStep(c) \/ \E b \in Batches[c] : BeginEdits(c, b)

RowsSpec == RowsInit /\ [][RowsNext]_rowsVars

-----------------------------------------------------------------------------
(* The rows a request edits, which those of the others leave alone.         *)
Touched(c) ==
  UNION {{client[c].batch[i].key, client[c].batch[i].newKey} : i \in DOMAIN client[c].batch}
Apart(c)   == \A x \in Clients \ {c} : Touched(x) \cap Touched(c) = {}

\* The client had read the rows it edits as they were when it was served.
Fresh(c) ==
  LET b == client[c].batch
  IN \A i \in DOMAIN b : b[i].kind # "insert" => client[c].before[b[i].key] = b[i].action

Failed(c) == client[c].pc = "failed" /\ client[c].clean /\ Apart(c)

Restored(c) == \A k \in Touched(c) : table[k] = client[c].before[k]

(***************************************************************************)
(* A batch that fails leaves its rows as they were, however the edits      *)
(* depend on each other and whatever requests for other rows do meanwhile, *)
(* if the client had read the rows, an RPC that reports an error did       *)
(* nothing, and the switch refuses none of the repairs at will: that a     *)
(* repair is always one the table admits is part of the claim.             *)
(***************************************************************************)
FailedBatchRestores == \A c \in Clients : Failed(c) /\ Fresh(c) => Restored(c)

(***************************************************************************)
(* On a Tofino, where a row is read again before it is moved, an edit that *)
(* fails restores the row even if the client had read another.             *)
(***************************************************************************)
StaleRowRestored ==
  \A c \in Clients : native /\ Failed(c) /\ Len(client[c].batch) = 1 => Restored(c)

\* What an edit means.
Edited(t, e) ==
  CASE e.kind = "delete" -> [t EXCEPT ![e.key] = Absent]
    [] e.kind = "insert" -> [t EXCEPT ![e.newKey] = e.newAction]
    [] e.kind = "replace" /\ e.key = e.newKey /\ e.action = e.newAction -> t
    [] OTHER -> [t EXCEPT ![e.key] = Absent, ![e.newKey] = e.newAction]

(***************************************************************************)
(* A batch that succeeds did what its edits mean, one after the other.     *)
(***************************************************************************)
SucceededBatchApplied ==
  \A c \in Clients : client[c].pc = "succeeded" /\ Apart(c) =>
    \A k \in Touched(c) : table[k] = FoldLeft(Edited, client[c].before, client[c].batch)[k]
=============================================================================
