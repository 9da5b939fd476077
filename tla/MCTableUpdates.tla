--------------------------- MODULE MCTableUpdates ---------------------------
(***************************************************************************)
(* One request edits three rows, which can take the keys of each other, or *)
(* one of them; another edits, deletes or inserts one row.                 *)
(***************************************************************************)
EXTENDS TableUpdates, TLC

CONSTANTS c1, c2, k1, k2, k3, drop, forward

\* What may become of the row with key k: moved, modified, left alone, deleted.
MCEdits(k) ==
  {[kind |-> "replace", key |-> k, action |-> drop, newKey |-> n, newAction |-> x] :
     n \in Keys, x \in Actions} \cup
  {[kind |-> "delete", key |-> k, action |-> drop, newKey |-> k, newAction |-> drop]}

\* A row that moves keeps what it does.
MCMoves(k) == {e \in MCEdits(k) : e.newKey = k \/ e.newAction = drop}

\* Something becomes of it: the row is modified, moved or deleted.
MCChanges(k) ==
  {e \in MCMoves(k) : ~(e.kind = "replace" /\ e.newKey = k /\ e.newAction = drop)}

\* A new row with key k.
MCInserts(k) == {[kind |-> "insert", key |-> k, action |-> x, newKey |-> k, newAction |-> x] :
                   x \in Actions}

MCBatches ==
  (c1 :> ({<<e, f, g>> : e \in MCMoves(k1), f \in MCMoves(k2),
                         g \in {m \in MCChanges(k3) : m.kind = "replace"}} \cup
          {<<e>> : e \in MCEdits(k1)})) @@
  (c2 :> {<<e>> : e \in {m \in MCChanges(k3) : m.newKey # k1} \cup MCInserts(k3)})
=============================================================================
