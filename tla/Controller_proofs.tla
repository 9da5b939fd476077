------------------------- MODULE Controller_proofs -------------------------
(***************************************************************************)
(* Proofs about the controller.  About Connections, for any switches and   *)
(* requests: what a request was admitted to is not closed under it, and    *)
(* nothing leaks but what an initialization opened again.  About           *)
(* TableUpdates, for any batches of any length: where the rows of a        *)
(* request are while it edits them, undoes what it did or puts a row back. *)
(***************************************************************************)
EXTENDS Connections, TableUpdates, FiniteSetTheorems, WellFoundedInduction, TLAPS

Pcs == {"idle", "snapshot", "waiting", "admitted", "serving", "list", "all", "next", "closing",
        "connecting", "added", "restoring", "loading", "done"}

\* Where a request has an id, and a connection.
HasId   == {"snapshot", "waiting", "admitted", "serving", "connecting", "added", "restoring",
            "loading"}
HasConn == {"waiting", "admitted", "serving", "restoring", "loading"}

Locked  == {"closing", "connecting"}
Held    == {"admitted", "serving", "loading"}

Gone(r) == IF req[r].id = NoId THEN Ids ELSE {req[r].id}

\* Connections are numbered as they are made, and no two ids share one.
Numbered ==
  /\ \A i \in Ids : registered[i] <= created
  /\ \A i, j \in Ids : registered[i] = registered[j] /\ registered[i] # 0 => i = j
  /\ \A c \in open : 0 < c /\ c <= created

\* connections_lock and the operation locks exclude.
Exclusive ==
  /\ \A r, s \in Requests :
       req[r].pc \in Locked /\ req[s].pc \in Locked => r = s
  /\ \A r, s \in Requests : \A c \in Nat : Holds(r, c) /\ Holds(s, c) => r = s

Identified == \A r \in Requests : req[r].pc \in HasId => req[r].id \in Ids

\* The connection a request waits for or holds is that of a Tofino: its own,
\* and nobody else's.
Owned ==
  \A r \in Requests : req[r].pc \in HasConn =>
    /\ req[r].id \in Native /\ req[r].conn \in 1..created
    /\ \A i \in Ids : registered[i] = req[r].conn => i = req[r].id

\* An addition finds its id free; a removal has closed what it is about to
\* forget, and is not still to close.
Changing ==
  \A r \in Requests :
    /\ req[r].pc = "connecting" => registered[req[r].id] = 0
    /\ req[r].pc = "closing" =>
         /\ \A i \in req[r].closing : registered[i] # 0
         /\ \A i \in Gone(r) \ req[r].closing : registered[i] \in open => registered[i] \in reopened

NoLeak == \A c \in open : c \in reopened \/ \E i \in Ids : registered[i] = c

IInv == TypeOK /\ Identified /\ Numbered /\ Exclusive /\ Owned /\ Changing /\ NoLeak

-----------------------------------------------------------------------------
(* The requests.                                                            *)

LEMMA Updated ==
  ASSUME req \in [Requests -> Request], NEW r \in Requests, NEW q, Becomes(r, q)
  PROVE  /\ req'[r] = q
         /\ \A s \in Requests \ {r} : req'[s] = req[s]
         /\ q \in Request => req' \in [Requests -> Request]
BY DEF Becomes

\* What actions make of a request is a request.
LEMMA SetEdits ==
  ASSUME NEW q \in Request, NEW I \in SUBSET Ids
  PROVE  /\ [q EXCEPT !.pc = "next", !.remove = I] \in Request
         /\ [q EXCEPT !.pc = "next", !.add = I] \in Request
         /\ [q EXCEPT !.remove = I] \in Request
         /\ [q EXCEPT !.closing = I] \in Request
         /\ [q EXCEPT !.pc = "closing", !.id = NoId, !.closing = I] \in Request
BY Zenon DEF Request

LEMMA IdEdits ==
  ASSUME NEW q \in Request, NEW i \in Ids
  PROVE  /\ [q EXCEPT !.pc = "closing", !.id = i, !.closing = {i}] \in Request
         /\ [q EXCEPT !.pc = "connecting", !.id = i] \in Request
BY Zenon DEF Request

LEMMA ConnEdits ==
  ASSUME NEW q \in Request, NEW c \in Nat
  PROVE  /\ [q EXCEPT !.pc = "waiting", !.conn = c] \in Request
         /\ [q EXCEPT !.pc = "restoring", !.conn = c] \in Request
BY Zenon DEF Request

LEMMA RestoredEdit ==
  ASSUME NEW q \in Request, NEW I \in SUBSET Ids
  PROVE  [q EXCEPT !.pc = "next", !.add = I, !.conn = 0] \in Request
BY Zenon, 0 \in Nat DEF Request

LEMMA RetryEdits ==
  ASSUME NEW q \in Request, NEW I \in SUBSET Ids, NEW J \in SUBSET Ids, NEW n \in 0..(Retries - 1)
  PROVE  /\ [q EXCEPT !.pc = "next", !.tries = n] \in Request
         /\ [q EXCEPT !.pc = "next", !.add = I, !.tries = n] \in Request
         /\ [q EXCEPT !.pc = "next", !.add = I, !.remove = J, !.tries = n] \in Request
         /\ [q EXCEPT !.pc = "added", !.made = I, !.tries = n] \in Request
BY Zenon DEF Request

LEMMA KindEdit == ASSUME NEW q \in Request, NEW k \in Kinds PROVE [q EXCEPT !.kind = k] \in Request
BY Zenon DEF Request

LEMMA PcEdit == ASSUME NEW q \in Request, NEW pc \in Pcs PROVE [q EXCEPT !.pc = pc] \in Request
BY Zenon DEF Request, Pcs

LEMMA FirstEdits ==
  ASSUME NEW q \in Request, NEW i \in Ids, NEW I \in SUBSET Ids
  PROVE  /\ [q EXCEPT !.pc = "snapshot", !.id = i] \in Request
         /\ [q EXCEPT !.pc = "list", !.add = I] \in Request
         /\ [q EXCEPT !.pc = "all", !.add = I] \in Request
BY Zenon DEF Request

LEMMA IdleTyped == Idle \in Request /\ [Idle EXCEPT !.pc = "done"] \in Request
BY RetriesAssumption DEF Idle, Request

LEMMA BeginTyped ==
  ASSUME TypeOK, NEW r \in Requests, NEW k \in Kinds, NEW i \in Ids, NEW I \in SUBSET Ids,
         Begin(r, k, i, I)
  PROVE  /\ TypeOK'
         /\ \A s \in Requests \ {r} : req'[s] = req[s]
         /\ req'[r].pc \in {"snapshot", "next", "all", "list"}
         /\ req'[r].pc = "snapshot" => req'[r].id = i
<1> DEFINE new == [Idle EXCEPT !.kind = k]
<1>1. new \in Request
  BY IdleTyped, KindEdit
<1> HIDE DEF new
<1>2. \E q \in Request :
        /\ Becomes(r, q)
        /\ q.pc \in {"snapshot", "next", "all", "list"} /\ (q.pc = "snapshot" => q.id = i)
  <2>1. CASE k \in {"operate", "initialize"}
    <3>1. [new EXCEPT !.pc = "snapshot", !.id = i] \in Request
      BY <1>1, FirstEdits
    <3>2. Becomes(r, [new EXCEPT !.pc = "snapshot", !.id = i])
      BY <2>1 DEF Begin, new
    <3>. QED
      BY <1>1, <3>1, <3>2 DEF Request
  <2>2. CASE k = "add"
    <3>1. [new EXCEPT !.pc = "next", !.add = {i}] \in Request
      BY <1>1, SetEdits
    <3>2. Becomes(r, [new EXCEPT !.pc = "next", !.add = {i}])
      BY <2>2 DEF Begin, new
    <3>. QED
      BY <1>1, <3>1, <3>2 DEF Request
  <2>3. CASE k = "remove"
    <3>1. [new EXCEPT !.pc = "next", !.remove = {i}] \in Request
      BY <1>1, SetEdits
    <3>2. Becomes(r, [new EXCEPT !.pc = "next", !.remove = {i}])
      BY <2>3 DEF Begin, new
    <3>. QED
      BY <1>1, <3>1, <3>2 DEF Request
  <2>4. CASE k = "removeAll"
    <3>1. [new EXCEPT !.pc = "all"] \in Request
      BY <1>1, PcEdit DEF Pcs
    <3>2. Becomes(r, [new EXCEPT !.pc = "all"])
      BY <2>4 DEF Begin, new
    <3>. QED
      BY <1>1, <3>1, <3>2 DEF Request
  <2>5. CASE k = "topology"
    <3>1. [new EXCEPT !.pc = "list", !.add = I] \in Request
      BY <1>1, FirstEdits
    <3>2. Becomes(r, [new EXCEPT !.pc = "list", !.add = I])
      BY <2>5 DEF Begin, new
    <3>. QED
      BY <1>1, <3>1, <3>2 DEF Request
  <2>6. CASE k = "import"
    <3>1. [new EXCEPT !.pc = "all", !.add = I] \in Request
      BY <1>1, FirstEdits
    <3>2. Becomes(r, [new EXCEPT !.pc = "all", !.add = I])
      BY <2>6 DEF Begin, new
    <3>. QED
      BY <1>1, <3>1, <3>2 DEF Request
  <2>. QED
    BY <2>1, <2>2, <2>3, <2>4, <2>5, <2>6 DEF Kinds
<1>3. UNCHANGED Connections
  BY DEF Begin
<1>. QED
  BY <1>2, <1>3, Updated DEF TypeOK, Connections

\* What a step of r makes of r: where it has an id, a connection and a lock
\* after the step, from where it came.
Lawful(r) ==
  /\ req'[r].pc \in HasId => req'[r].id \in Ids
  /\ req'[r].pc \in HasConn =>
       \/ req[r].pc \in HasConn /\ req'[r].id = req[r].id /\ req'[r].conn = req[r].conn
       \/ /\ req'[r].id \in Native /\ registered[req'[r].id] # 0
          /\ req'[r].conn = registered[req'[r].id]
          /\ UNCHANGED Connections
  /\ req'[r].pc \in Held =>
       req'[r].conn = req[r].conn /\ (req[r].pc \in Held \/ Free(req[r].conn))
  /\ req'[r].pc \in Locked => req[r].pc \in Locked \/ ConnectionsFree
  /\ req'[r].pc = "connecting" => registered[req'[r].id] = 0 /\ UNCHANGED Connections
  /\ req'[r].pc = "closing" =>
       \/ \E i \in Ids : Close(r, i) /\ req'[r].id = req[r].id
       \/ /\ req'[r].closing = Registered \/ req'[r].closing = {req'[r].id}
          /\ req'[r].closing \subseteq Registered
          /\ req'[r].closing = Registered \/ req'[r].id # NoId
          /\ UNCHANGED Connections

LEMMA Shape ==
  ASSUME TypeOK, Identified, NEW r \in Requests, Step(r)
  PROVE  /\ req' \in [Requests -> Request]
         /\ \A s \in Requests \ {r} : req'[s] = req[s]
         /\ Lawful(r)
<1>a. req \in [Requests -> Request] /\ req[r] \in Request
  BY DEF TypeOK
<1> SUFFICES \E q \in Request : Becomes(r, q) /\ (req'[r] = q => Lawful(r))
  BY <1>a, Updated
<1>u. /\ req[r].remove \in SUBSET Ids /\ req[r].add \in SUBSET Ids /\ req[r].made \in SUBSET Ids
      /\ req[r].closing \in SUBSET Ids /\ Registered \in SUBSET Ids /\ req[r].tries \in Nat
      /\ {} \in SUBSET Ids
  BY <1>a, RetriesAssumption DEF Request, Registered
<1>n. \A i \in Ids : registered[i] \in Nat
  BY DEF TypeOK
<1>h. req[r].pc \in HasId => req[r].id \in Ids
  BY DEF Identified
<1>d. ASSUME Ends(r) PROVE \E q \in Request : Becomes(r, q) /\ (req'[r] = q => Lawful(r))
  <2>1. [Idle EXCEPT !.pc = "done"].pc = "done"
    BY DEF Idle
  <2>. QED
    BY <1>d, <2>1, IdleTyped DEF Ends, Lawful, HasId, HasConn, Held, Locked
<1>x. ASSUME NEW q \in Request, Becomes(r, q), q.pc = "next"
      PROVE  \E p \in Request : Becomes(r, p) /\ (req'[r] = p => Lawful(r))
  BY <1>x DEF Lawful, HasId, HasConn, Held, Locked
<1>1. CASE Snapshot(r)
  <2>1. CASE req[r].id \in Native /\ registered[req[r].id] # 0
    <3> DEFINE q == [req[r] EXCEPT !.pc = "waiting", !.conn = registered[req[r].id]]
    <3>1. q \in Request
      BY <1>a, <1>n, <2>1, NativeAssumption, ConnEdits
    <3>2. q.pc = "waiting" /\ q.id = req[r].id /\ q.conn = registered[req[r].id]
      BY <1>a DEF Request
    <3>3. Becomes(r, q) /\ UNCHANGED Connections
      BY <1>1, <2>1 DEF Snapshot
    <3> HIDE DEF q
    <3>4. req'[r] = q => Lawful(r)
      BY <2>1, <3>2, <3>3, NativeAssumption DEF Lawful, HasId, HasConn, Held, Locked
    <3>. QED
      BY <3>1, <3>3, <3>4
  <2>. QED
    BY <1>1, <2>1, <1>d DEF Snapshot
<1>2. CASE Admit(r)
  <2> DEFINE q == [req[r] EXCEPT !.pc = "admitted"]
  <2>1. q \in Request
    BY <1>a, PcEdit DEF Pcs
  <2>2. q.pc = "admitted" /\ q.id = req[r].id /\ q.conn = req[r].conn
    BY <1>a DEF Request
  <2>3. Becomes(r, q) /\ Free(req[r].conn) /\ req[r].pc = "waiting"
    BY <1>2 DEF Admit, Goes
  <2> HIDE DEF q
  <2>4. req'[r] = q => Lawful(r)
    BY <1>h, <2>2, <2>3 DEF Lawful, HasId, HasConn, Held, Locked
  <2>. QED
    BY <2>1, <2>3, <2>4
<1>3. CASE Recheck(r)
  <2>1. CASE registered[req[r].id] = req[r].conn
    <3> DEFINE q == [req[r] EXCEPT !.pc = "serving"]
    <3>1. q \in Request
      BY <1>a, PcEdit DEF Pcs
    <3>2. q.pc = "serving" /\ q.id = req[r].id /\ q.conn = req[r].conn
      BY <1>a DEF Request
    <3>3. Becomes(r, q) /\ req[r].pc = "admitted"
      BY <1>3, <2>1 DEF Recheck, Goes
    <3> HIDE DEF q
    <3>4. req'[r] = q => Lawful(r)
      BY <1>h, <3>2, <3>3 DEF Lawful, HasId, HasConn, Held, Locked
    <3>. QED
      BY <3>1, <3>3, <3>4
  <2>. QED
    BY <1>3, <2>1, <1>d DEF Recheck
<1>4. CASE Serve(r)
  BY <1>4, <1>d DEF Serve
<1>5. CASE Initialize(r)
  BY <1>5, <1>d DEF Initialize
<1>6. CASE List(r)
  <2> DEFINE q == [req[r] EXCEPT !.pc = "next", !.remove = Registered]
  <2>1. q \in Request /\ q.pc = "next" /\ Becomes(r, q)
    <3>1. q \in Request
      BY <1>a, <1>u, SetEdits
    <3>2. q.pc = "next"
      BY <1>a DEF Request
    <3>. QED
      BY <3>1, <3>2, <1>6 DEF List
  <2>. QED
    BY <2>1, <1>x
<1>7. CASE RemoveAllBegin(r)
  <2> DEFINE q == [req[r] EXCEPT !.pc = "closing", !.id = NoId, !.closing = Registered]
  <2>1. q \in Request
    BY <1>a, <1>u, SetEdits
  <2>2. q.pc = "closing" /\ q.id = NoId /\ q.closing = Registered
    BY <1>a DEF Request
  <2>3. Becomes(r, q) /\ ConnectionsFree /\ UNCHANGED Connections
    BY <1>7 DEF RemoveAllBegin
  <2> HIDE DEF q
  <2>4. req'[r] = q => Lawful(r)
    BY <2>2, <2>3 DEF Lawful, HasId, HasConn, Held, Locked
  <2>. QED
    BY <2>1, <2>3, <2>4
<1>8. CASE Forget(r)
  <2>1. PICK gone : Becomes(r, [req[r] EXCEPT !.pc = "next", !.remove = @ \ gone])
    BY <1>8 DEF Forget
  <2> DEFINE q == [req[r] EXCEPT !.pc = "next", !.remove = req[r].remove \ gone]
  <2>2. q \in Request
    <3>1. req[r].remove \ gone \in SUBSET Ids
      BY <1>u
    <3>. QED
      BY <1>a, <3>1, SetEdits
  <2>3. q.pc = "next"
    BY <1>a DEF Request
  <2>. QED
    BY <2>1, <2>2, <2>3, <1>x
<1>9. ASSUME NEW i \in Ids, RemoveBegin(r, i)
      PROVE  \E q \in Request : Becomes(r, q) /\ (req'[r] = q => Lawful(r))
  <2>1. CASE registered[i] # 0
    <3> DEFINE q == [req[r] EXCEPT !.pc = "closing", !.id = i, !.closing = {i}]
    <3>1. q \in Request
      BY <1>a, IdEdits
    <3>2. q.pc = "closing" /\ q.id = i /\ q.closing = {i}
      BY <1>a DEF Request
    <3>3. Becomes(r, q) /\ ConnectionsFree /\ UNCHANGED Connections
      BY <1>9, <2>1 DEF RemoveBegin
    <3>4. {i} \subseteq Registered /\ i # NoId
      BY <2>1, NativeAssumption DEF Registered
    <3> HIDE DEF q
    <3>5. req'[r] = q => Lawful(r)
      BY <3>2, <3>3, <3>4 DEF Lawful, HasId, HasConn, Held, Locked
    <3>. QED
      BY <3>1, <3>3, <3>5
  <2>. QED
    BY <1>9, <2>1, <1>d DEF RemoveBegin
<1>10. ASSUME NEW i \in Ids, RemoveSkip(r, i)
       PROVE  \E q \in Request : Becomes(r, q) /\ (req'[r] = q => Lawful(r))
  <2> DEFINE q == [req[r] EXCEPT !.remove = req[r].remove \ {i}]
  <2>1. q \in Request
    <3>1. req[r].remove \ {i} \in SUBSET Ids
      BY <1>u
    <3>. QED
      BY <1>a, <3>1, SetEdits
  <2>2. q.pc = "next"
    BY <1>a, <1>10 DEF Request, RemoveSkip
  <2>. QED
    BY <1>10, <2>1, <2>2, <1>x DEF RemoveSkip
<1>11. ASSUME NEW i \in Ids, Close(r, i)
       PROVE  \E q \in Request : Becomes(r, q) /\ (req'[r] = q => Lawful(r))
  <2> DEFINE q == [req[r] EXCEPT !.closing = req[r].closing \ {i}]
  <2>1. q \in Request
    <3>1. req[r].closing \ {i} \in SUBSET Ids
      BY <1>u
    <3>. QED
      BY <1>a, <3>1, SetEdits
  <2>2. q.pc = "closing" /\ q.id = req[r].id
    BY <1>a, <1>11 DEF Request, Close
  <2>3. Becomes(r, q) /\ req[r].pc = "closing"
    BY <1>11 DEF Close
  <2> HIDE DEF q
  <2>4. req'[r] = q => Lawful(r)
    BY <1>11, <2>2, <2>3 DEF Lawful, HasId, HasConn, Held, Locked
  <2>. QED
    BY <2>1, <2>3, <2>4
<1>g. ASSUME NEW i \in Ids, GivesUp(r, i)
      PROVE  \E q \in Request : Becomes(r, q) /\ (req'[r] = q => Lawful(r))
  <2>0. req[r].add \ {i} \in SUBSET Ids /\ 0 \in 0..(Retries - 1)
    BY <1>u, RetriesAssumption
  <2>1. CASE req[r].kind = "import"
    <3> DEFINE q == [req[r] EXCEPT !.pc = "next", !.add = req[r].add \ {i}, !.tries = 0]
    <3>1. q \in Request
      BY <1>a, <2>0, RetryEdits
    <3>2. q.pc = "next"
      BY <1>a DEF Request
    <3>3. Becomes(r, q)
      BY <1>g, <2>1 DEF GivesUp
    <3>. QED
      BY <3>1, <3>2, <3>3, <1>x
  <2>2. CASE req[r].kind # "import"
    <3> DEFINE q == [req[r] EXCEPT !.pc = "next", !.add = {}, !.remove = req[r].made, !.tries = 0]
    <3>1. q \in Request
      BY <1>a, <1>u, <2>0, RetryEdits
    <3>2. q.pc = "next"
      BY <1>a DEF Request
    <3>3. Becomes(r, q)
      BY <1>g, <2>2 DEF GivesUp
    <3>. QED
      BY <3>1, <3>2, <3>3, <1>x
  <2>. QED
    BY <2>1, <2>2
<1>12. ASSUME NEW i \in Ids, AddBegin(r, i)
       PROVE  \E q \in Request : Becomes(r, q) /\ (req'[r] = q => Lawful(r))
  <2>1. CASE registered[i] = 0
    <3> DEFINE q == [req[r] EXCEPT !.pc = "connecting", !.id = i]
    <3>1. q \in Request
      BY <1>a, IdEdits
    <3>2. q.pc = "connecting" /\ q.id = i
      BY <1>a DEF Request
    <3>3. Becomes(r, q) /\ ConnectionsFree /\ UNCHANGED Connections
      BY <1>12, <2>1 DEF AddBegin
    <3> HIDE DEF q
    <3>4. req'[r] = q => Lawful(r)
      BY <2>1, <3>2, <3>3 DEF Lawful, HasId, HasConn, Held, Locked
    <3>. QED
      BY <3>1, <3>3, <3>4
  <2>. QED
    BY <1>12, <2>1, <1>g DEF AddBegin
<1>13. CASE Connected(r)
  <2> DEFINE q == [req[r] EXCEPT !.pc = "added", !.made = req[r].made \cup {req[r].id}, !.tries = 0]
  <2>0. req[r].pc = "connecting" /\ req[r].id \in Ids
    BY <1>13, <1>h DEF Connected, HasId
  <2>1. q \in Request
    <3>1. req[r].made \cup {req[r].id} \in SUBSET Ids /\ 0 \in 0..(Retries - 1)
      BY <1>u, <2>0, RetriesAssumption
    <3>. QED
      BY <1>a, <3>1, RetryEdits
  <2>2. q.pc = "added" /\ q.id = req[r].id
    BY <1>a DEF Request
  <2>3. Becomes(r, q)
    BY <1>13 DEF Connected
  <2> HIDE DEF q
  <2>4. req'[r] = q => Lawful(r)
    BY <2>0, <2>2, <2>3 DEF Lawful, HasId, HasConn, Held, Locked
  <2>. QED
    BY <2>1, <2>3, <2>4
<1>14. CASE ConnectFails(r)
  <2>0. req[r].id \in Ids
    BY <1>14, <1>h DEF ConnectFails, HasId
  <2>1. CASE /\ RetriesLeft(req[r].tries)
             /\ Becomes(r, [req[r] EXCEPT !.pc = "next", !.tries = req[r].tries + 1])
    <3> DEFINE q == [req[r] EXCEPT !.pc = "next", !.tries = req[r].tries + 1]
    <3>1. q \in Request
      <4>1. req[r].tries + 1 \in 0..(Retries - 1)
        BY <1>u, <2>1, RetriesAssumption DEF RetriesLeft
      <4>. QED
        BY <1>a, <4>1, RetryEdits
    <3>2. q.pc = "next"
      BY <1>a DEF Request
    <3>. QED
      BY <2>1, <3>1, <3>2, <1>x
  <2>. QED
    BY <1>14, <2>0, <2>1, <1>g DEF ConnectFails, AddFailed
<1>k. ASSUME NEW i \in Ids, Becomes(r, [req[r] EXCEPT !.pc = "next", !.add = @ \ {i}])
      PROVE  \E q \in Request : Becomes(r, q) /\ (req'[r] = q => Lawful(r))
  <2> DEFINE q == [req[r] EXCEPT !.pc = "next", !.add = req[r].add \ {i}]
  <2>1. q \in Request
    <3>1. req[r].add \ {i} \in SUBSET Ids
      BY <1>u
    <3>. QED
      BY <1>a, <3>1, SetEdits
  <2>2. q.pc = "next"
    BY <1>a DEF Request
  <2>. QED
    BY <1>k, <2>1, <2>2, <1>x
<1>15. CASE Persist(r)
  <2>1. req[r].id \in Ids
    BY <1>15, <1>h DEF Persist, HasId
  <2>. QED
    BY <1>15, <2>1, <1>g, <1>k DEF Persist
<1>16. CASE RestoreBegin(r)
  <2>0. req[r].id \in Ids
    BY <1>16, <1>h DEF RestoreBegin, HasId
  <2>1. CASE req[r].id \in Native /\ registered[req[r].id] # 0
    <3> DEFINE q == [req[r] EXCEPT !.pc = "restoring", !.conn = registered[req[r].id]]
    <3>1. q \in Request
      BY <1>a, <1>n, <2>0, ConnEdits
    <3>2. q.pc = "restoring" /\ q.id = req[r].id /\ q.conn = registered[req[r].id]
      BY <1>a DEF Request
    <3>3. Becomes(r, q) /\ UNCHANGED Connections
      BY <1>16, <2>1 DEF RestoreBegin
    <3> HIDE DEF q
    <3>4. req'[r] = q => Lawful(r)
      BY <2>0, <2>1, <3>2, <3>3 DEF Lawful, HasId, HasConn, Held, Locked
    <3>. QED
      BY <3>1, <3>3, <3>4
  <2>. QED
    BY <1>16, <2>0, <2>1, <1>k DEF RestoreBegin
<1>17. CASE RestoreAdmit(r)
  <2> DEFINE q == [req[r] EXCEPT !.pc = "loading"]
  <2>1. q \in Request
    BY <1>a, PcEdit DEF Pcs
  <2>2. q.pc = "loading" /\ q.id = req[r].id /\ q.conn = req[r].conn
    BY <1>a DEF Request
  <2>3. Becomes(r, q) /\ Free(req[r].conn) /\ req[r].pc = "restoring"
    BY <1>17 DEF RestoreAdmit, Goes
  <2> HIDE DEF q
  <2>4. req'[r] = q => Lawful(r)
    BY <1>h, <2>2, <2>3 DEF Lawful, HasId, HasConn, Held, Locked
  <2>. QED
    BY <2>1, <2>3, <2>4
<1>18. CASE Restore(r)
  <2> DEFINE q == [req[r] EXCEPT !.pc = "next", !.add = req[r].add \ {req[r].id}, !.conn = 0]
  <2>1. q \in Request
    <3>1. req[r].add \ {req[r].id} \in SUBSET Ids
      BY <1>u
    <3>. QED
      BY <1>a, <3>1, RestoredEdit
  <2>2. q.pc = "next"
    BY <1>a DEF Request
  <2>. QED
    BY <1>18, <2>1, <2>2, <1>x DEF Restore
<1>19. CASE Finish(r)
  BY <1>19, <1>d DEF Finish
<1>. QED
  BY <1>1, <1>2, <1>3, <1>4, <1>5, <1>6, <1>7, <1>8, <1>9, <1>10, <1>11, <1>12, <1>13, <1>14,
     <1>15, <1>16, <1>17, <1>18, <1>19 DEF Step

-----------------------------------------------------------------------------
(* The connections.                                                         *)

\* r initializes connection c.
Loads(r, c) ==
  /\ Load(c)
  /\ \/ /\ req[r].pc = "serving" /\ c = registered[req[r].id] /\ c # 0
        /\ \A s \in Requests \ {r} : ~Holds(s, c)
     \/ req[r].pc = "loading" /\ c = req[r].conn
  /\ req'[r].pc \in {"next", "done"}

LEMMA Frame ==
  ASSUME TypeOK, NEW r \in Requests, Step(r)
  PROVE  \/ UNCHANGED Connections
         \/ Connected(r) \/ Forget(r)
         \/ \E i \in Ids : Close(r, i)
         \/ \E c : Loads(r, c)
<1>1. ASSUME Initialize(r) PROVE UNCHANGED Connections \/ \E c : Loads(r, c)
  <2>1. CASE registered[req[r].id] # 0
    <3>1. req'[r] = [Idle EXCEPT !.pc = "done"]
      BY <1>1, Updated DEF TypeOK, Initialize, Ends
    <3>2. req'[r].pc = "done"
      BY <3>1 DEF Idle
    <3>. QED
      BY <1>1, <2>1, <3>2 DEF Initialize, Loads
  <2>. QED
    BY <1>1, <2>1 DEF Initialize
<1>2. ASSUME Restore(r) PROVE \E c : Loads(r, c)
  <2>1. req'[r].pc = "next"
    <3>1. req'[r] = [req[r] EXCEPT !.pc = "next", !.add = @ \ {req[r].id}, !.conn = 0]
      BY <1>2, Updated DEF TypeOK, Restore
    <3>. QED
      BY <1>2, <3>1 DEF TypeOK, Request, Restore
  <2>. QED
    BY <1>2, <2>1 DEF Restore, Loads
<1>. QED
  BY <1>1, <1>2 DEF Step, Snapshot, Admit, Recheck, Serve, List, RemoveAllBegin, RemoveBegin,
     RemoveSkip, AddBegin, ConnectFails, Persist, RestoreBegin, RestoreAdmit, Finish

\* What a step leaves alone, and what follows for requests from Shape.
LEMMA LocksExclude ==
  ASSUME TypeOK, Exclusive, NEW r \in Requests, Lawful(r),
         \A s \in Requests \ {r} : req'[s] = req[s]
  PROVE  Exclusive'
<1>1. ASSUME NEW s \in Requests, NEW t \in Requests, req'[s].pc \in Locked, req'[t].pc \in Locked
      PROVE  s = t
  BY <1>1 DEF Exclusive, Lawful, ConnectionsFree, Locked
<1>2. ASSUME NEW s \in Requests, NEW t \in Requests, NEW c \in Nat,
             req'[s].conn = c, req'[s].pc \in Held, req'[t].conn = c, req'[t].pc \in Held
      PROVE  s = t
  <2>1. \A u \in Requests, v \in Requests :
          Holds(u, c) /\ Holds(v, c) => u = v
    BY DEF Exclusive
  <2>2. \A u \in Requests : Holds(u, c) <=> req[u].conn = c /\ req[u].pc \in Held
    BY DEF Holds, Held
  <2>3. req'[r].pc \in Held /\ req'[r].conn = c => Holds(r, c) \/ \A u \in Requests : ~Holds(u, c)
    BY <2>2 DEF Lawful, Free
  <2>. QED
    BY <1>2, <2>1, <2>2, <2>3
<1>. QED
  BY <1>1, <1>2 DEF Exclusive, Holds, Held, Locked

LEMMA Closed ==
  ASSUME TypeOK, NEW r \in Requests, NEW i \in Ids, Close(r, i)
  PROVE  /\ req'[r].pc = "closing" /\ req'[r].id = req[r].id
         /\ req'[r].closing = req[r].closing \ {i}
<1>1. req'[r] = [req[r] EXCEPT !.closing = @ \ {i}]
  BY Updated DEF TypeOK, Close
<1>2. req[r] \in Request /\ req[r].pc = "closing"
  BY DEF TypeOK, Close
<1>. QED
  BY <1>1, <1>2 DEF Request

LEMMA IndStep ==
  ASSUME IInv, NEW r \in Requests, Step(r) PROVE IInv'
<1> USE DEF IInv
<1>1. /\ req' \in [Requests -> Request]
      /\ \A s \in Requests \ {r} : req'[s] = req[s]
      /\ Lawful(r)
  BY Shape
<1>2. Exclusive'
  BY <1>1, LocksExclude
<1>3. Identified'
  BY <1>1 DEF Lawful, Identified
<1>4. \A s \in Requests : req'[s].pc \in Locked /\ r # s => req[r].pc \notin Locked
  BY <1>1 DEF Exclusive
<1>n. 0 \notin open /\ \A i \in Ids : registered[i] \in Nat
  BY DEF TypeOK, Numbered
<1>r. \A s \in Requests : req[s] \in Request /\ req'[s] \in Request
  BY <1>1 DEF TypeOK
<1>c. CASE UNCHANGED Connections
  <2>0. UNCHANGED registered /\ UNCHANGED open /\ UNCHANGED created /\ UNCHANGED reopened
    BY <1>c DEF Connections
  <2>1. TypeOK'
    BY <1>1, <2>0 DEF TypeOK
  <2>2. Numbered' /\ NoLeak'
    BY <2>0 DEF Numbered, NoLeak
  <2>3. Owned'
    BY <1>1, <1>n, <2>0, NativeAssumption DEF Owned, Numbered, Lawful, TypeOK
  <2>4. Changing'
    <3>1. ASSUME NEW s \in Requests, req'[s].pc = "connecting" PROVE registered[req'[s].id] = 0
      BY <1>1, <3>1 DEF Changing, Lawful
    <3>2. ASSUME NEW s \in Requests, req'[s].pc = "closing"
          PROVE  /\ \A i \in req'[s].closing : registered[i] # 0
                 /\ \A i \in (IF req'[s].id = NoId THEN Ids ELSE {req'[s].id}) \ req'[s].closing :
                       registered[i] \in open => registered[i] \in reopened
      <4>1. CASE s # r
        BY <1>1, <3>2, <4>1 DEF Changing, Gone
      <4>2. CASE s = r /\ \E i \in Ids : Close(r, i)
        \* Nothing was closed: the channel had gone before.
        <5>1. PICK i \in Ids : Close(r, i)
          BY <4>2
        <5>2. req[r].pc = "closing" /\ registered[i] \notin open
          BY <2>0, <5>1 DEF Close
        <5>3. req'[r].closing = req[r].closing \ {i} /\ req'[r].id = req[r].id
          BY <5>1, Closed
        <5>. QED
          BY <4>2, <5>2, <5>3 DEF Changing, Gone
      <4>3. CASE s = r /\ ~ \E i \in Ids : Close(r, i)
        <5>1. \A i \in Ids : i \in Registered <=> registered[i] # 0
          BY DEF Registered
        <5>2. Registered \subseteq Ids
          BY DEF Registered
        <5>3. /\ req'[s].closing = Registered \/ req'[s].closing = {req'[s].id}
              /\ req'[s].closing \subseteq Registered
              /\ req'[s].closing = Registered \/ req'[s].id # NoId
          BY <1>1, <3>2, <4>3 DEF Lawful
        <5>4. req'[s].id \in Ids \cup {NoId}
          BY <1>r DEF Request
        <5>. QED
          BY <1>n, <5>1, <5>2, <5>3, <5>4
      <4>. QED
        BY <4>1, <4>2, <4>3
    <3>. QED
      BY <2>0, <3>1, <3>2 DEF Changing, Gone
  <2>. QED
    BY <1>2, <1>3, <2>1, <2>2, <2>3, <2>4
<1>d. CASE Connected(r)
  <2> DEFINE n == created + 1
  <2>1. PICK i \in Ids : i = req[r].id /\ registered[i] = 0 /\ req[r].pc = "connecting"
    BY <1>d DEF Connected, Identified, HasId, Changing
  <2>2. /\ created' = n /\ open' = open \cup {n} /\ registered' = [registered EXCEPT ![i] = n]
        /\ reopened' = reopened /\ n \in Nat /\ n > 0 /\ created \in Nat /\ n > created
    BY <1>d, <2>1 DEF Connected, TypeOK
  <2>3. \A j \in Ids : registered'[j] = IF j = i THEN n ELSE registered[j]
    BY <2>2 DEF TypeOK
  <2>4. req'[r].pc = "added"
    <3>1. req'[r] = [req[r] EXCEPT !.pc = "added", !.made = @ \cup {req[r].id}, !.tries = 0]
      BY <1>d, Updated DEF TypeOK, Connected
    <3>. QED
      BY <1>r, <3>1 DEF Request
  <2>5. TypeOK'
    BY <1>1, <2>2 DEF TypeOK
  <2>6. \A j \in Ids : registered[j] < n
    BY <1>n, <2>2 DEF Numbered
  <2> HIDE DEF n
  <2>7. Numbered'
    <3>1. \A j \in Ids : registered'[j] <= created'
      BY <1>n, <2>2, <2>3, <2>6
    <3>2. \A j, k \in Ids : registered'[j] = registered'[k] /\ registered'[j] # 0 => j = k
      BY <1>n, <2>2, <2>3, <2>6 DEF Numbered
    <3>3. \A c \in open' : 0 < c /\ c <= created'
      BY <2>2 DEF Numbered, TypeOK
    <3>. QED
      BY <3>1, <3>2, <3>3 DEF Numbered
  <2>8. \A s \in Requests : req'[s].pc \in HasConn => req'[s] = req[s]
    BY <1>1, <2>4 DEF HasConn
  <2>9. Owned'
    <3>1. ASSUME NEW s \in Requests, req'[s].pc \in HasConn
          PROVE  /\ req'[s].id \in Native /\ req'[s].conn \in 1..created'
                 /\ \A j \in Ids : registered'[j] = req'[s].conn => j = req'[s].id
      BY <1>n, <2>2, <2>3, <2>8, <3>1 DEF Owned
    <3>. QED
      BY <3>1 DEF Owned
  <2>10. Changing'
    BY <1>1, <1>4, <2>1, <2>4 DEF Changing, Locked
  <2>11. NoLeak'
    BY <2>1, <2>2, <2>3, <1>n DEF NoLeak
  <2>. QED
    BY <1>2, <1>3, <2>5, <2>7, <2>9, <2>10, <2>11
<1>e. CASE Forget(r)
  <2>1. /\ req[r].pc = "closing" /\ req[r].closing = {}
        /\ open' = open /\ created' = created /\ reopened' = reopened
    BY <1>e DEF Forget
  <2>2. registered' = [i \in Ids |-> IF i \in Gone(r) THEN 0 ELSE registered[i]]
    BY <1>e DEF Forget, Gone
  <2>3. \A i \in Ids : registered'[i] = registered[i] \/ (i \in Gone(r) /\ registered'[i] = 0)
    BY <2>2
  <2>4. req'[r].pc = "next"
    <3>1. PICK gone : req'[r] = [req[r] EXCEPT !.pc = "next", !.remove = @ \ gone]
      BY <1>e, Updated DEF TypeOK, Forget
    <3>. QED
      BY <1>r, <3>1 DEF Request
  <2>5. TypeOK'
    BY <1>1, <2>1, <2>2 DEF TypeOK
  <2>6. Numbered'
    BY <1>n, <2>1, <2>3 DEF Numbered, TypeOK
  <2>7. Owned'
    <3>1. ASSUME NEW s \in Requests, req'[s].pc \in HasConn
          PROVE  /\ req'[s].id \in Native /\ req'[s].conn \in 1..created'
                 /\ \A j \in Ids : registered'[j] = req'[s].conn => j = req'[s].id
      <4>1. req'[s] = req[s]
        BY <1>1, <2>4, <3>1 DEF HasConn
      <4>. QED
        BY <2>1, <2>3, <3>1, <4>1 DEF Owned, TypeOK
    <3>. QED
      BY <3>1 DEF Owned
  <2>8. Changing'
    BY <1>1, <1>4, <2>1, <2>4 DEF Changing, Locked
  <2>9. NoLeak'
    <3>1. \A i \in Gone(r) : registered[i] \in open => registered[i] \in reopened
      BY <2>1 DEF Changing
    <3>. QED
      BY <2>1, <2>2, <3>1 DEF NoLeak
  <2>. QED
    BY <1>2, <1>3, <2>5, <2>6, <2>7, <2>8, <2>9
<1>f. ASSUME NEW i \in Ids, Close(r, i) PROVE IInv'
  <2>1. /\ req[r].pc = "closing" /\ i \in req[r].closing /\ open' = open \ {registered[i]}
        /\ registered' = registered /\ created' = created /\ reopened' = reopened
    BY <1>f DEF Close
  <2>2. /\ req'[r].pc = "closing" /\ req'[r].id = req[r].id
        /\ req'[r].closing = req[r].closing \ {i}
    BY <1>f, Closed
  <2>3. TypeOK'
    BY <1>1, <2>1 DEF TypeOK
  <2>4. Numbered' /\ NoLeak'
    BY <2>1 DEF Numbered, NoLeak
  <2>5. Owned'
    BY <1>1, <2>1, <2>2 DEF Owned, HasConn
  <2>6. Changing'
    <3>1. \A s \in Requests : req'[s].pc \in Locked => s = r
      BY <1>1, <1>4, <2>1 DEF Locked
    <3>2. ASSUME NEW s \in Requests, req'[s].pc = "closing"
          PROVE  /\ \A j \in req'[s].closing : registered'[j] # 0
                 /\ \A j \in Gone(s)' \ req'[s].closing :
                       registered'[j] \in open' => registered'[j] \in reopened'
      <4>1. s = r /\ Gone(s)' = Gone(r)
        BY <2>2, <3>1, <3>2 DEF Locked, Gone
      <4>. QED
        BY <2>1, <2>2, <4>1 DEF Changing
    <3>. QED
      BY <2>2, <3>1, <3>2 DEF Changing, Locked
  <2>. QED
    BY <1>2, <1>3, <2>3, <2>4, <2>5, <2>6
<1>g. ASSUME NEW c, Loads(r, c) PROVE IInv'
  <2>1. /\ \/ open' = open \cup {c} /\ reopened' = reopened \cup ({c} \ open)
           \/ open' = open \ {c} /\ reopened' = reopened
        /\ registered' = registered /\ created' = created
    BY <1>g DEF Loads, Load
  <2>2. c \in Nat /\ 0 < c /\ c <= created
    <3>1. CASE req[r].pc = "serving"
      BY <1>g, <1>n, <3>1 DEF Loads, Identified, HasId, Numbered
    <3>2. CASE req[r].pc = "loading"
      BY <1>g, <3>2 DEF Loads, Owned, HasConn, TypeOK
    <3>. QED
      BY <1>g, <3>1, <3>2 DEF Loads
  <2>3. TypeOK'
    BY <1>1, <2>1, <2>2 DEF TypeOK
  <2>4. Numbered' /\ NoLeak'
    BY <2>1, <2>2 DEF Numbered, NoLeak
  <2>5. Owned'
    <3>1. ASSUME NEW s \in Requests, req'[s].pc \in HasConn
          PROVE  /\ req'[s].id \in Native /\ req'[s].conn \in 1..created'
                 /\ \A j \in Ids : registered'[j] = req'[s].conn => j = req'[s].id
      BY <1>1, <1>n, <2>1, <3>1, NativeAssumption DEF Owned, Numbered, Lawful, TypeOK
    <3>. QED
      BY <3>1 DEF Owned
  <2>6. Changing'
    <3>1. req'[r].pc \notin Locked
      BY <1>g DEF Loads, Locked
    <3>. QED
      BY <1>1, <2>1, <3>1 DEF Changing, Gone, Locked
  <2>. QED
    BY <1>2, <1>3, <2>3, <2>4, <2>5, <2>6
<1>. QED
  BY <1>c, <1>d, <1>e, <1>f, <1>g, Frame

-----------------------------------------------------------------------------
(* The theorems.                                                            *)

LEMMA BeginStep ==
  ASSUME IInv, NEW r \in Requests, NEW k \in Kinds, NEW i \in Ids, NEW I \in SUBSET Ids,
         Begin(r, k, i, I)
  PROVE  IInv'
<1> USE DEF IInv
<1>1. /\ TypeOK'
      /\ \A s \in Requests \ {r} : req'[s] = req[s]
      /\ req'[r].pc \in {"snapshot", "next", "all", "list"}
      /\ req'[r].pc = "snapshot" => req'[r].id = i
  BY BeginTyped
<1>2. registered' = registered /\ open' = open /\ created' = created /\ reopened' = reopened
  BY DEF Begin, Connections
<1>3. Numbered' /\ NoLeak'
  BY <1>2 DEF Numbered, NoLeak
<1>4. Identified'
  BY <1>1 DEF Identified, HasId
<1>5. Lawful(r)
  BY <1>1 DEF Lawful, HasId, HasConn, Held, Locked
<1>6. Exclusive'
  BY <1>1, <1>5, LocksExclude
<1>7. Owned'
  BY <1>1, <1>2 DEF Owned, HasConn
<1>8. Changing'
  BY <1>1, <1>2 DEF Changing, Gone
<1>. QED
  BY <1>1, <1>3, <1>4, <1>6, <1>7, <1>8

LEMMA InitInv == Init => IInv
<1> SUFFICES ASSUME Init PROVE IInv
  OBVIOUS
<1>1. created \in Nat /\ 0..created \subseteq Nat
  BY IdsAssumption, FS_CardinalityType DEF Init
<1>2. registered \in [Ids -> 0..created]
  BY DEF Init
<1>3. open \subseteq {registered[i] : i \in Registered}
  BY DEF Init
<1>4. \A c \in open : c \in Nat /\ 0 < c /\ c <= created /\ \E i \in Ids : registered[i] = c
  BY <1>1, <1>2, <1>3 DEF Registered
<1>5. \A r \in Requests : req[r] = Idle /\ req[r].pc = "idle"
  BY DEF Init, Idle
<1>6. TypeOK
  BY <1>1, <1>2, <1>4, IdleTyped DEF Init, TypeOK
<1>7. Numbered
  <2>1. \A i, j \in Ids : registered[i] = registered[j] /\ registered[i] # 0 => i = j
    BY DEF Init
  <2>. QED
    BY <1>2, <1>4, <2>1 DEF Numbered
<1>8. Exclusive /\ Identified /\ Owned /\ Changing
  BY <1>5 DEF Exclusive, Identified, Owned, Changing, Locked, Holds, HasId, HasConn
<1>9. NoLeak
  BY <1>4 DEF NoLeak
<1>. QED
  BY <1>6, <1>7, <1>8, <1>9 DEF IInv

LEMMA StepInv == IInv /\ [Next]_vars => IInv'
<1> SUFFICES ASSUME IInv, [Next]_vars PROVE IInv'
  OBVIOUS
<1>1. CASE Next
  BY <1>1, IndStep, BeginStep DEF Next
<1>2. CASE UNCHANGED vars
  <2>1. registered' = registered /\ open' = open /\ created' = created /\ req' = req
        /\ reopened' = reopened
    BY <1>2 DEF vars
  <2>2. TypeOK' /\ Identified' /\ Numbered' /\ Owned'
    BY <2>1 DEF IInv, TypeOK, Identified, Numbered, Owned
  <2>3. Exclusive' /\ Changing' /\ NoLeak'
    BY <2>1 DEF IInv, Exclusive, Holds, Changing, Gone, NoLeak
  <2>. QED
    BY <2>2, <2>3 DEF IInv
<1>. QED
  BY <1>1, <1>2

(***************************************************************************)
(* The locks exclude, every admitted request has the connection of its     *)
(* Tofino and nobody else's, and every open channel is registered or was   *)
(* opened again.                                                           *)
(***************************************************************************)
THEOREM Invariance == Spec => []IInv
BY InitInv, StepInv, PTL DEF Spec

(***************************************************************************)
(* A request retries no more often than AUTOCONNECT_RETRIES, and its ids   *)
(* and connections are ids and connections.                                *)
(***************************************************************************)
THEOREM TypeCorrect == Spec => []TypeOK
<1>1. IInv => TypeOK
  BY DEF IInv
<1>. QED
  BY <1>1, Invariance, PTL

(***************************************************************************)
(* Requests that add, replace and remove switches at the same time leave   *)
(* no open channel without an owner, but those opened again: the roll-backs*)
(* of addSwitchConnection and of a topology are complete.                  *)
(***************************************************************************)
THEOREM ChannelsDoNotLeak == Spec => []NothingLeaks
<1>1. IInv => NothingLeaks
  <2> SUFFICES ASSUME IInv, NEW c \in open, c \notin reopened
               PROVE  \E i \in Registered : registered[i] = c
    BY DEF NothingLeaks
  <2>. QED
    BY DEF IInv, NoLeak, Numbered, Registered
<1>. QED
  BY <1>1, Invariance, PTL

(***************************************************************************)
(* operation_lock does what it is for: removing a switch and initializing  *)
(* it close no channel that another request was admitted to.               *)
(***************************************************************************)
THEOREM AdmittedKeepTheirChannel == Spec => NotClosedWhileHeld
<1>1. ASSUME IInv, [Next]_vars
      PROVE  [\A c \in open \ open' : \A r \in Requests : Holds(r, c) => req'[r] # req[r]]_vars
  <2> SUFFICES ASSUME NEW c \in open \ open', NEW s \in Requests, Holds(s, c), Next
               PROVE  req'[s] # req[s]
    BY <1>1 DEF vars
  <2>1. c \in Nat /\ 0 < c
    BY <1>1 DEF IInv, TypeOK, Numbered
  <2>2. PICK r \in Requests : Step(r)
    BY DEF Next, Begin, Connections
  <2>3. CASE UNCHANGED Connections \/ Connected(r) \/ Forget(r)
    BY <2>3 DEF Connections, Connected, Forget
  <2>4. ASSUME NEW i \in Ids, Close(r, i) PROVE FALSE
    <3>1. c = registered[i]
      BY <2>4 DEF Close
    <3>2. req[s].pc \in HasConn /\ req[s].conn = c
      BY DEF Holds, HasConn
    <3>3. i = req[s].id /\ i \in Native
      BY <1>1, <3>1, <3>2 DEF IInv, Owned
    <3>. QED
      BY <2>4, <3>1, <3>3 DEF Close, MayClose, Free
  <2>5. ASSUME NEW d, Loads(r, d) PROVE req'[s] # req[s]
    <3>1. c = d
      BY <2>5 DEF Loads, Load
    <3>2. s = r
      <4>1. CASE req[r].pc = "loading" /\ d = req[r].conn
        BY <1>1, <2>1, <3>1, <4>1 DEF IInv, Exclusive, Holds
      <4>. QED
        BY <2>5, <3>1, <4>1 DEF Loads
    <3>. QED
      BY <2>5, <3>2 DEF Loads, Holds
  <2>. QED
    BY <1>1, <2>2, <2>3, <2>4, <2>5, Frame DEF IInv
<1>. QED
  BY <1>1, Invariance, PTL DEF Spec, NotClosedWhileHeld
-----------------------------------------------------------------------------
(***************************************************************************)
(* The rows of a table, under the requests that were admitted, for any     *)
(* keys, actions, requests and batches.                                    *)
(***************************************************************************)
\* A set of subsets of a finite set has a minimal one.
LEMMA MinimalSet ==
  ASSUME NEW S, IsFiniteSet(S), NEW B \in SUBSET (SUBSET S), B # {}
  PROVE  \E T \in B : \A U \in B : U \subseteq T => U = T
  <1>1. PICK T \in B : \A U \in B : ~ (<<U, T>> \in StrictSubsetOrdering(S))
    BY FS_FiniteSubsetsOfFinite, FS_StrictSubsetOrderingWellFounded, WFMin
  <1>2. ASSUME NEW U \in B, U \subseteq T, U # T PROVE FALSE
    BY <1>1, <1>2 DEF StrictSubsetOrdering
  <1> QED
    BY <1>2

\* The greatest of the numbers up to n.
LEMMA GreatestOf ==
  ASSUME NEW n \in Nat, NEW S \in SUBSET (1..n), S # {}
  PROVE  Max(S) \in S /\ \A k \in S : k <= Max(S)
  <1> DEFINE T == {n - k : k \in S}
  <1>1. T \subseteq Nat /\ T # {}
    <2>1. \A k \in S : n - k \in Nat
      OBVIOUS
    <2> QED
      BY <2>1
  <1>2. PICK t \in T : \A u \in T : ~ (<<u, t>> \in OpToRel(<, Nat))
    BY <1>1, NatLessThanWellFounded, WFMin
  <1>3. \A u \in T : ~(u < t)
    BY <1>1, <1>2 DEF OpToRel
  <1>4. PICK m \in S : t = n - m
    OBVIOUS
  <1>5. ASSUME NEW k \in S PROVE k <= m
    <2>1. ~(n - k < n - m)
      BY <1>3, <1>4
    <2> QED
      BY <2>1
  <1>6. \E x \in S : \A y \in S : x >= y
    BY <1>5
  <1>7. Max(S) \in S /\ \A y \in S : Max(S) >= y
    BY <1>6 DEF Max
  <1> QED
    BY <1>7

-----------------------------------------------------------------------------
(* What the first n edits of a batch mean, one after the other.             *)
After(t, b, n) ==
  MapThenFoldSet(LAMBDA x, y : Edited(y, x), t, LAMBDA i : b[i], LAMBDA S : Max(S), 1..n)

\* What the fold over the numbers of S is defined by.
Folds(f, t, b, S) ==
  f = [T \in SUBSET S |-> IF T = {} THEN t ELSE Edited(f[T \ {Max(T)}], b[Max(T)])]

LEMMA AfterIsChosen ==
  ASSUME NEW t, NEW b, NEW n
  PROVE  After(t, b, n) = (CHOOSE f : Folds(f, t, b, 1..n))[1..n]
  BY DEF After, MapThenFoldSet, Folds

\* Sets of numbers from which the greatest can be taken until none is left.
Countable(S) == IsFiniteSet(S) /\ \A T \in SUBSET S : T # {} => Max(T) \in T

LEMMA CountableSubset ==
  ASSUME NEW S, Countable(S), NEW R \in SUBSET S
  PROVE  Countable(R)
  BY FS_Subset DEF Countable

LEMMA CountableNumbers ==
  ASSUME NEW n \in Nat
  PROVE  Countable(1..n)
  <1>1. IsFiniteSet(1..n)
    BY FS_Interval
  <1>2. \A T \in SUBSET (1..n) : T # {} => Max(T) \in T
    BY GreatestOf
  <1> QED
    BY <1>1, <1>2 DEF Countable

LEMMA FoldsNone ==
  ASSUME NEW t, NEW b, NEW S, NEW f, Folds(f, t, b, S)
  PROVE  f[{}] = t
  BY DEF Folds

LEMMA FoldsLast ==
  ASSUME NEW t, NEW b, NEW S, Countable(S), NEW f, Folds(f, t, b, S), NEW T \in SUBSET S, T # {}
  PROVE  Max(T) \in T /\ f[T] = Edited(f[T \ {Max(T)}], b[Max(T)])
  BY DEF Folds, Countable

LEMMA FoldsAgree ==
  ASSUME NEW t, NEW b, NEW S, Countable(S), NEW R \in SUBSET S,
         NEW f, NEW g, Folds(f, t, b, S), Folds(g, t, b, R)
  PROVE  \A T \in SUBSET R : f[T] = g[T]
  <1> DEFINE Bad == {T \in SUBSET R : f[T] # g[T]}
  <1> SUFFICES ASSUME Bad # {} PROVE FALSE
    OBVIOUS
  <1>1. Countable(R) /\ Bad \in SUBSET (SUBSET R)
    BY CountableSubset
  <1>2. PICK T \in Bad : \A U \in Bad : U \subseteq T => U = T
    <2> HIDE DEF Bad
    <2> QED
      BY <1>1, MinimalSet DEF Countable
  <1>3. T \in SUBSET R /\ T \in SUBSET S /\ f[T] # g[T]
    OBVIOUS
  <1>4. T # {}
    <2>1. f[{}] = t /\ g[{}] = t
      BY FoldsNone
    <2> QED
      BY <1>3, <2>1
  <1> DEFINE m == Max(T)
  <1>5. /\ m \in T /\ f[T] = Edited(f[T \ {m}], b[m]) /\ g[T] = Edited(g[T \ {m}], b[m])
    BY <1>1, <1>3, <1>4, FoldsLast
  <1> HIDE DEF m
  <1>6. T \ {m} \in SUBSET R /\ T \ {m} \notin Bad
    BY <1>2, <1>3, <1>5
  <1> QED
    BY <1>3, <1>5, <1>6

LEMMA Foldable ==
  ASSUME NEW t, NEW b, NEW S, Countable(S)
  PROVE  \E f : Folds(f, t, b, S)
  <1> DEFINE Bad == {T \in SUBSET S : ~ \E f : Folds(f, t, b, T)}
  <1> SUFFICES ASSUME Bad # {} PROVE FALSE
    OBVIOUS
  <1>1. Bad \in SUBSET (SUBSET S)
    OBVIOUS
  <1>2. PICK T \in Bad : \A U \in Bad : U \subseteq T => U = T
    <2> HIDE DEF Bad
    <2> QED
      BY <1>1, MinimalSet DEF Countable
  <1>3. T \in SUBSET S /\ Countable(T) /\ ~ \E f : Folds(f, t, b, T)
    BY CountableSubset
  <1> DEFINE part(X) == (CHOOSE g : Folds(g, t, b, X))[X]
             f == [X \in SUBSET T |-> IF X = {} THEN t ELSE Edited(part(X \ {Max(X)}), b[Max(X)])]
  <1>4. ASSUME NEW X \in SUBSET T, X # T PROVE Folds(CHOOSE g : Folds(g, t, b, X), t, b, X)
    <2>1. X \notin Bad
      BY <1>2, <1>4
    <2>2. \E g : Folds(g, t, b, X)
      BY <1>3, <2>1
    <2> QED
      BY <2>2
  <1>5. ASSUME NEW Y \in SUBSET T, Y # T PROVE f[Y] = part(Y)
    <2> DEFINE g == CHOOSE h : Folds(h, t, b, Y)
    <2>1. Folds(g, t, b, Y) /\ part(Y) = g[Y]
      BY <1>4, <1>5
    <2>2. Countable(Y)
      BY <1>3, CountableSubset
    <2> HIDE DEF g
    <2>3. CASE Y = {}
      <3>1. g[Y] = t
        BY <2>1, <2>3, FoldsNone
      <3>2. f[Y] = t
        BY <2>3
      <3> QED
        BY <2>1, <3>1, <3>2
    <2>4. CASE Y # {}
      <3> DEFINE m == Max(Y)
                 R == Y \ {m}
                 h == CHOOSE k : Folds(k, t, b, R)
      <3>1. m \in Y /\ g[Y] = Edited(g[R], b[m])
        <4>1. Countable(Y) /\ Folds(g, t, b, Y) /\ Y \in SUBSET Y /\ Y # {}
          BY <2>1, <2>2, <2>4
        <4> QED
          BY <4>1, FoldsLast
      <3>2. R \in SUBSET T /\ R \in SUBSET Y /\ R # T
        BY <3>1
      <3>3. Folds(h, t, b, R) /\ part(R) = h[R]
        BY <1>4, <3>2
      <3>4. f[Y] = Edited(part(R), b[m])
        BY <2>4
      <3> HIDE DEF h, R, m, part, f
      <3>5. g[R] = h[R]
        BY <2>1, <2>2, <3>2, <3>3, FoldsAgree
      <3> QED
        BY <2>1, <3>1, <3>3, <3>4, <3>5
    <2> QED
      BY <2>3, <2>4
  <1>6. ASSUME NEW X \in SUBSET T, X # {}
        PROVE  f[X] = Edited(f[X \ {Max(X)}], b[Max(X)])
    <2> DEFINE m == Max(X)
    <2>1. m \in X
      BY <1>3, <1>6 DEF Countable
    <2>2. f[X] = Edited(part(X \ {m}), b[m])
      BY <1>6
    <2> HIDE DEF m, part, f
    <2>3. X \ {m} \in SUBSET T /\ X \ {m} # T
      BY <2>1
    <2>4. f[X \ {m}] = part(X \ {m})
      BY <1>5, <2>3
    <2> QED
      BY <2>2, <2>4 DEF m
  <1>7. f = [X \in SUBSET T |-> IF X = {} THEN t ELSE Edited(f[X \ {Max(X)}], b[Max(X)])]
    <2>1. \A X \in SUBSET T : f[X] = IF X = {} THEN t ELSE Edited(f[X \ {Max(X)}], b[Max(X)])
      <3>1. f[{}] = t
        OBVIOUS
      <3> HIDE DEF f
      <3> QED
        BY <1>6, <3>1
    <2>2. f = [X \in SUBSET T |-> f[X]]
      OBVIOUS
    <2> HIDE DEF f
    <2> QED
      BY <2>1, <2>2
  <1>8. Folds(f, t, b, T)
    <2> HIDE DEF f
    <2> QED
      BY <1>7 DEF Folds
  <1> QED
    BY <1>3, <1>8

\* Nothing was edited yet; or the last of the edits came after the others.
LEMMA AfterEdits ==
  ASSUME NEW t, NEW b, NEW n \in Nat
  PROVE  /\ After(t, b, 0) = t
         /\ n # 0 => After(t, b, n) = Edited(After(t, b, n - 1), b[n])
  <1> DEFINE fold(k) == CHOOSE f : Folds(f, t, b, 1..k)
             N(k) == 1..k
  <1>1. ASSUME NEW k \in Nat
        PROVE  /\ Countable(N(k)) /\ Folds(fold(k), t, b, N(k))
               /\ After(t, b, k) = fold(k)[N(k)]
    <2>1. Countable(N(k))
      BY CountableNumbers
    <2>2. \E f : Folds(f, t, b, N(k))
      <3> HIDE DEF N
      <3> QED
        BY <2>1, Foldable
    <2>3. After(t, b, k) = fold(k)[N(k)]
      BY AfterIsChosen
    <2> QED
      BY <2>1, <2>2, <2>3
  <1>2. After(t, b, 0) = t
    <2>1. N(0) = {} /\ 0 \in Nat
      OBVIOUS
    <2> HIDE DEF fold, N
    <2>2. fold(0)[N(0)] = t
      BY <1>1, <2>1, FoldsNone
    <2> QED
      BY <1>1, <2>1, <2>2
  <1>3. ASSUME n # 0 PROVE After(t, b, n) = Edited(After(t, b, n - 1), b[n])
    <2> DEFINE m == n - 1
    <2>1. m \in Nat /\ N(m) \in SUBSET N(n) /\ N(n) # {} /\ n \in N(n)
      BY <1>3
    <2>2. Max(N(n)) = n
      <3>1. Max(N(n)) \in N(n) /\ n <= Max(N(n))
        BY <2>1, GreatestOf
      <3> QED
        BY <3>1
    <2>3. N(n) \ {n} = N(m)
      OBVIOUS
    <2> HIDE DEF m, N, fold
    <2>4. fold(n)[N(n)] = Edited(fold(n)[N(m)], b[n])
      <3>1. Countable(N(n)) /\ Folds(fold(n), t, b, N(n)) /\ N(n) \in SUBSET N(n)
        BY <1>1
      <3>2. fold(n)[N(n)] = Edited(fold(n)[N(n) \ {Max(N(n))}], b[Max(N(n))])
        BY <2>1, <3>1, FoldsLast
      <3> QED
        BY <2>2, <2>3, <3>2
    <2>5. fold(n)[N(m)] = fold(m)[N(m)]
      <3>1. /\ Countable(N(n)) /\ Folds(fold(n), t, b, N(n)) /\ Folds(fold(m), t, b, N(m))
            /\ N(m) \in SUBSET N(m)
        BY <1>1, <2>1
      <3> QED
        BY <2>1, <3>1, FoldsAgree
    <2>6. After(t, b, n) = Edited(After(t, b, m), b[n])
      BY <1>1, <2>1, <2>4, <2>5
    <2> QED
      BY <2>6 DEF m
  <1> QED
    BY <1>2, <1>3

LEMMA AfterAll ==
  ASSUME NEW t, NEW b \in Seq(Edit)
  PROVE  FoldLeft(Edited, t, b) = After(t, b, Len(b))
  <1>1. DOMAIN b = 1..Len(b)
    OBVIOUS
  <1> QED
    BY <1>1 DEF FoldLeft, After

-----------------------------------------------------------------------------
(* Edits.                                                                   *)
Contents == [Keys -> Actions \cup {Absent}]

Nothing(e) == e.kind = "replace" /\ Unchanged(e)
Moves(e)   == e.kind = "replace" /\ e.key # e.newKey

\* The rows an edit writes.
Writes(e) ==
  IF Nothing(e) THEN {} ELSE IF e.kind = "delete" THEN {e.key} ELSE {e.key, e.newKey}

Written(b, n) == UNION {Writes(b[i]) : i \in 1..n}

\* The rows t let the switch apply the edit; n tells a Tofino.
Admits(n, t, e) ==
  IF Nothing(e)
  THEN n \/ DirectMeter => t[e.key] # Absent
  ELSE /\ e.kind # "insert" => t[e.key] # Absent
       /\ e.kind = "insert" \/ Moves(e) => t[e.newKey] = Absent

LEMMA EditShape ==
  ASSUME NEW e \in Edit
  PROVE  /\ e.kind \in {"replace", "delete", "insert"} /\ e.key \in Keys /\ e.newKey \in Keys
         /\ e.action \in Actions /\ e.newAction \in Actions
         /\ e.action # Absent /\ e.newAction # Absent
  BY AbsentAssumption DEF Edit

LEMMA EditedRows ==
  ASSUME NEW t \in Contents, NEW e \in Edit
  PROVE  /\ Edited(t, e) \in Contents
         /\ \A k \in Keys \ Writes(e) : Edited(t, e)[k] = t[k]
         /\ e.kind = "delete" => Edited(t, e)[e.key] = Absent
         /\ e.kind = "insert" => Edited(t, e) = [t EXCEPT ![e.newKey] = e.newAction]
         /\ Nothing(e) => Edited(t, e) = t
         /\ e.kind = "replace" /\ ~Nothing(e) => Edited(t, e)[e.newKey] = e.newAction
         /\ Moves(e) => Edited(t, e)[e.key] = Absent
  <1>1. /\ e.kind \in {"replace", "delete", "insert"} /\ e.key \in Keys /\ e.newKey \in Keys
        /\ e.newAction \in Actions
    BY EditShape
  <1>2. CASE e.kind = "delete"
    <2>1. Edited(t, e) = [t EXCEPT ![e.key] = Absent]
      BY <1>2 DEF Edited
    <2> QED
      BY <1>1, <1>2, <2>1 DEF Contents, Writes, Nothing, Moves
  <1>3. CASE e.kind = "insert"
    <2>1. Edited(t, e) = [t EXCEPT ![e.newKey] = e.newAction]
      BY <1>3 DEF Edited
    <2> QED
      BY <1>1, <1>3, <2>1 DEF Contents, Writes, Nothing, Moves
  <1>4. CASE Nothing(e)
    <2>1. Edited(t, e) = t
      BY <1>4 DEF Edited, Nothing, Unchanged
    <2> QED
      BY <1>4, <2>1 DEF Nothing, Moves, Unchanged
  <1>5. CASE e.kind = "replace" /\ ~Nothing(e)
    <2>1. Edited(t, e) = [t EXCEPT ![e.key] = Absent, ![e.newKey] = e.newAction]
      BY <1>5 DEF Edited, Nothing, Unchanged
    <2> QED
      BY <1>1, <1>5, <2>1 DEF Contents, Writes, Moves
  <1> QED
    BY <1>1, <1>2, <1>3, <1>4, <1>5

LEMMA LeastOf ==
  ASSUME NEW S \in SUBSET Nat, S # {}
  PROVE  \E m \in S : \A n \in S : m <= n
  <1>1. PICK m \in S : \A n \in S : ~ (<<n, m>> \in OpToRel(<, Nat))
    BY NatLessThanWellFounded, WFMin
  <1>2. \A n \in S : ~(n < m)
    BY <1>1 DEF OpToRel
  <1> QED
    BY <1>2

\* The edits keep the shape of the table, and the rows they do not write.
LEMMA AfterRows ==
  ASSUME NEW t \in Contents, NEW b \in Seq(Edit), NEW n \in 0..Len(b)
  PROVE  /\ After(t, b, n) \in Contents
         /\ \A k \in Keys \ Written(b, n) : After(t, b, n)[k] = t[k]
  <1> DEFINE Ok(m)  == /\ After(t, b, m) \in Contents
                       /\ \A k \in Keys \ Written(b, m) : After(t, b, m)[k] = t[k]
             Bad == {m \in 0..Len(b) : ~Ok(m)}
  <1> SUFFICES ASSUME Bad # {} PROVE FALSE
    OBVIOUS
  <1>1. PICK m \in Bad : \A k \in Bad : m <= k
    <2>1. Bad \in SUBSET Nat
      OBVIOUS
    <2> HIDE DEF Bad
    <2> QED
      BY <2>1, LeastOf
  <1>2. m \in 0..Len(b) /\ m \in Nat /\ ~Ok(m)
    OBVIOUS
  <1>3. m # 0
    BY <1>2, AfterEdits
  <1> DEFINE p == m - 1
             e == b[m]
  <1>4. p \in 0..Len(b) /\ ~(m <= p) /\ e \in Edit
    BY <1>2, <1>3
  <1>5. Ok(p)
    BY <1>1, <1>4
  <1>6. After(t, b, m) = Edited(After(t, b, p), e)
    BY <1>2, <1>3, AfterEdits
  <1>7. \A k \in Keys \ Written(b, m) : k \notin Written(b, p) /\ k \notin Writes(e)
    <2>1. \A i \in 1..p : i \in 1..m
      BY <1>2
    <2>2. m \in 1..m
      BY <1>2, <1>3
    <2> HIDE DEF p
    <2> QED
      BY <2>1, <2>2 DEF Written
  <1> HIDE DEF p, e
  <1>8. /\ After(t, b, m) \in Contents
        /\ \A k \in Keys \ Writes(e) : After(t, b, m)[k] = After(t, b, p)[k]
    <2> DEFINE u == After(t, b, p)
    <2>1. u \in Contents /\ e \in Edit /\ After(t, b, m) = Edited(u, e)
      BY <1>4, <1>5, <1>6
    <2> HIDE DEF u
    <2>2. Edited(u, e) \in Contents /\ \A k \in Keys \ Writes(e) : Edited(u, e)[k] = u[k]
      BY <2>1, EditedRows
    <2>3. After(t, b, m) \in Contents /\ \A k \in Keys \ Writes(e) : After(t, b, m)[k] = u[k]
      BY <2>1, <2>2
    <2> QED
      BY <2>3 DEF u
  <1> QED
    BY <1>2, <1>5, <1>7, <1>8

-----------------------------------------------------------------------------
(* A request.                                                               *)
RequestState ==
  [pc : {"idle", "patch", "insert", "restore", "succeeded", "failed"},
   undoing : BOOLEAN, batch : Seq(Edit), next : Nat, row : Actions \cup {Absent},
   before : Contents, clean : BOOLEAN]

Rows(b) == UNION {{b[i].key, b[i].newKey} : i \in DOMAIN b}

Same(K, t, u)  == \A k \in K : t[k] = u[k]
Alike(K, t, u) == \A k \in K : t[k] = Absent <=> u[k] = Absent

\* Where a request can be: in its batch, and only an edit that moves a row
\* takes more than one RPC.
Working(s) == s.pc \in {"patch", "insert", "restore"}

Placed(s) ==
  /\ s \in RequestState
  /\ s.next <= Len(s.batch)
  /\ Working(s) => s.next > 0
  /\ s.pc \in {"insert", "restore"} => Moves(s.batch[s.next])
  /\ s.undoing => s.next < Len(s.batch)
  /\ \A i \in DOMAIN s.batch : s.batch[i].kind = "insert" => Len(s.batch) = 1

At(s, n)      == After(s.before, s.batch, n)
Applied(n, s, m) == \A i \in 1..m : Admits(n, At(s, i - 1), s.batch[i])

\* The next edit can begin.
Ready(n, s, t) ==
  /\ Applied(n, s, s.next - 1)
  /\ Same(Rows(s.batch), t, At(s, s.next - 1))

\* The row was taken from its key, and n tells a Tofino.
Taken(n, s, t) ==
  LET e == s.batch[s.next]
      u == At(s, s.next - 1)
  IN /\ Applied(n, s, s.next - 1) /\ u[e.key] # Absent
     /\ Same(Rows(s.batch), t, [u EXCEPT ![e.key] = Absent])
     /\ s.row = IF n THEN u[e.key] ELSE e.action

\* What the first m edits do not write is as before.
Kept(s, t, m) == \A k \in Rows(s.batch) \ Written(s.batch, m) : t[k] = s.before[k]

\* What was not written yet, or was undone, is as before; what is there and
\* what is not is what the repairs go by.
Undone(n, s, t, u) ==
  /\ Applied(n, s, s.next)
  /\ Alike(Rows(s.batch), t, u)
  /\ Kept(s, t, s.next)

Forward(n, s, t) ==
  /\ s.pc = "patch" /\ ~s.undoing => Ready(n, s, t)
  /\ s.pc = "insert" /\ ~s.undoing => Taken(n, s, t)
  /\ s.pc = "succeeded" => Same(Rows(s.batch), t, At(s, Len(s.batch)))

Backward(n, s, t) ==
  /\ s.pc = "restore" => ~s.undoing /\ Taken(n, s, t)
  /\ s.pc = "patch" /\ s.undoing => Undone(n, s, t, At(s, s.next))
  /\ s.pc = "insert" /\ s.undoing =>
       Undone(n, s, t, [At(s, s.next) EXCEPT ![s.batch[s.next].newKey] = Absent])
  /\ s.pc = "failed" => Same(Rows(s.batch), t, s.before)

ReadAsWas(s) ==
  \A i \in DOMAIN s.batch :
    s.batch[i].kind # "insert" => s.before[s.batch[i].key] = s.batch[i].action

Known(n, s) == ReadAsWas(s) \/ (n /\ Len(s.batch) = 1)

Fits(n, s, t) == Forward(n, s, t) /\ (s.clean /\ Known(n, s) => Backward(n, s, t))

-----------------------------------------------------------------------------
(* Where an edit leads that was applied, or failed.                         *)
LEMMA NextEdit ==
  ASSUME NEW s, Placed(s), Working(s)
  PROVE  /\ s.next \in Nat /\ s.next \in 1..Len(s.batch) /\ Len(s.batch) \in Nat
         /\ s.next - 1 \in 0..Len(s.batch) /\ s.next \in 0..Len(s.batch)
         /\ s.batch[s.next] \in Edit /\ s.next \in DOMAIN s.batch
         /\ {s.batch[s.next].key, s.batch[s.next].newKey} \subseteq Rows(s.batch)
         /\ Rows(s.batch) \subseteq Keys
  <1>1. s.batch \in Seq(Edit) /\ s.next \in Nat /\ s.next > 0 /\ s.next <= Len(s.batch)
    BY DEF Placed, RequestState
  <1>2. s.next \in DOMAIN s.batch
    BY <1>1
  <1>3. \A i \in DOMAIN s.batch : s.batch[i].key \in Keys /\ s.batch[i].newKey \in Keys
    <2>1. \A i \in DOMAIN s.batch : s.batch[i] \in Edit
      BY <1>1
    <2> QED
      BY <2>1, EditShape
  <1> QED
    BY <1>1, <1>2, <1>3 DEF Rows

LEMMA AtRows ==
  ASSUME NEW s, Placed(s), NEW n \in 0..Len(s.batch)
  PROVE  /\ At(s, n) \in Contents
         /\ \A k \in Keys \ Written(s.batch, n) : At(s, n)[k] = s.before[k]
         /\ At(s, 0) = s.before
         /\ n # 0 => At(s, n) = Edited(At(s, n - 1), s.batch[n])
  <1>1. s.batch \in Seq(Edit) /\ s.before \in Contents /\ n \in Nat
    BY DEF Placed, RequestState
  <1> QED
    BY <1>1, AfterRows, AfterEdits DEF At

LEMMA AppliedLess ==
  ASSUME NEW n, NEW s, NEW m \in Nat, m # 0
  PROVE  /\ Applied(n, s, m) <=> Applied(n, s, m - 1) /\ Admits(n, At(s, m - 1), s.batch[m])
         /\ Written(s.batch, m) = Written(s.batch, m - 1) \cup Writes(s.batch[m])
  <1>1. 1..m = (1..(m - 1)) \cup {m}
    OBVIOUS
  <1>2. Applied(n, s, m) <=> Applied(n, s, m - 1) /\ Admits(n, At(s, m - 1), s.batch[m])
    BY <1>1 DEF Applied
  <1>3. Written(s.batch, m) = Written(s.batch, m - 1) \cup Writes(s.batch[m])
    BY <1>1 DEF Written
  <1> QED
    BY <1>2, <1>3

\* The parts of a request an RPC leaves alone.
Steady(s, s2) ==
  /\ s2.batch = s.batch /\ s2.before = s.before

Elsewhere(s, pc, next)  == [s EXCEPT !.pc = pc, !.next = next]
Returning(s, next)      == [s EXCEPT !.pc = "patch", !.undoing = TRUE, !.next = next]

LEMMA DoneShape ==
  ASSUME NEW s, Placed(s), Working(s)
  PROVE  LET d == PatchDone(s)
         IN  /\ Placed(d) /\ Steady(s, d) /\ d.clean = s.clean /\ d.row = s.row
             /\ s.undoing => /\ s.next = 1 => d.pc = "failed"
                             /\ s.next # 1 => d.pc = "patch" /\ d.undoing /\ d.next = s.next - 1
             /\ ~s.undoing => /\ s.next = Len(s.batch) => d.pc = "succeeded"
                              /\ s.next # Len(s.batch) =>
                                   d.pc = "patch" /\ ~d.undoing /\ d.next = s.next + 1
  <1> DEFINE d == PatchDone(s)
  <1>1. /\ s.next \in Nat /\ s.next \in 1..Len(s.batch) /\ Len(s.batch) \in Nat
        /\ s \in RequestState
        /\ s.undoing \in BOOLEAN
    BY NextEdit DEF Placed, RequestState
  <1>2. /\ s.next <= Len(s.batch) /\ (s.undoing => s.next < Len(s.batch))
        /\ \A i \in DOMAIN s.batch : s.batch[i].kind = "insert" => Len(s.batch) = 1
    BY DEF Placed
  <1>3. CASE s.undoing /\ s.next = 1
    <2>1. d = Elsewhere(s, "failed", s.next)
      BY <1>1, <1>3 DEF PatchDone, Elsewhere, RequestState
    <2> HIDE DEF d
    <2>2. /\ d \in RequestState /\ Steady(s, d) /\ d.clean = s.clean /\ d.row = s.row
          /\ d.pc = "failed" /\ d.undoing = s.undoing /\ d.next = s.next
      BY <1>1, <2>1 DEF Steady, Elsewhere, Returning, RequestState
    <2>3. Placed(d)
      BY <1>2, <2>2 DEF Placed, Steady, Working
    <2> QED
      BY <1>3, <2>2, <2>3 DEF d
  <1>4. CASE s.undoing /\ s.next # 1
    <2>1. d = Elsewhere(s, "patch", s.next - 1) /\ s.next - 1 \in Nat
      BY <1>1, <1>4 DEF PatchDone, Elsewhere, RequestState
    <2> HIDE DEF d
    <2>2. /\ d \in RequestState /\ Steady(s, d) /\ d.clean = s.clean /\ d.row = s.row
          /\ d.pc = "patch" /\ d.undoing = s.undoing /\ d.next = s.next - 1
      BY <1>1, <2>1 DEF Steady, Elsewhere, Returning, RequestState
    <2>3. Placed(d)
      BY <1>1, <1>2, <1>4, <2>2 DEF Placed, Steady, Working
    <2> QED
      BY <1>4, <2>2, <2>3 DEF d
  <1>5. CASE ~s.undoing /\ s.next = Len(s.batch)
    <2>1. d = Elsewhere(s, "succeeded", s.next)
      BY <1>1, <1>5 DEF PatchDone, Elsewhere, RequestState, IsLast
    <2> HIDE DEF d
    <2>2. /\ d \in RequestState /\ Steady(s, d) /\ d.clean = s.clean /\ d.row = s.row
          /\ d.pc = "succeeded" /\ d.undoing = s.undoing /\ d.next = s.next
      BY <1>1, <2>1 DEF Steady, Elsewhere, Returning, RequestState
    <2>3. Placed(d)
      BY <1>2, <2>2 DEF Placed, Steady, Working
    <2> QED
      BY <1>5, <2>2, <2>3 DEF d
  <1>6. CASE ~s.undoing /\ s.next # Len(s.batch)
    <2>1. d = Elsewhere(s, "patch", s.next + 1) /\ s.next + 1 \in Nat
      BY <1>1, <1>6 DEF PatchDone, Elsewhere, RequestState, IsLast
    <2> HIDE DEF d
    <2>2. /\ d \in RequestState /\ Steady(s, d) /\ d.clean = s.clean /\ d.row = s.row
          /\ d.pc = "patch" /\ d.undoing = s.undoing /\ d.next = s.next + 1
      BY <1>1, <2>1 DEF Steady, Elsewhere, Returning, RequestState
    <2>3. Placed(d)
      BY <1>1, <1>2, <1>6, <2>2 DEF Placed, Steady, Working
    <2> QED
      BY <1>6, <2>2, <2>3 DEF d
  <1> QED
    BY <1>3, <1>4, <1>5, <1>6

LEMMA FailedShape ==
  ASSUME NEW s, Placed(s), Working(s)
  PROVE  LET f == PatchFailed(s)
         IN  /\ Placed(f) /\ Steady(s, f) /\ f.clean = s.clean /\ f.row = s.row
             /\ s.undoing \/ s.next = 1 => f.pc = "failed"
             /\ ~s.undoing /\ s.next # 1 => f.pc = "patch" /\ f.undoing /\ f.next = s.next - 1
  <1> DEFINE f == PatchFailed(s)
  <1>1. /\ s.next \in Nat /\ s.next \in 1..Len(s.batch) /\ Len(s.batch) \in Nat
        /\ s \in RequestState
        /\ s.undoing \in BOOLEAN
    BY NextEdit DEF Placed, RequestState
  <1>2. /\ s.next <= Len(s.batch) /\ (s.undoing => s.next < Len(s.batch))
        /\ \A i \in DOMAIN s.batch : s.batch[i].kind = "insert" => Len(s.batch) = 1
    BY DEF Placed
  <1>3. CASE s.undoing \/ s.next = 1
    <2>1. f = Elsewhere(s, "failed", s.next)
      <3>1. f = [s EXCEPT !.pc = "failed"]
        BY <1>1, <1>3 DEF PatchFailed, LastApplied
      <3> QED
        BY <1>1, <3>1 DEF Elsewhere, RequestState
    <2> HIDE DEF f
    <2>2. /\ f \in RequestState /\ Steady(s, f) /\ f.clean = s.clean /\ f.row = s.row
          /\ f.pc = "failed" /\ f.undoing = s.undoing /\ f.next = s.next
      BY <1>1, <2>1 DEF Steady, Elsewhere, Returning, RequestState
    <2>3. Placed(f)
      BY <1>2, <2>2 DEF Placed, Steady, Working
    <2> QED
      BY <1>3, <2>2, <2>3 DEF f
  <1>4. CASE ~s.undoing /\ s.next # 1
    <2>1. f = Returning(s, s.next - 1) /\ s.next - 1 \in Nat
      BY <1>1, <1>4 DEF PatchFailed, LastApplied, Elsewhere, Returning, RequestState
    <2> HIDE DEF f
    <2>2. /\ f \in RequestState /\ Steady(s, f) /\ f.clean = s.clean /\ f.row = s.row
          /\ f.pc = "patch" /\ f.undoing = TRUE /\ f.next = s.next - 1
      BY <1>1, <2>1 DEF Steady, Elsewhere, Returning, RequestState
    <2>3. Placed(f)
      BY <1>1, <1>2, <1>4, <2>2 DEF Placed, Steady, Working
    <2> QED
      BY <1>4, <2>2, <2>3 DEF f
  <1> QED
    BY <1>3, <1>4

-----------------------------------------------------------------------------
(* Where a request stands does not depend on the rows it does not edit.     *)
LEMMA PlacedRows ==
  ASSUME NEW s, Placed(s)
  PROVE  /\ Rows(s.batch) \subseteq Keys /\ Len(s.batch) \in Nat /\ s.before \in Contents
         /\ \A i \in DOMAIN s.batch : s.batch[i] \in Edit
         /\ \A i \in DOMAIN s.batch : {s.batch[i].key, s.batch[i].newKey} \subseteq Rows(s.batch)
  <1>1. s.batch \in Seq(Edit) /\ s.before \in Contents
    BY DEF Placed, RequestState
  <1>2. \A i \in DOMAIN s.batch : s.batch[i] \in Edit
    BY <1>1
  <1>3. \A i \in DOMAIN s.batch : s.batch[i].key \in Keys /\ s.batch[i].newKey \in Keys
    BY <1>2, EditShape
  <1>4. Len(s.batch) \in Nat
    BY <1>1
  <1> QED
    BY <1>1, <1>2, <1>3, <1>4 DEF Rows

LEMMA FitsByRows ==
  ASSUME NEW n, NEW s, NEW t, NEW u, Same(Rows(s.batch), t, u), Fits(n, s, t)
  PROVE  Fits(n, s, u)
  <1>1. Ready(n, s, t) => Ready(n, s, u)
    BY DEF Ready, Same
  <1>2. Taken(n, s, t) => Taken(n, s, u)
    BY DEF Taken, Same
  <1>3. ASSUME NEW v, Undone(n, s, t, v) PROVE Undone(n, s, u, v)
    BY <1>3 DEF Undone, Same, Alike, Kept
  <1>4. Forward(n, s, u)
    BY <1>1, <1>2 DEF Fits, Forward, Same
  <1>5. ASSUME Backward(n, s, t) PROVE Backward(n, s, u)
    BY <1>2, <1>3, <1>5 DEF Backward, Same
  <1> QED
    BY <1>4, <1>5 DEF Fits

-----------------------------------------------------------------------------
(* What an edit that failed leaves.                                         *)

\* What has to be undone, or has been.
Returns(s) == s.pc # "succeeded" /\ (s.undoing \/ s.pc \in {"failed", "restore"})

LEMMA DirtyFits ==
  ASSUME NEW n, NEW s, NEW t, Returns(s), s.clean /\ Known(n, s) => Backward(n, s, t),
         s \in RequestState
  PROVE  Fits(n, s, t)
  BY DEF Returns, Fits, Forward, RequestState

\* The outcomes of a call that reports an error: the reply was lost, the
\* switch could not, or it refused at will.
Errs(s, t, can, k, v, f, s2, t2) ==
  \/ can /\ t2 = [t EXCEPT ![k] = v] /\ s2 = [f EXCEPT !.clean = FALSE]
  \/ ~can /\ t2 = t /\ s2 = f
  \/ can /\ t2 = t /\ s2 = [f EXCEPT !.clean = @ /\ ~Repairing(s)]

LEMMA CleanShape ==
  ASSUME NEW f, Placed(f), NEW x \in BOOLEAN
  PROVE  LET d == [f EXCEPT !.clean = x]
         IN  /\ Placed(d) /\ Steady(f, d) /\ (Returns(f) => Returns(d)) /\ d.clean = x
             /\ x = f.clean => d = f
  <1> DEFINE d == [f EXCEPT !.clean = x]
  <1>1. f \in RequestState /\ f.next <= Len(f.batch)
    BY DEF Placed
  <1>2. /\ d \in RequestState /\ d.pc = f.pc /\ d.undoing = f.undoing /\ d.batch = f.batch
        /\ d.next = f.next /\ d.before = f.before /\ d.clean = x
        /\ x = f.clean => d = f
    BY <1>1 DEF RequestState
  <1> HIDE DEF d
  <1>3. Placed(d)
    BY <1>1, <1>2 DEF Placed, Working
  <1>4. Steady(f, d) /\ (Returns(f) => Returns(d))
    BY <1>2 DEF Steady, Returns
  <1> QED
    BY <1>2, <1>3, <1>4 DEF d

LEMMA ErrsFits ==
  ASSUME NEW n, NEW s, NEW t, NEW can, NEW k, NEW v, NEW f, NEW s2, NEW t2,
         Errs(s, t, can, k, v, f, s2, t2), Placed(f), Returns(f), Steady(s, f),
         ~Repairing(s) /\ f.clean /\ Known(n, f) => Backward(n, f, t),
         Repairing(s) /\ f.clean /\ Known(n, f) => can
  PROVE  Placed(s2) /\ Steady(s, s2) /\ Fits(n, s2, t2)
  <1>1. f \in RequestState /\ f.clean \in BOOLEAN
    BY DEF Placed, RequestState
  <1>2. CASE s2 = [f EXCEPT !.clean = FALSE]
    <2>1. Placed(s2) /\ Steady(f, s2) /\ Returns(s2) /\ ~s2.clean
      BY <1>2, CleanShape
    <2>2. Fits(n, s2, t2)
      BY <2>1, DirtyFits DEF Placed
    <2> QED
      BY <2>1, <2>2 DEF Steady
  <1>3. CASE ~can /\ t2 = t /\ s2 = f
    <2>1. f.clean /\ Known(n, f) => Backward(n, f, t)
      BY <1>3
    <2>2. Fits(n, f, t)
      BY <1>1, <2>1, DirtyFits
    <2> QED
      BY <1>3, <2>2
  <1>4. CASE can /\ t2 = t /\ s2 = [f EXCEPT !.clean = @ /\ ~Repairing(s)]
    <2>1. CASE Repairing(s)
      <3>1. s2 = [f EXCEPT !.clean = FALSE]
        BY <1>4, <2>1
      <3> QED
        BY <1>2, <3>1
    <2>2. CASE ~Repairing(s)
      <3>1. s2 = [f EXCEPT !.clean = f.clean]
        BY <1>1, <1>4, <2>2
      <3>2. s2 = f
        BY <1>1, <3>1, CleanShape
      <3>3. Fits(n, f, t)
        BY <1>1, <2>2, DirtyFits
      <3> QED
        BY <1>4, <3>2, <3>3
    <2> QED
      BY <2>1, <2>2
  <1> QED
    BY <1>2, <1>3, <1>4 DEF Errs

\* The first m edits are applied and are to be undone, in a state s2 in which
\* the client has come to that.
LEMMA ToUndo ==
  ASSUME NEW n, NEW s, NEW s2, NEW t, NEW m \in Nat, Placed(s), m <= Len(s.batch), Steady(s, s2),
         m = 0 => s2.pc = "failed",
         m # 0 => s2.pc = "patch" /\ s2.undoing /\ s2.next = m,
         Applied(n, s, m), Alike(Rows(s.batch), t, At(s, m)),
         Kept(s, t, m)
  PROVE  Forward(n, s2, t) /\ Backward(n, s2, t)
  <1>1. s2.batch = s.batch /\ s2.before = s.before
    BY DEF Steady
  <1>2. At(s2, m) = At(s, m) /\ (Applied(n, s2, m) <=> Applied(n, s, m))
    BY <1>1 DEF At, Applied
  <1>3. CASE m = 0
    <2>1. Written(s.batch, 0) = {}
      BY DEF Written
    <2> QED
      BY <1>1, <1>3, <2>1 DEF Forward, Backward, Same, Kept
  <1>4. CASE m # 0
    <2>1. Undone(n, s2, t, At(s2, m))
      BY <1>1, <1>2, <1>4 DEF Undone, Kept
    <2> QED
      BY <1>4, <2>1 DEF Forward, Backward
  <1> QED
    BY <1>3, <1>4

\* An edit that failed: what was before it is to be undone.
LEMMA FailedToUndo ==
  ASSUME NEW n, NEW s, NEW t, Placed(s), Working(s), ~s.undoing,
         Applied(n, s, s.next - 1), Alike(Rows(s.batch), t, At(s, s.next - 1)),
         Kept(s, t, s.next - 1)
  PROVE  Forward(n, PatchFailed(s), t) /\ Backward(n, PatchFailed(s), t)
  <1> DEFINE m == s.next - 1
             f == PatchFailed(s)
  <1>1. m \in Nat /\ m <= Len(s.batch) /\ (m = 0 <=> s.next = 1)
    BY NextEdit
  <1>2. /\ Steady(s, f)
        /\ s.next = 1 => f.pc = "failed"
        /\ s.next # 1 => f.pc = "patch" /\ f.undoing /\ f.next = s.next - 1
    BY FailedShape
  <1>3. /\ Applied(n, s, m) /\ Alike(Rows(s.batch), t, At(s, m))
        /\ Kept(s, t, m)
        /\ m = 0 => f.pc = "failed"
        /\ m # 0 => f.pc = "patch" /\ f.undoing /\ f.next = m
    BY <1>1, <1>2
  <1> HIDE DEF m, f
  <1>4. Forward(n, f, t) /\ Backward(n, f, t)
    BY <1>1, <1>2, <1>3, ToUndo
  <1> QED
    BY <1>4 DEF f

\* An edit that was undone.
LEMMA DoneToUndo ==
  ASSUME NEW n, NEW s, NEW t, Placed(s), Working(s), s.undoing,
         Applied(n, s, s.next - 1), Alike(Rows(s.batch), t, At(s, s.next - 1)),
         Kept(s, t, s.next - 1)
  PROVE  Forward(n, PatchDone(s), t) /\ Backward(n, PatchDone(s), t)
  <1> DEFINE m == s.next - 1
             f == PatchDone(s)
  <1>1. m \in Nat /\ m <= Len(s.batch) /\ (m = 0 <=> s.next = 1)
    BY NextEdit
  <1>2. /\ Steady(s, f)
        /\ s.next = 1 => f.pc = "failed"
        /\ s.next # 1 => f.pc = "patch" /\ f.undoing /\ f.next = s.next - 1
    BY DoneShape
  <1>3. /\ Applied(n, s, m) /\ Alike(Rows(s.batch), t, At(s, m))
        /\ Kept(s, t, m)
        /\ m = 0 => f.pc = "failed"
        /\ m # 0 => f.pc = "patch" /\ f.undoing /\ f.next = m
    BY <1>1, <1>2
  <1> HIDE DEF m, f
  <1>4. Forward(n, f, t) /\ Backward(n, f, t)
    BY <1>1, <1>2, <1>3, ToUndo
  <1> QED
    BY <1>4 DEF f

\* An edit that was applied leads to the next, or to the end.
LEMMA DoneForward ==
  ASSUME NEW n, NEW s, NEW t, Placed(s), Working(s), ~s.undoing,
         Applied(n, s, s.next - 1), Admits(n, At(s, s.next - 1), s.batch[s.next]),
         Same(Rows(s.batch), t, At(s, s.next))
  PROVE  Forward(n, PatchDone(s), t) /\ Backward(n, PatchDone(s), t)
  <1> DEFINE d == PatchDone(s)
  <1>1. /\ Steady(s, d)
        /\ s.next = Len(s.batch) => d.pc = "succeeded"
        /\ s.next # Len(s.batch) =>
                                   d.pc = "patch" /\ ~d.undoing /\ d.next = s.next + 1
    BY DoneShape
  <1>2. s.next \in Nat /\ s.next # 0 /\ s.next + 1 - 1 = s.next
    BY NextEdit
  <1>3. Applied(n, s, s.next)
    BY <1>2, AppliedLess
  <1> HIDE DEF d
  <1>4. /\ d.batch = s.batch /\ At(d, s.next) = At(s, s.next)
        /\ Applied(n, d, s.next) <=> Applied(n, s, s.next)
    BY <1>1 DEF Steady, At, Applied
  <1>5. CASE s.next = Len(s.batch)
    <2>1. d.pc = "succeeded" /\ Same(Rows(d.batch), t, At(d, Len(d.batch)))
      BY <1>1, <1>4, <1>5
    <2>2. Forward(n, d, t)
      BY <2>1 DEF Forward
    <2>3. Backward(n, d, t)
      BY <2>1 DEF Backward
    <2> QED
      BY <2>2, <2>3 DEF d
  <1>6. CASE s.next # Len(s.batch)
    <2>1. Ready(n, d, t)
      BY <1>1, <1>2, <1>3, <1>4, <1>6 DEF Ready
    <2>2. d.pc = "patch" /\ ~d.undoing
      BY <1>1, <1>6
    <2>3. Forward(n, d, t)
      BY <2>1, <2>2 DEF Forward
    <2>4. Backward(n, d, t)
      BY <2>2 DEF Backward
    <2> QED
      BY <2>3, <2>4 DEF d
  <1> QED
    BY <1>5, <1>6

-----------------------------------------------------------------------------
(* The outcomes of a call that a request makes for its next edit.           *)

\* Applied, the table is as the edit means it.
LEMMA AppliedFits ==
  ASSUME NEW n, NEW s, NEW t, Placed(s), Working(s), ~s.undoing,
         Applied(n, s, s.next - 1), Admits(n, At(s, s.next - 1), s.batch[s.next]),
         Same(Rows(s.batch), t, Edited(At(s, s.next - 1), s.batch[s.next]))
  PROVE  Placed(PatchDone(s)) /\ Steady(s, PatchDone(s)) /\ Fits(n, PatchDone(s), t)
  <1>1. s.next \in 0..Len(s.batch) /\ s.next # 0
    BY NextEdit
  <1>2. At(s, s.next) = Edited(At(s, s.next - 1), s.batch[s.next])
    BY <1>1, AtRows
  <1>3. Forward(n, PatchDone(s), t) /\ Backward(n, PatchDone(s), t)
    BY <1>2, DoneForward
  <1> QED
    BY <1>3, DoneShape DEF Fits

\* Undone, what is there is as before it.
LEMMA UndoneFits ==
  ASSUME NEW n, NEW s, NEW t, Placed(s), Working(s), s.undoing,
         s.clean /\ Known(n, s) =>
           /\ Applied(n, s, s.next - 1) /\ Alike(Rows(s.batch), t, At(s, s.next - 1))
           /\ Kept(s, t, s.next - 1)
  PROVE  Placed(PatchDone(s)) /\ Steady(s, PatchDone(s)) /\ Fits(n, PatchDone(s), t)
  <1> DEFINE d == PatchDone(s)
  <1>1. /\ Placed(d) /\ Steady(s, d) /\ d.clean = s.clean
        /\ d.pc = "failed" \/ (d.pc = "patch" /\ d.undoing)
    BY DoneShape
  <1>2. s.clean /\ Known(n, s) => Backward(n, d, t)
    BY DoneToUndo
  <1> HIDE DEF d
  <1>3. Known(n, d) <=> Known(n, s)
    BY <1>1 DEF Steady, Known, ReadAsWas
  <1>4. Returns(d) /\ d \in RequestState
    BY <1>1 DEF Returns, Placed
  <1>5. Fits(n, d, t)
    BY <1>1, <1>2, <1>3, <1>4, DirtyFits
  <1> QED
    BY <1>1, <1>5 DEF d

\* An edit that failed before it changed anything.
LEMMA PatchFails ==
  ASSUME NEW n, NEW s, NEW t \in Contents, NEW can, NEW k, NEW v, NEW s2, NEW t2,
         Placed(s), s.pc = "patch", Fits(n, s, t),
         s.undoing /\ s.clean /\ Known(n, s) => can,
         Errs(s, t, can, k, v, PatchFailed(s), s2, t2)
  PROVE  Placed(s2) /\ Steady(s, s2) /\ Fits(n, s2, t2)
  <1> DEFINE f == PatchFailed(s)
  <1>1. Working(s)
    BY DEF Working
  <1>2. /\ Placed(f) /\ Steady(s, f) /\ f.clean = s.clean
        /\ f.pc = "failed" \/ (f.pc = "patch" /\ f.undoing)
    BY <1>1, FailedShape
  <1>3. ASSUME ~s.undoing PROVE Backward(n, f, t)
    <2>1. Ready(n, s, t)
      BY <1>3 DEF Fits, Forward
    <2>2. s.next - 1 \in 0..Len(s.batch) /\ Rows(s.batch) \subseteq Keys
      BY <1>1, NextEdit
    <2>3. Alike(Rows(s.batch), t, At(s, s.next - 1))
      BY <2>1 DEF Ready, Same, Alike
    <2>4. Kept(s, t, s.next - 1)
      BY <2>1, <2>2, AtRows DEF Ready, Same, Kept
    <2> QED
      BY <1>1, <1>3, <2>1, <2>3, <2>4, FailedToUndo DEF Ready
  <1> HIDE DEF f
  <1>4. Known(n, f) <=> Known(n, s)
    BY <1>2 DEF Steady, Known, ReadAsWas
  <1>5. Returns(f)
    BY <1>2 DEF Returns
  <1>6. Repairing(s) <=> s.undoing
    BY DEF Repairing
  <1>7. Errs(s, t, can, k, v, f, s2, t2)
    BY DEF f
  <1>8. Repairing(s) /\ f.clean /\ Known(n, f) => can
    BY <1>2, <1>4, <1>6
  <1>9. ~Repairing(s) => Backward(n, f, t)
    BY <1>3, <1>6
  <1> QED
    BY <1>2, <1>5, <1>7, <1>8, <1>9, ErrsFits

\* Only a batch of several edits is undone.
LEMMA UndoingMany ==
  ASSUME NEW s, Placed(s), Working(s), s.undoing
  PROVE  Len(s.batch) # 1
  <1>1. \A i, j \in Nat : i > 0 /\ i < j => j # 1
    OBVIOUS
  <1>2. Len(s.batch) \in Nat /\ s.next \in Nat /\ s.next > 0
    BY NextEdit
  <1> QED
    BY <1>1, <1>2 DEF Placed

\* The reverse of an edit.
LEMMA WorkShape ==
  ASSUME NEW s, Placed(s), Working(s)
  PROVE  LET e == s.batch[s.next]
             w == Work(s)
         IN  /\ w.kind \in {"replace", "delete", "insert"}
             /\ w.key \in Rows(s.batch) /\ w.newKey \in Rows(s.batch)
             /\ w.action \in Actions /\ w.newAction \in Actions
             /\ w.kind = "replace" <=> e.kind = "replace"
             /\ ~s.undoing => w = e
             /\ s.undoing => /\ e.kind # "insert" /\ (w.kind = "insert" <=> e.kind = "delete")
                             /\ w.kind # "delete"
                             /\ w.key = e.newKey /\ w.action = e.newAction
                             /\ w.newKey = e.key /\ w.newAction = e.action
  <1> DEFINE e == s.batch[s.next]
  <1>1. /\ e \in Edit /\ {e.key, e.newKey} \subseteq Rows(s.batch) /\ s.next \in DOMAIN s.batch
        /\ Len(s.batch) \in Nat /\ s.next \in Nat /\ s.next > 0
    BY NextEdit
  <1>2. e.kind = "insert" => Len(s.batch) = 1
    BY <1>1 DEF Placed
  <1>3. s.undoing => e.kind # "insert"
    <2> HIDE DEF e
    <2> QED
      BY <1>2, UndoingMany
  <1> HIDE DEF e
  <1>4. /\ e.kind \in {"replace", "delete", "insert"}
        /\ e.action \in Actions /\ e.newAction \in Actions
    BY <1>1, EditShape
  <1>5. CASE s.undoing
    <2>1. Work(s) = [kind |-> IF e.kind = "delete" THEN "insert" ELSE e.kind, key |-> e.newKey,
                     action |-> e.newAction, newKey |-> e.key, newAction |-> e.action]
      BY <1>5 DEF Work, e
    <2> QED
      BY <1>1, <1>3, <1>4, <1>5, <2>1 DEF e
  <1>6. CASE ~s.undoing
    <2>1. Work(s) = e
      BY <1>6 DEF Work, e
    <2> QED
      BY <1>1, <1>4, <1>6, <2>1 DEF e
  <1> QED
    BY <1>5, <1>6

\* What a request knows whose next edit can begin.
LEMMA ForwardState ==
  ASSUME NEW n, NEW s, NEW t \in Contents, Placed(s), s.pc = "patch", ~s.undoing, Fits(n, s, t)
  PROVE  LET e == s.batch[s.next]
             u == At(s, s.next - 1)
         IN  /\ Applied(n, s, s.next - 1) /\ u \in Contents /\ e \in Edit
             /\ Same(Rows(s.batch), t, u)
             /\ e.key \in Rows(s.batch) /\ e.newKey \in Rows(s.batch)
             /\ Rows(s.batch) \subseteq Keys /\ Working(s)
  <1>1. Working(s)
    BY DEF Working
  <1>2. Ready(n, s, t)
    BY DEF Fits, Forward
  <1> QED
    BY <1>1, <1>2, NextEdit, AtRows DEF Ready

\* What a request knows that undoes an edit.
LEMMA UndoingState ==
  ASSUME NEW n, NEW s, NEW t \in Contents, Placed(s), Working(s), s.undoing, Fits(n, s, t),
         s.clean, Known(n, s)
  PROVE  LET m == s.next
             e == s.batch[m]
             u == At(s, m - 1)
             R == Rows(s.batch)
         IN  /\ R \subseteq Keys /\ e.key \in R /\ e.newKey \in R /\ e \in Edit
             /\ e.kind # "insert" /\ s.before[e.key] = e.action
             /\ Applied(n, s, m - 1) /\ Admits(n, u, e) /\ u \in Contents
             /\ Kept(s, u, m - 1)
             /\ Written(s.batch, m) = Written(s.batch, m - 1) \cup Writes(e)
             /\ Kept(s, t, m)
             /\ s.pc # "restore"
             /\ s.pc = "patch" => Alike(R, t, Edited(u, e))
             /\ s.pc = "insert" => Alike(R, t, [Edited(u, e) EXCEPT ![e.newKey] = Absent])
  <1> DEFINE m == s.next
             e == s.batch[m]
             u == At(s, m - 1)
             R == Rows(s.batch)
  <1>1. /\ R \subseteq Keys /\ e.key \in R /\ e.newKey \in R /\ e \in Edit /\ m \in DOMAIN s.batch
        /\ m \in Nat /\ m # 0 /\ m \in 0..Len(s.batch) /\ m - 1 \in 0..Len(s.batch)
        /\ Len(s.batch) \in Nat
    BY NextEdit
  <1>2. e.kind # "insert"
    BY WorkShape
  <1>3. s.before[e.key] = e.action
    <2>1. ReadAsWas(s)
      BY UndoingMany DEF Known
    <2> QED
      BY <1>1, <1>2, <2>1 DEF ReadAsWas
  <1>4. Backward(n, s, t)
    BY DEF Fits
  <1>5. s.pc # "restore" /\ (s.pc = "patch" \/ s.pc = "insert")
    BY <1>4 DEF Backward, Working
  <1>6. At(s, m) = Edited(u, e) /\ u \in Contents /\ Kept(s, u, m - 1)
    BY <1>1, AtRows DEF Kept
  <1>7. Applied(n, s, m) /\ Kept(s, t, m)
    BY <1>4, <1>5 DEF Backward, Undone
  <1>8. /\ s.pc = "patch" => Alike(R, t, Edited(u, e))
        /\ s.pc = "insert" => Alike(R, t, [Edited(u, e) EXCEPT ![e.newKey] = Absent])
    BY <1>4, <1>6 DEF Backward, Undone
  <1>9. /\ Applied(n, s, m - 1) /\ Admits(n, u, e)
        /\ Written(s.batch, m) = Written(s.batch, m - 1) \cup Writes(e)
    BY <1>1, <1>7, AppliedLess
  <1> QED
    BY <1>1, <1>2, <1>3, <1>5, <1>6, <1>7, <1>8, <1>9

-----------------------------------------------------------------------------
(* The operations.                                                          *)
Calls(s, t, can, k, v, d, f, s2, t2) ==
  \/ can /\ t2 = [t EXCEPT ![k] = v] /\ s2 = d
  \/ Errs(s, t, can, k, v, f, s2, t2)

Proceeds(n, s, s2, t2) == Placed(s2) /\ Steady(s, s2) /\ Fits(n, s2, t2)

LEMMA NothingGoes ==
  ASSUME NEW n, NEW s, NEW t \in Contents, Placed(s), Fits(n, s, t), s.pc = "patch",
         Work(s).kind = "replace", Unchanged(Work(s)), n \/ DirectMeter => t[Work(s).key] # Absent
  PROVE  Proceeds(n, s, PatchDone(s), t)
  <1> DEFINE e == s.batch[s.next]
             u == At(s, s.next - 1)
             R == Rows(s.batch)
  <1>1. Working(s)
    BY DEF Working
  <1>2. Nothing(e) /\ Writes(e) = {} /\ Work(s).key = e.key
    BY <1>1, WorkShape DEF Unchanged, Nothing, Writes
  <1>3. CASE ~s.undoing
    <2>1. /\ Applied(n, s, s.next - 1) /\ u \in Contents /\ e \in Edit /\ Same(R, t, u)
          /\ e.key \in R
      BY <1>3, ForwardState
    <2>2. Admits(n, u, e) /\ Same(R, t, Edited(u, e))
      <3> HIDE DEF u, e
      <3> QED
        BY <1>2, <2>1, EditedRows DEF Admits, Same
    <2> QED
      BY <1>1, <1>3, <2>1, <2>2, AppliedFits DEF Proceeds
  <1>4. CASE s.undoing
    <2>1. ASSUME s.clean, Known(n, s)
          PROVE  Applied(n, s, s.next - 1) /\ Alike(R, t, u) /\ Kept(s, t, s.next - 1)
      <3>1. /\ Applied(n, s, s.next - 1) /\ u \in Contents /\ e \in Edit
            /\ Written(s.batch, s.next) = Written(s.batch, s.next - 1) \cup Writes(e)
            /\ Kept(s, t, s.next) /\ Alike(R, t, Edited(u, e))
        BY <1>1, <1>4, <2>1, UndoingState
      <3> HIDE DEF u, e
      <3>2. Edited(u, e) = u
        BY <1>2, <3>1, EditedRows
      <3> QED
        BY <1>2, <3>1, <3>2 DEF Kept
    <2> QED
      BY <1>1, <1>4, <2>1, UndoneFits DEF Proceeds
  <1> QED
    BY <1>3, <1>4

\* The read of a row that an edit leaves as it is.
LEMMA ReadGoes ==
  ASSUME NEW n, n \/ DirectMeter, NEW s, NEW t \in Contents, NEW s2, NEW t2,
         Placed(s), Fits(n, s, t), s.pc = "patch", Work(s).kind = "replace", Unchanged(Work(s)),
         Calls(s, t, t[Work(s).key] # Absent, Work(s).key, t[Work(s).key],
               PatchDone(s), PatchFailed(s), s2, t2)
  PROVE  Proceeds(n, s, s2, t2)
  <1> DEFINE e == s.batch[s.next]
             u == At(s, s.next - 1)
             R == Rows(s.batch)
             k == Work(s).key
             can == t[k] # Absent
  <1>1. Working(s)
    BY DEF Working
  <1>2. Nothing(e) /\ k = e.key
    BY <1>1, WorkShape DEF Unchanged, Nothing
  <1>3. [t EXCEPT ![k] = t[k]] = t
    BY DEF Contents
  <1>4. ASSUME can PROVE Proceeds(n, s, PatchDone(s), t)
    BY <1>4, NothingGoes
  <1>5. ASSUME s.undoing, s.clean, Known(n, s) PROVE can
    <2>1. /\ Admits(n, u, e) /\ u \in Contents /\ e \in Edit /\ e.key \in R
          /\ Alike(R, t, Edited(u, e))
      BY <1>1, <1>5, UndoingState
    <2> HIDE DEF u, e, R, k
    <2>2. Edited(u, e) = u
      BY <1>2, <2>1, EditedRows
    <2>3. u[e.key] # Absent
      BY <1>2, <2>1 DEF Admits
    <2> QED
      BY <1>2, <2>1, <2>2, <2>3 DEF Alike, can
  <1>6. CASE can /\ t2 = [t EXCEPT ![k] = t[k]] /\ s2 = PatchDone(s)
    BY <1>3, <1>4, <1>6
  <1>7. CASE Errs(s, t, can, k, t[k], PatchFailed(s), s2, t2)
    <2> HIDE DEF can, k
    <2> QED
      BY <1>5, <1>7, PatchFails DEF Proceeds
  <1> QED
    BY <1>6, <1>7 DEF Calls

LEMMA RemoveGoes ==
  ASSUME NEW n, NEW s, NEW t \in Contents, NEW s2, NEW t2, Placed(s), Fits(n, s, t),
         s.pc = "patch", Work(s).kind = "delete",
         Calls(s, t, t[Work(s).key] # Absent, Work(s).key, Absent, PatchDone(s), PatchFailed(s),
               s2, t2)
  PROVE  Proceeds(n, s, s2, t2)
  <1> DEFINE e == s.batch[s.next]
             u == At(s, s.next - 1)
             R == Rows(s.batch)
  <1>1. Working(s)
    BY DEF Working
  <1>2. ~s.undoing /\ Work(s) = e /\ e.kind = "delete"
    BY <1>1, WorkShape
  <1>3. /\ Applied(n, s, s.next - 1) /\ u \in Contents /\ e \in Edit /\ Same(R, t, u)
        /\ e.key \in R /\ R \subseteq Keys
    BY <1>2, ForwardState
  <1>4. CASE t[e.key] # Absent /\ t2 = [t EXCEPT ![e.key] = Absent] /\ s2 = PatchDone(s)
    <2> HIDE DEF u, e, R
    <2>1. ~Nothing(e) /\ Writes(e) = {e.key} /\ ~Moves(e)
      BY <1>2 DEF Nothing, Moves, Writes
    <2>2. Admits(n, u, e)
      BY <1>2, <1>3, <1>4, <2>1 DEF Admits, Same
    <2>3. /\ Edited(u, e)[e.key] = Absent
          /\ \A k \in Keys \ {e.key} : Edited(u, e)[k] = u[k]
      BY <1>2, <1>3, <2>1, EditedRows
    <2>4. Same(R, t2, Edited(u, e))
      BY <1>3, <1>4, <2>3 DEF Same, Contents
    <2> QED
      BY <1>1, <1>2, <1>3, <1>4, <2>2, <2>4, AppliedFits DEF Proceeds, u, e, R
  <1>5. CASE Errs(s, t, t[e.key] # Absent, e.key, Absent, PatchFailed(s), s2, t2)
    BY <1>2, <1>5, PatchFails DEF Proceeds
  <1> QED
    BY <1>2, <1>4, <1>5 DEF Calls

LEMMA PostGoes ==
  ASSUME NEW n, NEW s, NEW t \in Contents, NEW s2, NEW t2, Placed(s), Fits(n, s, t),
         s.pc = "patch", Work(s).kind = "insert",
         Calls(s, t, t[Work(s).newKey] = Absent, Work(s).newKey, Work(s).newAction,
               PatchDone(s), PatchFailed(s), s2, t2)
  PROVE  Proceeds(n, s, s2, t2)
  <1> DEFINE w == Work(s)
             e == s.batch[s.next]
             u == At(s, s.next - 1)
             R == Rows(s.batch)
             can == t[w.newKey] = Absent
  <1>1. Working(s)
    BY DEF Working
  <1>2. CASE ~s.undoing
    <2>1. w = e /\ e.kind = "insert"
      BY <1>1, <1>2, WorkShape
    <2>2. /\ Applied(n, s, s.next - 1) /\ u \in Contents /\ e \in Edit /\ Same(R, t, u)
          /\ e.newKey \in R /\ R \subseteq Keys
      BY <1>2, ForwardState
    <2>3. CASE t[e.newKey] = Absent /\ t2 = [t EXCEPT ![e.newKey] = e.newAction]
               /\ s2 = PatchDone(s)
      <3> HIDE DEF u, e, R, w
      <3>1. Admits(n, u, e)
        BY <2>1, <2>2, <2>3 DEF Admits, Same, Nothing, Moves
      <3>2. Edited(u, e) = [u EXCEPT ![e.newKey] = e.newAction]
        BY <2>1, <2>2, EditedRows
      <3>3. Same(R, t2, Edited(u, e))
        BY <2>2, <2>3, <3>2 DEF Same, Contents
      <3> QED
        BY <1>1, <1>2, <2>2, <2>3, <3>1, <3>3, AppliedFits DEF Proceeds, u, e, R
    <2>4. CASE Errs(s, t, can, w.newKey, w.newAction, PatchFailed(s), s2, t2)
      <3> HIDE DEF can, w
      <3> QED
        BY <1>2, <2>4, PatchFails DEF Proceeds
    <2> QED
      BY <2>1, <2>3, <2>4 DEF Calls
  <1>3. CASE s.undoing
    <2>1. e.kind = "delete" /\ w.newKey = e.key /\ w.newAction = e.action
      BY <1>1, <1>3, WorkShape
    <2>2. ASSUME s.clean, Known(n, s)
          PROVE  /\ Applied(n, s, s.next - 1) /\ t[e.key] = Absent
                 /\ t2 = [t EXCEPT ![e.key] = e.action] =>
                      Alike(R, t2, u) /\ Kept(s, t2, s.next - 1)
      <3>1. /\ R \subseteq Keys /\ e.key \in R /\ e \in Edit
            /\ s.before[e.key] = e.action
            /\ Applied(n, s, s.next - 1) /\ Admits(n, u, e) /\ u \in Contents
            /\ Written(s.batch, s.next) = Written(s.batch, s.next - 1) \cup Writes(e)
            /\ Kept(s, t, s.next) /\ Alike(R, t, Edited(u, e))
        BY <1>1, <1>3, <2>2, UndoingState
      <3> HIDE DEF u, e, R
      <3>2. Writes(e) = {e.key} /\ ~Nothing(e)
        BY <2>1 DEF Writes, Nothing
      <3>3. u[e.key] # Absent /\ e.action # Absent
        BY <2>1, <3>1, <3>2, EditShape DEF Admits
      <3>4. /\ Edited(u, e)[e.key] = Absent
            /\ \A k \in Keys \ {e.key} : Edited(u, e)[k] = u[k]
        BY <2>1, <3>1, <3>2, EditedRows
      <3>5. t[e.key] = Absent
        BY <3>1, <3>4 DEF Alike
      <3>6. ASSUME t2 = [t EXCEPT ![e.key] = e.action]
            PROVE  Alike(R, t2, u) /\ Kept(s, t2, s.next - 1)
        <4>1. t2[e.key] = e.action /\ \A k \in Keys \ {e.key} : t2[k] = t[k]
          BY <3>1, <3>6 DEF Contents
        <4>2. Alike(R, t2, u)
          BY <3>1, <3>3, <3>4, <4>1 DEF Alike
        <4>3. Kept(s, t2, s.next - 1)
          BY <3>1, <3>2, <4>1 DEF Kept, R
        <4> QED
          BY <4>2, <4>3
      <3> QED
        BY <3>1, <3>5, <3>6
    <2>3. CASE t2 = [t EXCEPT ![e.key] = e.action] /\ s2 = PatchDone(s)
      BY <1>1, <1>3, <2>2, <2>3, UndoneFits DEF Proceeds
    <2>4. CASE Errs(s, t, can, w.newKey, w.newAction, PatchFailed(s), s2, t2)
      <3>1. s.clean /\ Known(n, s) => can
        BY <2>1, <2>2
      <3> HIDE DEF can, w
      <3> QED
        BY <1>3, <2>4, <3>1, PatchFails DEF Proceeds
    <2> QED
      BY <2>1, <2>3, <2>4 DEF Calls
  <1> QED
    BY <1>2, <1>3

LEMMA ActionGoes ==
  ASSUME NEW n, NEW s, NEW t \in Contents, NEW s2, NEW t2, Placed(s), Fits(n, s, t),
         s.pc = "patch", Work(s).kind = "replace",
         Work(s).key = Work(s).newKey, ~Unchanged(Work(s)),
         Calls(s, t, t[Work(s).key] # Absent, Work(s).key, Work(s).newAction,
               PatchDone(s), PatchFailed(s), s2, t2)
  PROVE  Proceeds(n, s, s2, t2)
  <1> DEFINE w == Work(s)
             e == s.batch[s.next]
             u == At(s, s.next - 1)
             R == Rows(s.batch)
             can == t[w.key] # Absent
  <1>1. Working(s)
    BY DEF Working
  <1>2. /\ e.kind = "replace" /\ e.key = e.newKey /\ ~Nothing(e) /\ ~Moves(e)
        /\ Writes(e) = {e.key} /\ w.key = e.key
    <2>1. /\ e.kind = "replace" /\ e.key = e.newKey /\ e.action # e.newAction /\ w.key = e.key
      BY <1>1, WorkShape DEF Unchanged
    <2> QED
      BY <2>1 DEF Nothing, Moves, Writes, Unchanged
  <1>3. CASE ~s.undoing
    <2>1. w = e
      BY <1>1, <1>3, WorkShape
    <2>2. /\ Applied(n, s, s.next - 1) /\ u \in Contents /\ e \in Edit /\ Same(R, t, u)
          /\ e.key \in R /\ R \subseteq Keys
      BY <1>3, ForwardState
    <2>3. CASE t[e.key] # Absent /\ t2 = [t EXCEPT ![e.key] = e.newAction]
               /\ s2 = PatchDone(s)
      <3> HIDE DEF u, e, R, w
      <3>1. Admits(n, u, e)
        BY <1>2, <2>2, <2>3 DEF Admits, Same
      <3>2. /\ Edited(u, e)[e.key] = e.newAction
            /\ \A k \in Keys \ {e.key} : Edited(u, e)[k] = u[k]
        BY <1>2, <2>2, EditedRows
      <3>3. Same(R, t2, Edited(u, e))
        BY <2>2, <2>3, <3>2 DEF Same, Contents
      <3> QED
        BY <1>1, <1>3, <2>2, <2>3, <3>1, <3>3, AppliedFits DEF Proceeds, u, e, R
    <2>4. CASE Errs(s, t, can, w.key, w.newAction, PatchFailed(s), s2, t2)
      <3> HIDE DEF can, w
      <3> QED
        BY <1>3, <2>4, PatchFails DEF Proceeds
    <2> QED
      BY <2>1, <2>3, <2>4 DEF Calls
  <1>4. CASE s.undoing
    <2>1. w.newAction = e.action
      BY <1>1, <1>4, WorkShape
    <2>2. ASSUME s.clean, Known(n, s)
          PROVE  /\ Applied(n, s, s.next - 1) /\ t[e.key] # Absent
                 /\ t2 = [t EXCEPT ![e.key] = e.action] =>
                      Alike(R, t2, u) /\ Kept(s, t2, s.next - 1)
      <3>1. /\ R \subseteq Keys /\ e.key \in R /\ e \in Edit
            /\ s.before[e.key] = e.action
            /\ Applied(n, s, s.next - 1) /\ Admits(n, u, e) /\ u \in Contents
            /\ Written(s.batch, s.next) = Written(s.batch, s.next - 1) \cup Writes(e)
            /\ Kept(s, t, s.next) /\ Alike(R, t, Edited(u, e))
        BY <1>1, <1>4, <2>2, UndoingState
      <3> HIDE DEF u, e, R
      <3>3. u[e.key] # Absent /\ e.action # Absent /\ e.newAction # Absent
        BY <1>2, <3>1, EditShape DEF Admits
      <3>4. /\ Edited(u, e)[e.key] = e.newAction
            /\ \A k \in Keys \ {e.key} : Edited(u, e)[k] = u[k]
        BY <1>2, <3>1, EditedRows
      <3>5. t[e.key] # Absent
        BY <3>1, <3>3, <3>4 DEF Alike
      <3>6. ASSUME t2 = [t EXCEPT ![e.key] = e.action]
            PROVE  Alike(R, t2, u) /\ Kept(s, t2, s.next - 1)
        <4>1. t2[e.key] = e.action /\ \A k \in Keys \ {e.key} : t2[k] = t[k]
          BY <3>1, <3>6 DEF Contents
        <4>2. Alike(R, t2, u)
          BY <3>1, <3>3, <3>4, <4>1 DEF Alike
        <4>3. Kept(s, t2, s.next - 1)
          BY <1>2, <3>1, <4>1 DEF Kept, R
        <4> QED
          BY <4>2, <4>3
      <3> QED
        BY <3>1, <3>5, <3>6
    <2>3. CASE t2 = [t EXCEPT ![e.key] = e.action] /\ s2 = PatchDone(s)
      BY <1>1, <1>4, <2>2, <2>3, UndoneFits DEF Proceeds
    <2>4. CASE Errs(s, t, can, w.key, w.newAction, PatchFailed(s), s2, t2)
      <3>1. s.clean /\ Known(n, s) => can
        BY <1>2, <2>2
      <3> HIDE DEF can, w
      <3> QED
        BY <1>4, <2>4, <3>1, PatchFails DEF Proceeds
    <2> QED
      BY <1>2, <2>1, <2>3, <2>4 DEF Calls
  <1> QED
    BY <1>3, <1>4

\* The row is taken from its key.
TakenFrom(n, s, t) ==
  [s EXCEPT !.pc = "insert", !.row = IF n THEN t[Work(s).key] ELSE Work(s).action]

LEMMA TakenShape ==
  ASSUME NEW n, NEW s, NEW t \in Contents, Placed(s), s.pc = "patch",
         Work(s).kind = "replace", Work(s).key # Work(s).newKey
  PROVE  LET d == TakenFrom(n, s, t)
         IN  /\ Placed(d) /\ Steady(s, d) /\ d.clean = s.clean /\ d.pc = "insert"
             /\ d.undoing = s.undoing /\ d.next = s.next
             /\ d.row = IF n THEN t[Work(s).key] ELSE Work(s).action
  <1> DEFINE d == TakenFrom(n, s, t)
             r == IF n THEN t[Work(s).key] ELSE Work(s).action
  <1>1. Working(s)
    BY DEF Working
  <1>2. Moves(s.batch[s.next]) /\ Work(s).key \in Keys /\ Work(s).action \in Actions
    <2>1. Rows(s.batch) \subseteq Keys
      BY <1>1, NextEdit
    <2> QED
      BY <1>1, <2>1, WorkShape DEF Moves
  <1>3. r \in Actions \cup {Absent}
    BY <1>2 DEF Contents
  <1> HIDE DEF r
  <1>4. d = [s EXCEPT !.pc = "insert", !.row = r]
    BY DEF TakenFrom, r
  <1>5. s \in RequestState /\ s.next > 0
    BY <1>1 DEF Placed
  <1>6. /\ d \in RequestState /\ d.batch = s.batch /\ d.before = s.before /\ d.clean = s.clean
        /\ d.pc = "insert" /\ d.undoing = s.undoing /\ d.next = s.next /\ d.row = r
    BY <1>3, <1>4, <1>5 DEF RequestState
  <1> HIDE DEF d
  <1>7. Placed(d)
    BY <1>2, <1>5, <1>6 DEF Placed, Working
  <1> QED
    BY <1>6, <1>7 DEF d, r, Steady

LEMMA KeyGoes ==
  ASSUME NEW n, NEW s, NEW t \in Contents, NEW s2, NEW t2, Placed(s), Fits(n, s, t),
         s.pc = "patch", Work(s).kind = "replace", Work(s).key # Work(s).newKey,
         Calls(s, t, t[Work(s).key] # Absent, Work(s).key, Absent,
               TakenFrom(n, s, t), PatchFailed(s), s2, t2)
  PROVE  Proceeds(n, s, s2, t2)
  <1> DEFINE w == Work(s)
             d == TakenFrom(n, s, t)
             e == s.batch[s.next]
             u == At(s, s.next - 1)
             R == Rows(s.batch)
             can == t[w.key] # Absent
  <1>1. Working(s)
    BY DEF Working
  <1>2. e.kind = "replace" /\ e.key # e.newKey /\ Moves(e) /\ ~Nothing(e)
        /\ Writes(e) = {e.key, e.newKey}
    <2>1. e.kind = "replace" /\ e.key # e.newKey
      BY <1>1, WorkShape
    <2> QED
      BY <2>1 DEF Nothing, Moves, Writes, Unchanged
  <1>3. /\ Placed(d) /\ Steady(s, d) /\ d.clean = s.clean /\ d.pc = "insert"
        /\ d.undoing = s.undoing /\ d.next = s.next
        /\ d.row = IF n THEN t[w.key] ELSE w.action
    BY TakenShape
  <1>4. /\ At(d, d.next) = At(s, s.next) /\ At(d, d.next - 1) = u /\ d.batch[d.next] = e
        /\ Rows(d.batch) = R /\ d.batch = s.batch /\ d.before = s.before
        /\ Known(n, d) <=> Known(n, s)
    BY <1>3 DEF At, Steady, Known, ReadAsWas
  <1>5. Applied(n, d, d.next - 1) <=> Applied(n, s, s.next - 1)
    BY <1>3, <1>4 DEF Applied, At
  <1>6. Applied(n, d, d.next) <=> Applied(n, s, s.next)
    BY <1>3, <1>4 DEF Applied, At
  <1>7. CASE Errs(s, t, can, w.key, Absent, PatchFailed(s), s2, t2)
    <2>1. ASSUME s.undoing, s.clean, Known(n, s) PROVE can
      <3>1. /\ e.newKey \in R /\ e \in Edit /\ u \in Contents /\ Alike(R, t, Edited(u, e))
        BY <1>1, <2>1, UndoingState
      <3>2. w.key = e.newKey
        BY <1>1, <2>1, WorkShape
      <3> HIDE DEF u, e, R, w
      <3>3. Edited(u, e)[e.newKey] = e.newAction /\ e.newAction # Absent
        BY <1>2, <3>1, EditedRows, EditShape
      <3> QED
        BY <3>1, <3>2, <3>3 DEF Alike
    <2> HIDE DEF can, w
    <2> QED
      BY <1>7, <2>1, PatchFails DEF Proceeds
  <1>8. CASE can /\ t2 = [t EXCEPT ![w.key] = Absent] /\ s2 = d
    <2>1. CASE ~s.undoing
      <3>1. w = e
        BY <1>1, <2>1, WorkShape
      <3>2. /\ Applied(n, s, s.next - 1) /\ u \in Contents /\ e \in Edit /\ Same(R, t, u)
            /\ e.key \in R /\ R \subseteq Keys
        BY <2>1, ForwardState
      <3> HIDE DEF u, e, R, w, d
      <3>3. u[e.key] # Absent /\ t[e.key] = u[e.key]
        BY <1>8, <3>1, <3>2 DEF Same, can
      <3>4. Same(R, t2, [u EXCEPT ![e.key] = Absent])
        BY <1>8, <3>1, <3>2 DEF Same, Contents
      <3>5. Taken(n, d, t2)
        BY <1>3, <1>4, <1>5, <3>1, <3>2, <3>3, <3>4 DEF Taken
      <3>6. Fits(n, d, t2)
        BY <1>3, <2>1, <3>5 DEF Fits, Forward, Backward
      <3> QED
        BY <1>3, <1>8, <3>6 DEF Proceeds
    <2>2. CASE s.undoing
      <3>1. w.key = e.newKey
        BY <1>1, <2>2, WorkShape
      <3>2. ASSUME s.clean, Known(n, s)
            PROVE  Undone(n, d, t2, [At(d, d.next) EXCEPT ![e.newKey] = Absent])
        <4>1. /\ R \subseteq Keys /\ e.key \in R /\ e.newKey \in R /\ e \in Edit
              /\ Applied(n, s, s.next - 1) /\ Admits(n, u, e) /\ u \in Contents
              /\ Written(s.batch, s.next) = Written(s.batch, s.next - 1) \cup Writes(e)
              /\ Kept(s, t, s.next) /\ Alike(R, t, Edited(u, e))
          BY <1>1, <2>2, <3>2, UndoingState
        <4>2. At(s, s.next) = Edited(u, e) /\ Applied(n, s, s.next)
          <5>1. s.next \in Nat /\ s.next # 0 /\ s.next \in 0..Len(s.batch)
            BY <1>1, NextEdit
          <5> QED
            BY <4>1, <5>1, AtRows, AppliedLess
        <4> HIDE DEF u, e, w, d
        <4>3. Edited(u, e) \in Contents
          BY <4>1, EditedRows
        <4>4. t2[e.newKey] = Absent /\ \A k \in Keys \ {e.newKey} : t2[k] = t[k]
          <5> HIDE DEF R
          <5> QED
            BY <1>8, <3>1, <4>1 DEF Contents
        <4>5. Alike(R, t2, [Edited(u, e) EXCEPT ![e.newKey] = Absent])
          <5> HIDE DEF R
          <5> QED
            BY <4>1, <4>3, <4>4 DEF Alike, Contents
        <4>6. Kept(d, t2, d.next)
          BY <1>2, <1>3, <1>4, <4>1, <4>4 DEF Kept
        <4> QED
          BY <1>3, <1>4, <1>6, <4>2, <4>5, <4>6 DEF Undone
      <3>3. Fits(n, d, t2)
        <4> HIDE DEF d
        <4>1. Forward(n, d, t2)
          BY <1>3, <2>2 DEF Forward
        <4>2. ASSUME d.clean, Known(n, d) PROVE Backward(n, d, t2)
          <5>1. Undone(n, d, t2, [At(d, d.next) EXCEPT ![d.batch[d.next].newKey] = Absent])
            BY <1>3, <1>4, <3>2, <4>2
          <5> QED
            BY <1>3, <5>1 DEF Backward
        <4> QED
          BY <4>1, <4>2 DEF Fits
      <3> QED
        BY <1>3, <1>8, <3>3 DEF Proceeds
    <2> QED
      BY <2>1, <2>2
  <1> QED
    BY <1>7, <1>8 DEF Calls

\* A row that moves, once it was taken from its key.
LEMMA MovingWork ==
  ASSUME NEW s, Placed(s), s.pc \in {"insert", "restore"}
  PROVE  LET e == s.batch[s.next]
         IN  /\ Working(s) /\ e \in Edit /\ Moves(e) /\ ~Nothing(e) /\ e.kind = "replace"
             /\ e.key # e.newKey
             /\ Writes(e) = {e.key, e.newKey} /\ e.key \in Rows(s.batch)
             /\ e.newKey \in Rows(s.batch)
             /\ Rows(s.batch) \subseteq Keys
             /\ ~s.undoing => Work(s) = e
             /\ s.undoing => /\ Work(s).key = e.newKey /\ Work(s).newKey = e.key
                             /\ Work(s).newAction = e.action
  <1> DEFINE e == s.batch[s.next]
  <1>1. Working(s)
    BY DEF Working
  <1>2. Moves(e)
    BY DEF Placed
  <1>3. e.kind = "replace" /\ e.key # e.newKey /\ ~Nothing(e) /\ Writes(e) = {e.key, e.newKey}
    BY <1>2 DEF Moves, Nothing, Writes, Unchanged
  <1> QED
    BY <1>1, <1>2, <1>3, NextEdit, WorkShape

Restoring(s) == [s EXCEPT !.pc = "restore"]

LEMMA InsertGoes ==
  ASSUME NEW n, NEW s, NEW t \in Contents, NEW s2, NEW t2, Placed(s), Fits(n, s, t),
         s.pc = "insert",
         Calls(s, t, t[Work(s).newKey] = Absent, Work(s).newKey, Work(s).newAction,
               PatchDone(s), Restoring(s), s2, t2)
  PROVE  Proceeds(n, s, s2, t2)
  <1> DEFINE w == Work(s)
             f == Restoring(s)
             e == s.batch[s.next]
             u == At(s, s.next - 1)
             R == Rows(s.batch)
             can == t[w.newKey] = Absent
  <1>1. /\ Working(s) /\ e \in Edit /\ Moves(e) /\ ~Nothing(e) /\ e.kind = "replace"
        /\ e.key # e.newKey
        /\ Writes(e) = {e.key, e.newKey} /\ e.key \in R /\ e.newKey \in R /\ R \subseteq Keys
        /\ ~s.undoing => w = e
        /\ s.undoing => w.key = e.newKey /\ w.newKey = e.key /\ w.newAction = e.action
    BY MovingWork
  <1>2. /\ f \in RequestState /\ f.batch = s.batch /\ f.before = s.before /\ f.clean = s.clean
        /\ f.pc = "restore" /\ f.undoing = s.undoing /\ f.next = s.next /\ f.row = s.row
    BY DEF Placed, RequestState, Restoring
  <1>3. Placed(f) /\ Steady(s, f) /\ Returns(f)
    <2> HIDE DEF f
    <2> QED
      BY <1>2 DEF Placed, Working, Steady, Returns
  <1>4. u \in Contents /\ s.next - 1 \in 0..Len(s.batch)
    BY <1>1, NextEdit, AtRows
  <1>5. /\ At(f, f.next - 1) = u /\ f.batch[f.next] = e /\ Rows(f.batch) = R
        /\ Known(n, f) <=> Known(n, s)
    <2> HIDE DEF f
    <2> QED
      BY <1>2 DEF At, Known, ReadAsWas
  <1>6. Applied(n, f, f.next - 1) <=> Applied(n, s, s.next - 1)
    <2> HIDE DEF f
    <2> QED
      BY <1>2 DEF Applied, At
  <1>7. Repairing(s) <=> s.undoing
    BY DEF Repairing
  <1>8. CASE ~s.undoing
    <2>1. Taken(n, s, t) /\ w = e
      BY <1>1, <1>8 DEF Fits, Forward
    <2>2. CASE can /\ t2 = [t EXCEPT ![w.newKey] = w.newAction] /\ s2 = PatchDone(s)
      <3>1. /\ Applied(n, s, s.next - 1) /\ u[e.key] # Absent
            /\ Same(R, t, [u EXCEPT ![e.key] = Absent])
        BY <2>1 DEF Taken
      <3> HIDE DEF u, e, w, R
      <3>2. t[e.newKey] = Absent /\ u[e.newKey] = t[e.newKey]
        BY <1>1, <1>4, <2>1, <2>2, <3>1 DEF Same, Contents
      <3>3. Admits(n, u, e)
        BY <1>1, <3>1, <3>2 DEF Admits
      <3>4. /\ Edited(u, e)[e.newKey] = e.newAction /\ Edited(u, e)[e.key] = Absent
            /\ \A k \in Keys \ {e.key, e.newKey} : Edited(u, e)[k] = u[k]
        BY <1>1, <1>4, EditedRows
      <3>5. t2[e.newKey] = e.newAction /\ \A k \in Keys \ {e.newKey} : t2[k] = t[k]
        BY <1>1, <2>1, <2>2 DEF Contents
      <3>6. \A k \in R : [u EXCEPT ![e.key] = Absent][k] = IF k = e.key THEN Absent ELSE u[k]
        BY <1>1, <1>4 DEF Contents
      <3>7. Same(R, t2, Edited(u, e))
        BY <1>1, <3>1, <3>4, <3>5, <3>6 DEF Same
      <3> QED
        BY <1>1, <1>8, <2>2, <3>1, <3>3, <3>7, AppliedFits DEF Proceeds, u, e, w, R
    <2>3. CASE Errs(s, t, can, w.newKey, w.newAction, f, s2, t2)
      <3> HIDE DEF u, e, w, R, f, can
      <3>1. Taken(n, f, t)
        BY <1>2, <1>5, <1>6, <2>1 DEF Taken, u, e, R
      <3>2. Backward(n, f, t)
        BY <1>2, <1>8, <3>1 DEF Backward
      <3>3. Placed(s2) /\ Steady(s, s2) /\ Fits(n, s2, t2)
        BY <1>3, <1>7, <1>8, <2>3, <3>2, ErrsFits
      <3> QED
        BY <3>3 DEF Proceeds
    <2> QED
      BY <2>2, <2>3 DEF Calls
  <1>9. CASE s.undoing
    <2>1. ASSUME s.clean, Known(n, s)
          PROVE  /\ Applied(n, s, s.next - 1) /\ can
                 /\ t2 = [t EXCEPT ![e.key] = e.action] =>
                      Alike(R, t2, u) /\ Kept(s, t2, s.next - 1)
      <3>1. /\ s.before[e.key] = e.action
            /\ Applied(n, s, s.next - 1) /\ Admits(n, u, e) /\ Kept(s, u, s.next - 1)
            /\ Written(s.batch, s.next) = Written(s.batch, s.next - 1) \cup Writes(e)
            /\ Kept(s, t, s.next)
            /\ Alike(R, t, [Edited(u, e) EXCEPT ![e.newKey] = Absent])
        BY <1>1, <1>9, <2>1, UndoingState
      <3> HIDE DEF u, e, R, w
      <3>2. u[e.key] # Absent /\ u[e.newKey] = Absent /\ e.action # Absent
        BY <1>1, <3>1, EditShape DEF Admits
      <3>3. /\ Edited(u, e)[e.key] = Absent /\ Edited(u, e) \in Contents
            /\ \A k \in Keys \ {e.key, e.newKey} : Edited(u, e)[k] = u[k]
        BY <1>1, <1>4, EditedRows
      <3>4. \A k \in R : [Edited(u, e) EXCEPT ![e.newKey] = Absent][k] =
                           IF k = e.newKey THEN Absent ELSE Edited(u, e)[k]
        BY <1>1, <3>3 DEF Contents
      <3>5. /\ t[e.key] = Absent /\ t[e.newKey] = Absent
            /\ \A k \in R \ {e.key, e.newKey} : t[k] = Absent <=> u[k] = Absent
        BY <1>1, <3>1, <3>3, <3>4 DEF Alike
      <3>6. ASSUME t2 = [t EXCEPT ![e.key] = e.action]
            PROVE  Alike(R, t2, u) /\ Kept(s, t2, s.next - 1)
        <4>1. t2[e.key] = e.action /\ \A k \in Keys \ {e.key} : t2[k] = t[k]
          BY <1>1, <3>6 DEF Contents
        <4>2. Alike(R, t2, u)
          BY <1>1, <3>2, <3>5, <4>1 DEF Alike
        <4>3. ASSUME NEW k \in R, k \notin Written(s.batch, s.next - 1) PROVE t2[k] = s.before[k]
          <5>1. CASE k = e.key
            BY <3>1, <4>1, <5>1
          <5>2. CASE k = e.newKey
            <6>1. u[k] = s.before[k]
              BY <3>1, <4>3 DEF Kept, R
            <6> QED
              BY <1>1, <3>2, <3>5, <4>1, <5>2, <6>1
          <5>3. CASE k # e.key /\ k # e.newKey
            <6>1. k \notin Written(s.batch, s.next)
              BY <1>1, <3>1, <4>3, <5>3
            <6>2. t[k] = s.before[k]
              BY <3>1, <4>3, <6>1 DEF Kept, R
            <6> QED
              BY <1>1, <4>1, <4>3, <5>3, <6>2
          <5> QED
            BY <5>1, <5>2, <5>3
        <4>4. Kept(s, t2, s.next - 1)
          BY <4>3 DEF Kept, R
        <4> QED
          BY <4>2, <4>4
      <3>7. can
        BY <1>1, <1>9, <3>5
      <3> QED
        BY <3>1, <3>6, <3>7
    <2>2. CASE t2 = [t EXCEPT ![w.newKey] = w.newAction] /\ s2 = PatchDone(s)
      <3>1. t2 = [t EXCEPT ![e.key] = e.action]
        BY <1>1, <1>9, <2>2
      <3> QED
        BY <1>1, <1>9, <2>1, <2>2, <3>1, UndoneFits DEF Proceeds
    <2>3. CASE Errs(s, t, can, w.newKey, w.newAction, f, s2, t2)
      <3>1. s.clean /\ Known(n, s) => can
        BY <2>1
      <3> HIDE DEF u, e, w, R, f, can
      <3>2. Placed(s2) /\ Steady(s, s2) /\ Fits(n, s2, t2)
        BY <1>2, <1>3, <1>5, <1>7, <1>9, <2>3, <3>1, ErrsFits
      <3> QED
        BY <3>2 DEF Proceeds
    <2> QED
      BY <2>2, <2>3 DEF Calls
  <1> QED
    BY <1>8, <1>9

LEMMA RestoreGoes ==
  ASSUME NEW n, NEW s, NEW t \in Contents, NEW s2, NEW t2, Placed(s), Fits(n, s, t),
         s.pc = "restore",
         Calls(s, t, t[Work(s).key] = Absent, Work(s).key, s.row,
               PatchFailed(s), PatchFailed(s), s2, t2)
  PROVE  Proceeds(n, s, s2, t2)
  <1> DEFINE w == Work(s)
             f == PatchFailed(s)
             e == s.batch[s.next]
             u == At(s, s.next - 1)
             R == Rows(s.batch)
             can == t[w.key] = Absent
  <1>1. /\ Working(s) /\ e \in Edit /\ e.key # e.newKey /\ e.kind # "insert"
        /\ Writes(e) = {e.key, e.newKey} /\ e.key \in R /\ R \subseteq Keys
        /\ ~s.undoing => w = e
    BY MovingWork
  <1>2. /\ Placed(f) /\ Steady(s, f) /\ f.clean = s.clean
        /\ f.pc = "failed" \/ (f.pc = "patch" /\ f.undoing)
    BY <1>1, FailedShape
  <1>3. u \in Contents /\ s.next - 1 \in 0..Len(s.batch) /\ s.next \in DOMAIN s.batch
        /\ Kept(s, u, s.next - 1)
    BY <1>1, NextEdit, AtRows DEF Kept
  <1>4. (Known(n, f) <=> Known(n, s)) /\ Returns(f)
    <2> HIDE DEF f
    <2> QED
      BY <1>2 DEF Steady, Known, ReadAsWas, Returns
  <1>5. Repairing(s)
    BY DEF Repairing
  <1>6. ASSUME s.clean, Known(n, s)
        PROVE  /\ ~s.undoing /\ can
               /\ t2 = [t EXCEPT ![w.key] = s.row] => Backward(n, f, t2)
    <2>1. ~s.undoing /\ Taken(n, s, t)
      BY <1>6 DEF Fits, Backward
    <2>2. /\ Applied(n, s, s.next - 1) /\ u[e.key] # Absent
          /\ Same(R, t, [u EXCEPT ![e.key] = Absent])
          /\ s.row = IF n THEN u[e.key] ELSE e.action
      BY <2>1 DEF Taken
    <2>3. w = e
      BY <1>1, <2>1
    <2>4. ASSUME e.key \notin Written(s.batch, s.next - 1) PROVE s.row = s.before[e.key]
      <3>1. u[e.key] = s.before[e.key]
        BY <1>1, <1>3, <2>4 DEF Kept
      <3>2. CASE n
        BY <2>2, <3>1, <3>2
      <3>3. CASE ~n
        <4>1. ReadAsWas(s)
          BY <1>6, <3>3 DEF Known
        <4> QED
          BY <1>1, <1>3, <2>2, <3>3, <4>1 DEF ReadAsWas
      <3> QED
        BY <3>2, <3>3
    <2>5. s.row # Absent
      BY <1>1, <2>2, EditShape
    <2> HIDE DEF u, e, R, w, f
    <2>6. t[e.key] = Absent /\ \A k \in R \ {e.key} : t[k] = u[k]
      BY <1>1, <1>3, <2>2 DEF Same, Contents
    <2>7. ASSUME t2 = [t EXCEPT ![w.key] = s.row] PROVE Backward(n, f, t2)
      <3>1. t2[e.key] = s.row /\ \A k \in Keys \ {e.key} : t2[k] = t[k]
        BY <1>1, <2>3, <2>7 DEF Contents
      <3>2. Alike(R, t2, u)
        BY <1>1, <2>2, <2>5, <2>6, <3>1 DEF Alike
      <3>3. Kept(s, t2, s.next - 1)
        BY <1>1, <1>3, <2>4, <2>6, <3>1 DEF Kept, R
      <3> QED
        BY <1>1, <2>1, <2>2, <3>2, <3>3, FailedToUndo DEF u, R, f
    <2> QED
      BY <2>1, <2>3, <2>6, <2>7
  <1>7. CASE can /\ t2 = [t EXCEPT ![w.key] = s.row] /\ s2 = f
    <2>1. f.clean /\ Known(n, f) => Backward(n, f, t2)
      BY <1>2, <1>4, <1>6, <1>7
    <2> HIDE DEF f
    <2>2. Fits(n, f, t2)
      BY <1>2, <1>4, <2>1, DirtyFits DEF Placed
    <2> QED
      BY <1>2, <1>7, <2>2 DEF Proceeds
  <1>8. CASE Errs(s, t, can, w.key, s.row, f, s2, t2)
    <2>1. Repairing(s) /\ f.clean /\ Known(n, f) => can
      BY <1>2, <1>4, <1>6
    <2> HIDE DEF u, e, w, R, f, can
    <2>2. Placed(s2) /\ Steady(s, s2) /\ Fits(n, s2, t2)
      BY <1>2, <1>4, <1>5, <1>8, <2>1, ErrsFits
    <2> QED
      BY <2>2 DEF Proceeds
  <1> QED
    BY <1>7, <1>8 DEF Calls

-----------------------------------------------------------------------------
(* The invariant: where a request is says what its rows are, as long as no  *)
(* other request edits them.                                                *)
RequestsPlaced ==
  /\ table \in Contents
  /\ native \in BOOLEAN /\ faults \in Nat
  /\ client \in [Clients -> RequestState]
  /\ \A c \in Clients :
       /\ Placed(client[c])
       /\ client[c].batch \in Batches[c] \cup {<<>>}
       /\ client[c].pc = "idle" => client[c].batch = <<>>

Linked == \A c \in Clients : Apart(c) => Fits(native, client[c], table)

RowsInv == RequestsPlaced /\ Linked

LEMMA TouchedRows == \A c : Touched(c) = Rows(client[c].batch)
  BY DEF Touched, Rows

LEMMA NoRows == Rows(<<>>) = {} /\ <<>> \in Seq(Edit) /\ Len(<<>>) = 0 /\ DOMAIN <<>> = {}
  BY DEF Rows

\* What one request does to its rows, and to itself.
LEMMA OneRequest ==
  ASSUME RowsInv, NEW c \in Clients, NEW s2, client' = [client EXCEPT ![c] = s2],
         native' = native, faults' \in Nat, table' \in Contents,
         Placed(s2), s2.batch \in Batches[c] \cup {<<>>}, s2.pc # "idle",
         s2.batch = client[c].batch \/ client[c].batch = <<>>,
         \A k \in Keys \ Rows(s2.batch) : table'[k] = table[k],
         Apart(c) => Fits(native, s2, table')
  PROVE  RowsInv'
  <1>1. client \in [Clients -> RequestState] /\ s2 \in RequestState
    BY DEF RowsInv, RequestsPlaced, Placed
  <1>2. /\ client' \in [Clients -> RequestState] /\ client'[c] = s2
        /\ \A x \in Clients \ {c} : client'[x] = client[x]
    BY <1>1
  <1>3. RequestsPlaced'
    <2>1. \A x \in Clients :
            /\ Placed(client'[x])
            /\ client'[x].batch \in Batches[x] \cup {<<>>}
            /\ client'[x].pc = "idle" => client'[x].batch = <<>>
      BY <1>2 DEF RowsInv, RequestsPlaced
    <2> QED
      BY <1>2, <2>1 DEF RowsInv, RequestsPlaced
  <1>4. \A x \in Clients : Rows(client[x].batch) \subseteq Rows(client'[x].batch)
    BY <1>2, NoRows
  <1>5. ASSUME NEW x \in Clients, Apart(x)' PROVE Fits(native, client'[x], table')
    <2>1. \A y \in Clients \ {x} : Rows(client'[y].batch) \cap Rows(client'[x].batch) = {}
      <3>1. \A y \in Clients \ {x} : Touched(y)' \cap Touched(x)' = {}
        BY <1>5 DEF Apart
      <3> QED
        BY <3>1 DEF Touched, Rows
    <2>2. Apart(x)
      <3>1. \A y \in Clients \ {x} : Rows(client[y].batch) \cap Rows(client[x].batch) = {}
        BY <1>4, <2>1
      <3> QED
        BY <3>1, TouchedRows DEF Apart
    <2>3. CASE x = c
      BY <1>2, <2>2, <2>3
    <2>4. CASE x # c
      <3> DEFINE s == client[x]
      <3>1. client'[x] = s /\ Placed(s) /\ Fits(native, s, table)
        BY <1>2, <2>2, <2>4 DEF RowsInv, RequestsPlaced, Linked
      <3>2. Rows(s2.batch) \cap Rows(s.batch) = {}
        BY <1>2, <2>1, <2>4
      <3> HIDE DEF s
      <3>3. Rows(s.batch) \subseteq Keys
        BY <3>1, PlacedRows
      <3>4. Same(Rows(s.batch), table, table')
        BY <3>2, <3>3 DEF Same
      <3> QED
        BY <3>1, <3>4, FitsByRows
    <2> QED
      BY <2>3, <2>4
  <1>6. Linked'
    <2>1. \A x \in Clients : Apart(x)' => Fits(native', client'[x], table')
      BY <1>5
    <2> QED
      BY <2>1 DEF Linked
  <1> QED
    BY <1>3, <1>6 DEF RowsInv

\* A request moves on, and the table changes at k at most.
MovesOn(s, s2, t, t2, k) ==
  /\ Placed(s2) /\ Steady(s, s2) /\ s2.pc # "idle"
  /\ t2 \in Contents /\ \A x \in Keys \ {k} : t2[x] = t[x]

LEMMA CallsPlaced ==
  ASSUME NEW s, NEW t \in Contents, NEW can, NEW k \in Keys, NEW v \in Actions \cup {Absent},
         NEW d, NEW f, NEW s2, NEW t2, Calls(s, t, can, k, v, d, f, s2, t2),
         Placed(d), Placed(f), Steady(s, d), Steady(s, f), d.pc # "idle", f.pc # "idle"
  PROVE  MovesOn(s, s2, t, t2, k)
  <1>1. t2 = t \/ t2 = [t EXCEPT ![k] = v]
    BY DEF Calls, Errs
  <1>2. t2 \in Contents /\ \A x \in Keys \ {k} : t2[x] = t[x]
    BY <1>1 DEF Contents
  <1>3. f \in RequestState /\ f.clean \in BOOLEAN
    BY DEF Placed, RequestState
  <1>4. s2 = d \/ s2 = f \/ \E x \in BOOLEAN : s2 = [f EXCEPT !.clean = x]
    <2>1. CASE s2 = [f EXCEPT !.clean = @ /\ ~Repairing(s)]
      <3>1. /\ s2 = [f EXCEPT !.clean = f.clean /\ ~Repairing(s)]
            /\ (f.clean /\ ~Repairing(s)) \in BOOLEAN
        BY <1>3, <2>1
      <3> QED
        BY <3>1
    <2> QED
      BY <2>1 DEF Calls, Errs
  <1>5. ASSUME NEW x \in BOOLEAN
        PROVE  /\ Placed([f EXCEPT !.clean = x]) /\ Steady(s, [f EXCEPT !.clean = x])
               /\ [f EXCEPT !.clean = x].pc # "idle"
    <2>1. [f EXCEPT !.clean = x].pc = f.pc
      BY <1>3 DEF RequestState
    <2>2. Placed([f EXCEPT !.clean = x]) /\ Steady(f, [f EXCEPT !.clean = x])
      BY CleanShape
    <2> QED
      BY <2>1, <2>2 DEF Steady
  <1>6. Placed(s2) /\ Steady(s, s2) /\ s2.pc # "idle"
    BY <1>4, <1>5
  <1> QED
    BY <1>2, <1>6 DEF MovesOn

LEMMA CallMade ==
  ASSUME NEW c \in Clients, NEW can, NEW k, NEW v, NEW d, NEW f, Call(c, can, k, v, d, f),
         faults \in Nat
  PROVE  /\ faults' \in Nat
         /\ \E s2 : /\ client' = [client EXCEPT ![c] = s2]
                    /\ Calls(client[c], table, can, k, v, d, f, s2, table')
  <1>1. faults' \in Nat
    BY DEF Call
  <1>2. CASE can /\ table' = [table EXCEPT ![k] = v] /\ Continue(c, d)
    BY <1>1, <1>2 DEF Continue, Calls
  <1>3. CASE can /\ table' = [table EXCEPT ![k] = v] /\ Continue(c, [f EXCEPT !.clean = FALSE])
    BY <1>1, <1>3 DEF Continue, Calls, Errs
  <1>4. CASE ~can /\ table' = table /\ Continue(c, f)
    BY <1>1, <1>4 DEF Continue, Calls, Errs
  <1>5. CASE can /\ table' = table /\ Continue(c, [f EXCEPT !.clean = @ /\ ~Repairing(client[c])])
    BY <1>1, <1>5 DEF Continue, Calls, Errs
  <1>6. \/ can /\ table' = [table EXCEPT ![k] = v] /\ Continue(c, d)
        \/ can /\ table' = [table EXCEPT ![k] = v] /\ Continue(c, [f EXCEPT !.clean = FALSE])
        \/ ~can /\ table' = table /\ Continue(c, f)
        \/ can /\ table' = table /\ Continue(c, [f EXCEPT !.clean = @ /\ ~Repairing(client[c])])
    BY DEF Call
  <1> QED
    BY <1>1, <1>2, <1>3, <1>4, <1>5, <1>6

LEMMA OneCall ==
  ASSUME RowsInv, NEW c \in Clients, NEW can, NEW k, NEW v, NEW d, NEW f,
         Call(c, can, k, v, d, f), native' = native,
         k \in Rows(client[c].batch), v \in Actions \cup {Absent},
         Placed(d), Placed(f), Steady(client[c], d), Steady(client[c], f),
         d.pc # "idle", f.pc # "idle",
         \A s2, t2 : Fits(native, client[c], table) /\ Calls(client[c], table, can, k, v, d, f,
                                                             s2, t2)
                       => Proceeds(native, client[c], s2, t2)
  PROVE  RowsInv'
  <1>1. /\ table \in Contents /\ faults \in Nat /\ Placed(client[c])
        /\ client[c].batch \in Batches[c] \cup {<<>>}
        /\ Apart(c) => Fits(native, client[c], table)
    BY DEF RowsInv, RequestsPlaced, Linked
  <1>2. k \in Keys
    BY <1>1, PlacedRows
  <1>3. faults' \in Nat
    BY <1>1, CallMade
  <1>4. PICK s2 : /\ client' = [client EXCEPT ![c] = s2]
                  /\ Calls(client[c], table, can, k, v, d, f, s2, table')
    BY <1>1, CallMade
  <1>5. /\ Placed(s2) /\ Steady(client[c], s2) /\ s2.pc # "idle"
        /\ table' \in Contents /\ \A x \in Keys \ {k} : table'[x] = table[x]
    <2> DEFINE s  == client[c]
               t2 == table'
    <2>1. /\ Calls(s, table, can, k, v, d, f, s2, t2) /\ Steady(s, d) /\ Steady(s, f)
          /\ table \in Contents /\ k \in Keys /\ v \in Actions \cup {Absent}
          /\ Placed(d) /\ Placed(f) /\ d.pc # "idle" /\ f.pc # "idle"
      BY <1>1, <1>2, <1>4
    <2> HIDE DEF s, t2
    <2>2. MovesOn(s, s2, table, t2, k)
      BY <2>1, CallsPlaced
    <2> QED
      BY <2>2 DEF s, t2, MovesOn
  <1>6. s2.batch = client[c].batch
    BY <1>5 DEF Steady
  <1>7. Apart(c) => Fits(native, s2, table')
    BY <1>1, <1>4 DEF Proceeds
  <1> QED
    BY <1>1, <1>3, <1>4, <1>5, <1>6, <1>7, OneRequest

-----------------------------------------------------------------------------
(* The steps.                                                               *)
LEMMA ClientFacts ==
  ASSUME RowsInv, NEW c \in Clients
  PROVE  /\ Placed(client[c]) /\ table \in Contents
         /\ client[c].pc = "patch" => Working(client[c])
  BY DEF RowsInv, RequestsPlaced, Working

LEMMA InitKnown == RowsInit => RowsInv
  <1> SUFFICES ASSUME RowsInit PROVE RowsInv
    OBVIOUS
  <1>1. /\ table \in Contents /\ native \in BOOLEAN /\ faults \in Nat
    BY DEF RowsInit, Contents
  <1>2. ASSUME NEW c \in Clients
        PROVE  /\ client[c] \in RequestState /\ client[c].batch = <<>> /\ client[c].pc = "idle"
               /\ client[c].undoing = FALSE /\ client[c].next = 0
    BY <1>1, NoRows DEF RowsInit, RequestState
  <1>3. client \in [Clients -> RequestState]
    <2>1. client = [c \in Clients |-> client[c]]
      BY DEF RowsInit
    <2> QED
      BY <1>2, <2>1
  <1>4. \A c \in Clients : Placed(client[c]) /\ Fits(native, client[c], table)
    <2>1. ASSUME NEW c \in Clients PROVE Placed(client[c])
      <3> DEFINE s == client[c]
      <3>1. /\ s \in RequestState /\ s.batch = <<>> /\ s.pc = "idle" /\ s.undoing = FALSE
            /\ s.next = 0
        BY <1>2
      <3> HIDE DEF s
      <3>2. s.next <= Len(s.batch) /\ DOMAIN s.batch = {}
        BY <3>1, NoRows
      <3>3. Placed(s)
        BY <3>1, <3>2 DEF Placed, Working
      <3> QED
        BY <3>3 DEF s
    <2>2. ASSUME NEW c \in Clients PROVE Fits(native, client[c], table)
      BY <1>2 DEF Fits, Forward, Backward
    <2> QED
      BY <2>1, <2>2
  <1> QED
    BY <1>1, <1>2, <1>3, <1>4 DEF RowsInv, RequestsPlaced, Linked

LEMMA BeginSteps ==
  ASSUME RowsInv, NEW c \in Clients, NEW b \in Batches[c], BeginEdits(c, b)
  PROVE  RowsInv'
  <1> DEFINE s  == client[c]
             s2 == [s EXCEPT !.pc = "patch", !.batch = b, !.next = 1, !.before = table]
  <1>1. /\ s \in RequestState /\ Placed(s) /\ s.pc = "idle" /\ s.batch = <<>> /\ table \in Contents
        /\ client' = [client EXCEPT ![c] = s2] /\ native' = native /\ table' = table
        /\ faults' = faults /\ faults \in Nat
    BY DEF RowsInv, RequestsPlaced, BeginEdits
  <1>2. ~s.undoing
    <2>1. s.next \in Nat /\ Len(s.batch) = 0
      BY <1>1, NoRows DEF RequestState
    <2>2. s.undoing => s.next < Len(s.batch)
      BY <1>1 DEF Placed
    <2> QED
      BY <2>1, <2>2
  <1>3. /\ b \in Seq(Edit) /\ b # <<>>
        /\ \A i \in DOMAIN b : b[i].kind = "insert" => Len(b) = 1
    BY BatchesAssumption
  <1>4. Len(b) \in Nat /\ 1 <= Len(b)
    BY <1>3
  <1>5. /\ s2 \in RequestState /\ s2.pc = "patch" /\ s2.batch = b /\ s2.next = 1
        /\ s2.before = table
        /\ s2.undoing = s.undoing
    BY <1>1, <1>3 DEF RequestState
  <1> HIDE DEF s2
  <1>6. Placed(s2)
    BY <1>2, <1>3, <1>4, <1>5 DEF Placed, Working
  <1>7. Fits(native, s2, table)
    <2>1. At(s2, 0) = table
      BY <1>5, AfterEdits DEF At
    <2>2. Applied(native, s2, 0)
      BY DEF Applied
    <2>3. Ready(native, s2, table)
      BY <1>5, <2>1, <2>2 DEF Ready, Same
    <2> QED
      BY <1>2, <1>5, <2>3 DEF Fits, Forward, Backward
  <1>8. s2.batch \in Batches[c] \cup {<<>>}
    BY <1>5
  <1> QED
    BY <1>1, <1>5, <1>6, <1>7, <1>8, OneRequest

LEMMA NothingSteps ==
  ASSUME RowsInv, NEW c \in Clients, PatchNothing(c)
  PROVE  RowsInv'
  <1> DEFINE s   == client[c]
             w   == Work(s)
             s2  == PatchDone(s)
             can == HasRow(w.key)
  <1>1. /\ Placed(s) /\ table \in Contents /\ Working(s) /\ s.pc = "patch"
        /\ w.kind = "replace" /\ Unchanged(w) /\ native' = native
    BY ClientFacts DEF PatchNothing
  <1>2. Placed(s2) /\ Steady(s, s2) /\ s2.pc # "idle"
    BY <1>1, DoneShape
  <1>3. CASE Reads
    <2>1. Call(c, can, w.key, table[w.key], s2, PatchFailed(s))
      BY <1>3 DEF PatchNothing
    <2>2. /\ Placed(PatchFailed(s)) /\ Steady(s, PatchFailed(s)) /\ PatchFailed(s).pc # "idle"
      BY <1>1, FailedShape
    <2>3. w.key \in Rows(s.batch) /\ w.key \in Keys
      BY <1>1, WorkShape, NextEdit
    <2>4. table[w.key] \in Actions \cup {Absent}
      BY <1>1, <2>3 DEF Contents
    <2>5. ASSUME NEW x, NEW t2, Fits(native, s, table),
                 Calls(s, table, can, w.key, table[w.key], s2, PatchFailed(s), x, t2)
          PROVE  Proceeds(native, s, x, t2)
      <3>1. Calls(s, table, table[w.key] # Absent, w.key, table[w.key], PatchDone(s),
                  PatchFailed(s), x, t2)
        BY <2>5 DEF HasRow
      <3>2. native \/ DirectMeter
        BY <1>3 DEF Reads
      <3> QED
        BY <1>1, <2>5, <3>1, <3>2, ReadGoes
    <2> HIDE DEF can, s2
    <2> QED
      BY <1>1, <1>2, <2>1, <2>2, <2>3, <2>4, <2>5, OneCall
  <1>4. CASE ~Reads
    <2>1. /\ client' = [client EXCEPT ![c] = s2] /\ table' = table /\ faults' = faults
      BY <1>4 DEF PatchNothing, Continue
    <2>2. Apart(c) => Fits(native, s2, table')
      <3>1. Apart(c) => Fits(native, s, table)
        BY DEF RowsInv, Linked
      <3> QED
        BY <1>1, <1>4, <2>1, <3>1, NothingGoes DEF Proceeds, Reads
    <2>3. s2.batch = s.batch /\ s.batch \in Batches[c] \cup {<<>>} /\ faults \in Nat
      BY <1>2 DEF Steady, RowsInv, RequestsPlaced
    <2> HIDE DEF s2
    <2> QED
      BY <1>1, <1>2, <2>1, <2>2, <2>3, OneRequest
  <1> QED
    BY <1>3, <1>4

LEMMA RemoveSteps ==
  ASSUME RowsInv, NEW c \in Clients, RemoveRow(c)
  PROVE  RowsInv'
  <1> DEFINE s == client[c]
             w == Work(s)
             can == HasRow(w.key)
  <1>1. /\ Placed(s) /\ table \in Contents /\ Working(s) /\ s.pc = "patch" /\ w.kind = "delete"
        /\ native' = native
        /\ Call(c, can, w.key, Absent, PatchDone(s), PatchFailed(s))
    BY ClientFacts DEF RemoveRow
  <1>2. /\ Placed(PatchDone(s)) /\ Steady(s, PatchDone(s)) /\ PatchDone(s).pc # "idle"
        /\ Placed(PatchFailed(s)) /\ Steady(s, PatchFailed(s)) /\ PatchFailed(s).pc # "idle"
    BY <1>1, DoneShape, FailedShape
  <1>3. w.key \in Rows(s.batch) /\ Absent \in Actions \cup {Absent}
    BY <1>1, WorkShape
  <1>4. ASSUME NEW s2, NEW t2, Fits(native, s, table),
               Calls(s, table, can, w.key, Absent, PatchDone(s), PatchFailed(s), s2, t2)
        PROVE  Proceeds(native, s, s2, t2)
    <2>1. Calls(s, table, table[w.key] # Absent, w.key, Absent, PatchDone(s), PatchFailed(s), s2,
                t2)
      BY <1>4 DEF HasRow
    <2> QED
      BY <1>1, <1>4, <2>1, RemoveGoes
  <1> HIDE DEF can
  <1> QED
    BY <1>1, <1>2, <1>3, <1>4, OneCall

LEMMA PostSteps ==
  ASSUME RowsInv, NEW c \in Clients, PostRow(c)
  PROVE  RowsInv'
  <1> DEFINE s == client[c]
             w == Work(s)
             can == ~HasRow(w.newKey)
  <1>1. /\ Placed(s) /\ table \in Contents /\ Working(s) /\ s.pc = "patch" /\ w.kind = "insert"
        /\ native' = native
        /\ Call(c, can, w.newKey, w.newAction, PatchDone(s), PatchFailed(s))
    BY ClientFacts DEF PostRow
  <1>2. /\ Placed(PatchDone(s)) /\ Steady(s, PatchDone(s)) /\ PatchDone(s).pc # "idle"
        /\ Placed(PatchFailed(s)) /\ Steady(s, PatchFailed(s)) /\ PatchFailed(s).pc # "idle"
    BY <1>1, DoneShape, FailedShape
  <1>3. w.newKey \in Rows(s.batch) /\ w.newAction \in Actions \cup {Absent}
    BY <1>1, WorkShape
  <1>4. ASSUME NEW s2, NEW t2, Fits(native, s, table),
               Calls(s, table, can, w.newKey, w.newAction, PatchDone(s), PatchFailed(s), s2, t2)
        PROVE  Proceeds(native, s, s2, t2)
    <2>1. Calls(s, table, table[w.newKey] = Absent, w.newKey, w.newAction,
                PatchDone(s), PatchFailed(s), s2, t2)
      BY <1>4 DEF HasRow, Calls, Errs
    <2> QED
      BY <1>1, <1>4, <2>1, PostGoes
  <1> HIDE DEF can
  <1> QED
    BY <1>1, <1>2, <1>3, <1>4, OneCall

LEMMA ActionSteps ==
  ASSUME RowsInv, NEW c \in Clients, PatchAction(c)
  PROVE  RowsInv'
  <1> DEFINE s == client[c]
             w == Work(s)
             can == HasRow(w.key)
  <1>1. /\ Placed(s) /\ table \in Contents /\ Working(s) /\ s.pc = "patch" /\ w.kind = "replace"
        /\ w.key = w.newKey /\ ~Unchanged(w) /\ native' = native
        /\ Call(c, can, w.key, w.newAction, PatchDone(s), PatchFailed(s))
    BY ClientFacts DEF PatchAction
  <1>2. /\ Placed(PatchDone(s)) /\ Steady(s, PatchDone(s)) /\ PatchDone(s).pc # "idle"
        /\ Placed(PatchFailed(s)) /\ Steady(s, PatchFailed(s)) /\ PatchFailed(s).pc # "idle"
    BY <1>1, DoneShape, FailedShape
  <1>3. w.key \in Rows(s.batch) /\ w.newAction \in Actions \cup {Absent}
    BY <1>1, WorkShape
  <1>4. ASSUME NEW s2, NEW t2, Fits(native, s, table),
               Calls(s, table, can, w.key, w.newAction, PatchDone(s), PatchFailed(s), s2, t2)
        PROVE  Proceeds(native, s, s2, t2)
    <2>1. Calls(s, table, table[w.key] # Absent, w.key, w.newAction,
                PatchDone(s), PatchFailed(s), s2, t2)
      BY <1>4 DEF HasRow
    <2> QED
      BY <1>1, <1>4, <2>1, ActionGoes
  <1> HIDE DEF can
  <1> QED
    BY <1>1, <1>2, <1>3, <1>4, OneCall

LEMMA KeySteps ==
  ASSUME RowsInv, NEW c \in Clients, PatchKey(c)
  PROVE  RowsInv'
  <1> DEFINE s == client[c]
             w == Work(s)
             can == HasRow(w.key)
             d == TakenFrom(native, s, table)
  <1>1. /\ Placed(s) /\ table \in Contents /\ Working(s) /\ s.pc = "patch" /\ w.kind = "replace"
        /\ w.key # w.newKey /\ native' = native
        /\ Call(c, can, w.key, Absent, d, PatchFailed(s))
    BY ClientFacts DEF PatchKey, TakenFrom, OriginalRow
  <1>2. /\ Placed(d) /\ Steady(s, d) /\ d.pc # "idle"
        /\ Placed(PatchFailed(s)) /\ Steady(s, PatchFailed(s)) /\ PatchFailed(s).pc # "idle"
    BY <1>1, TakenShape, FailedShape
  <1>3. w.key \in Rows(s.batch) /\ Absent \in Actions \cup {Absent}
    BY <1>1, WorkShape
  <1>4. ASSUME NEW s2, NEW t2, Fits(native, s, table),
               Calls(s, table, can, w.key, Absent, d, PatchFailed(s), s2, t2)
        PROVE  Proceeds(native, s, s2, t2)
    <2>1. Calls(s, table, table[w.key] # Absent, w.key, Absent, d, PatchFailed(s), s2, t2)
      BY <1>4 DEF HasRow
    <2> QED
      BY <1>1, <1>4, <2>1, KeyGoes
  <1> HIDE DEF can, d
  <1> QED
    BY <1>1, <1>2, <1>3, <1>4, OneCall

LEMMA InsertSteps ==
  ASSUME RowsInv, NEW c \in Clients, PatchInsert(c)
  PROVE  RowsInv'
  <1> DEFINE s == client[c]
             w == Work(s)
             can == ~HasRow(w.newKey)
             f == Restoring(s)
  <1>1. /\ Placed(s) /\ table \in Contents /\ Working(s) /\ s.pc = "insert"
        /\ native' = native
        /\ Call(c, can, w.newKey, w.newAction, PatchDone(s), f)
    BY ClientFacts DEF PatchInsert, Restoring, Working
  <1>2. /\ Placed(PatchDone(s)) /\ Steady(s, PatchDone(s)) /\ PatchDone(s).pc # "idle"
    BY <1>1, DoneShape
  <1>3. Placed(f) /\ Steady(s, f) /\ f.pc # "idle"
    <2>1. /\ f \in RequestState /\ f.batch = s.batch /\ f.before = s.before
          /\ f.pc = "restore" /\ f.undoing = s.undoing /\ f.next = s.next
      BY <1>1 DEF Placed, RequestState, Restoring
    <2> HIDE DEF f
    <2> QED
      BY <1>1, <2>1 DEF Placed, Working, Steady
  <1>4. w.newKey \in Rows(s.batch) /\ w.newAction \in Actions \cup {Absent}
    BY <1>1, WorkShape
  <1>5. ASSUME NEW s2, NEW t2, Fits(native, s, table),
               Calls(s, table, can, w.newKey, w.newAction, PatchDone(s), f, s2, t2)
        PROVE  Proceeds(native, s, s2, t2)
    <2>1. Calls(s, table, table[w.newKey] = Absent, w.newKey, w.newAction, PatchDone(s), f, s2, t2)
      BY <1>5 DEF HasRow, Calls, Errs
    <2> QED
      BY <1>1, <1>5, <2>1, InsertGoes
  <1> HIDE DEF can, f
  <1> QED
    BY <1>1, <1>2, <1>3, <1>4, <1>5, OneCall

LEMMA RestoreSteps ==
  ASSUME RowsInv, NEW c \in Clients, PatchRestore(c)
  PROVE  RowsInv'
  <1> DEFINE s == client[c]
             w == Work(s)
             can == ~HasRow(w.key)
             f == PatchFailed(s)
  <1>1. /\ Placed(s) /\ table \in Contents /\ Working(s) /\ s.pc = "restore"
        /\ native' = native /\ Call(c, can, w.key, s.row, f, f)
    BY ClientFacts DEF PatchRestore, Working
  <1>2. Placed(f) /\ Steady(s, f) /\ f.pc # "idle"
    BY <1>1, FailedShape
  <1>3. w.key \in Rows(s.batch) /\ s.row \in Actions \cup {Absent}
    BY <1>1, WorkShape DEF Placed, RequestState
  <1>4. ASSUME NEW s2, NEW t2, Fits(native, s, table),
               Calls(s, table, can, w.key, s.row, f, f, s2, t2)
        PROVE  Proceeds(native, s, s2, t2)
    <2>1. Calls(s, table, table[w.key] = Absent, w.key, s.row, f, f, s2, t2)
      BY <1>4 DEF HasRow, Calls, Errs
    <2> QED
      BY <1>1, <1>4, <2>1, RestoreGoes
  <1> HIDE DEF can, f
  <1> QED
    BY <1>1, <1>2, <1>3, <1>4, OneCall

LEMMA Stutters == RowsInv /\ UNCHANGED rowsVars => RowsInv'
  <1> SUFFICES ASSUME RowsInv, UNCHANGED rowsVars PROVE RowsInv'
    OBVIOUS
  <1>1. table' = table /\ native' = native /\ faults' = faults /\ client' = client
    BY DEF rowsVars
  <1>2. RequestsPlaced'
    BY <1>1 DEF RowsInv, RequestsPlaced
  <1>3. \A c \in Clients : Apart(c)' <=> Apart(c)
    BY <1>1 DEF Apart, Touched
  <1>4. \A c \in Clients : Apart(c)' => Fits(native', client'[c], table')
    BY <1>1, <1>3 DEF RowsInv, Linked
  <1> QED
    BY <1>2, <1>4 DEF RowsInv, Linked

(***************************************************************************)
(* Where a request to /tables is says what its rows are, as long as no     *)
(* other request edits them: no RPC, lost reply or refusal, of it or of    *)
(* others, changes that.                                                   *)
(***************************************************************************)
THEOREM RowsInvariance == RowsSpec => []RowsInv
  <1>1. RowsInv /\ [RowsNext]_rowsVars => RowsInv'
    <2> SUFFICES ASSUME RowsInv, [RowsNext]_rowsVars PROVE RowsInv'
      OBVIOUS
    <2>1. CASE UNCHANGED rowsVars
      BY <2>1, Stutters
    <2>2. ASSUME NEW c \in Clients, EditStep(c) PROVE RowsInv'
      BY <2>2, NothingSteps, RemoveSteps, PostSteps, ActionSteps, KeySteps, InsertSteps,
         RestoreSteps DEF EditStep
    <2>3. ASSUME NEW c \in Clients, NEW b \in Batches[c], BeginEdits(c, b) PROVE RowsInv'
      BY <2>3, BeginSteps
    <2> QED
      BY <2>1, <2>2, <2>3 DEF RowsNext
  <1> QED
    BY <1>1, InitKnown, PTL DEF RowsSpec

(***************************************************************************)
(* A request edits and undoes what is in its batch, never beyond.          *)
(***************************************************************************)
THEOREM RowsTyped == RowsSpec => []RowsTypeOK
  <1>1. RowsInv => RowsTypeOK
    <2> SUFFICES ASSUME RowsInv PROVE RowsTypeOK
      OBVIOUS
    <2>1. ASSUME NEW c \in Clients
          PROVE  client[c] \in ClientState(c) /\ client[c].next <= Len(client[c].batch)
      <3> DEFINE s == client[c]
      <3>1. s \in RequestState /\ s.batch \in Batches[c] \cup {<<>>} /\ s.next <= Len(s.batch)
        BY DEF RowsInv, RequestsPlaced, Placed
      <3> HIDE DEF s
      <3>2. s \in ClientState(c)
        BY <3>1 DEF RequestState, ClientState, Contents
      <3> QED
        BY <3>1, <3>2 DEF s
    <2> QED
      BY <2>1 DEF RowsInv, RequestsPlaced, RowsTypeOK, Contents
  <1> QED
    BY <1>1, RowsInvariance, PTL

LEMMA FailedAsBefore ==
  ASSUME RowsInv, NEW c \in Clients, Failed(c), Known(native, client[c])
  PROVE  Restored(c)
  <1>1. Same(Rows(client[c].batch), table, client[c].before)
    BY DEF RowsInv, Linked, Fits, Backward, Failed
  <1> QED
    BY <1>1, TouchedRows DEF Same, Restored

(***************************************************************************)
(* The roll-back of a PATCH (updateTableEntries of controller.py) is       *)
(* complete: a batch that failed left its rows as they were, if its client *)
(* had read them as they were. That undoing an edit is always something    *)
(* the table admits is part of it.                                         *)
(***************************************************************************)
THEOREM FailedBatchesRestore == RowsSpec => []FailedBatchRestores
  <1>1. RowsInv => FailedBatchRestores
    <2> SUFFICES ASSUME RowsInv, NEW c \in Clients, Failed(c), Fresh(c) PROVE Restored(c)
      BY DEF FailedBatchRestores
    <2>1. Known(native, client[c])
      BY DEF Fresh, Known, ReadAsWas
    <2> QED
      BY <2>1, FailedAsBefore
  <1> QED
    BY <1>1, RowsInvariance, PTL

(***************************************************************************)
(* On a Tofino, where update_table_entry reads a row again before it moves *)
(* it, one edit that failed left the row as it was, whatever the client    *)
(* had read.                                                               *)
(***************************************************************************)
THEOREM StaleRowsAreRestored == RowsSpec => []StaleRowRestored
  <1>1. RowsInv => StaleRowRestored
    <2> SUFFICES ASSUME RowsInv, NEW c \in Clients, native, Failed(c), Len(client[c].batch) = 1
                 PROVE  Restored(c)
      BY DEF StaleRowRestored
    <2>1. Known(native, client[c])
      BY DEF Known
    <2> QED
      BY <2>1, FailedAsBefore
  <1> QED
    BY <1>1, RowsInvariance, PTL

(***************************************************************************)
(* A batch that succeeded did what its edits mean, one after the other: it *)
(* returns what FoldLeft makes of the rows it began with.                  *)
(***************************************************************************)
THEOREM SucceededBatchesAreApplied == RowsSpec => []SucceededBatchApplied
  <1>1. RowsInv => SucceededBatchApplied
    <2> SUFFICES ASSUME RowsInv, NEW c \in Clients, client[c].pc = "succeeded", Apart(c),
                        NEW k \in Touched(c)
                 PROVE  table[k] = FoldLeft(Edited, client[c].before, client[c].batch)[k]
      BY DEF SucceededBatchApplied
    <2> DEFINE s == client[c]
    <2>1. Same(Rows(s.batch), table, At(s, Len(s.batch))) /\ s.batch \in Seq(Edit)
      BY DEF RowsInv, Linked, Fits, Forward, RequestsPlaced, Placed, RequestState
    <2>2. FoldLeft(Edited, s.before, s.batch) = At(s, Len(s.batch))
      <3> HIDE DEF s
      <3> QED
        BY <2>1, AfterAll DEF At
    <2> QED
      BY <2>1, <2>2, TouchedRows DEF Same
  <1> QED
    BY <1>1, RowsInvariance, PTL

=============================================================================
