---------------------------- MODULE EventBuffer ----------------------------
(***************************************************************************)
(* The bounded buffers of digest events, which the P4Runtime connection    *)
(* (backend/controller/utils/switch.py) and the BF Runtime client          *)
(* (backend/controller/targets/bfrt_client.py) keep in the same way: the   *)
(* oldest events make room for a new one, and readers page through the     *)
(* rest with a filter, a cursor and a limit.                               *)
(*                                                                         *)
(* A buffer is a set of records ordered by `seq`, the number the code      *)
(* gives each event; the deque of the code is that order.                  *)
(***************************************************************************)
EXTENDS Integers, FiniteSets, FiniteSetsExt

CONSTANTS
  NoFilter,   \* a reader or a clear of all digests
  MaxEvents,  \* DIGEST_MAX_EVENTS; maxlen of the BF Runtime deque
  MaxBytes    \* DIGEST_MAX_BYTES

ASSUME BufferAssumption == MaxEvents \in Nat \ {0} /\ MaxBytes \in Nat

Bytes(E) == MapThenSumSet(LAMBDA e : e.size, E)

-----------------------------------------------------------------------------
(* Eviction: one event at a time while the counters say there is no room    *)
(* for `size` more bytes.                                                   *)

Oldest(E, n) == {e \in E : Cardinality({f \in E : f.seq < e.seq}) < n}

MakesRoom(E, bytes, size, n) ==
  \/ n = Cardinality(E)
  \/ /\ Cardinality(E) - n < MaxEvents
     /\ bytes - Bytes(Oldest(E, n)) + size <= MaxBytes

Evicted(E, bytes, size) ==
  Oldest(E, CHOOSE n \in 0..Cardinality(E) :
              /\ MakesRoom(E, bytes, size, n)
              /\ \A k \in 0..(n - 1) : ~MakesRoom(E, bytes, size, k))

-----------------------------------------------------------------------------
(* Paging: the events after `after` that a reader asked for, the first      *)
(* `limit` of them, and the cursor it is to continue from.                  *)

Matches(e, f) == f = NoFilter \/ e.digest = f

Pending(E, f, after) == {e \in E : e.seq > after /\ Matches(e, f)}

Page(E, f, after, limit) ==
  LET P == Pending(E, f, after) IN {e \in P : Cardinality({g \in P : g.seq < e.seq}) < limit}

\* Faulty: the cursor goes to the newest event, past those left out.
NewestCursor(E, last, f, after, limit) == last
NextCursor(E, last, f, after, limit) ==
  IF Cardinality(Pending(E, f, after)) > limit
  THEN Max({e.seq : e \in Page(E, f, after, limit)})
  ELSE last
=============================================================================
