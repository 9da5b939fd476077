------------------------------ MODULE EventLog ------------------------------
(***************************************************************************)
(* What a buffer of digest events promises to readers that page through it *)
(* with a cursor: numbers are given in order and never again, events may   *)
(* go at any time, and a reader that is told to continue after c has been  *)
(* given every event up to c that it asked for and that was still there.   *)
(* DigestStream (P4Runtime) and BfRtClient (BF Runtime) implement it.      *)
(***************************************************************************)
EXTENDS Integers

CONSTANTS Digests, Readers, NoFilter

VARIABLES
  events,    \* numbered events that are kept
  sequence,  \* the last number given
  reader     \* filter and cursor of each reader, and what it was given

vars == <<events, sequence, reader>>

Matches(e, f) == f = NoFilter \/ e.digest = f
Pending(r)    == {e \in events : e.seq > reader[r].cursor /\ Matches(e, reader[r].filter)}

Init ==
  /\ events = {} /\ sequence = 0
  /\ reader \in [Readers -> [filter : Digests \cup {NoFilter}, cursor : {0}, seen : {{}}]]

\* A digest list takes the next number, whether it is kept or refused.
Arrive(d) ==
  /\ sequence' = sequence + 1
  /\ events' \subseteq events \cup {[seq |-> sequence + 1, digest |-> d]}
  /\ UNCHANGED reader

\* Events are cleared.
Forget ==
  /\ events' \subseteq events
  /\ UNCHANGED <<sequence, reader>>

\* The reader is given what is pending up to c, and c as its cursor.
Read(r, c) ==
  /\ reader' = [reader EXCEPT ![r].cursor = c,
                              ![r].seen = @ \cup {e.seq : e \in {x \in Pending(r) : x.seq <= c}}]
  /\ UNCHANGED <<events, sequence>>

Next ==
  \/ \E d \in Digests : Arrive(d)
  \/ Forget
  \/ \E r \in Readers : \E c \in reader[r].cursor..sequence : Read(r, c)

Spec == Init /\ [][Next]_vars

(***************************************************************************)
(* A reader that follows its cursor is given every matching event that is  *)
(* still there exactly once: those up to its cursor, and no other.         *)
(***************************************************************************)
ReadersMissNothing ==
  \A r \in Readers : \A e \in events :
    Matches(e, reader[r].filter) =>
      (e.seq \in reader[r].seen <=> e.seq <= reader[r].cursor)
=============================================================================
