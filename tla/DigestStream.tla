---------------------------- MODULE DigestStream ----------------------------
(***************************************************************************)
(* One P4Runtime stream connection (backend/controller/utils/switch.py):   *)
(* the thread that consumes the stream, the digest lists it captures and   *)
(* acknowledges, arbitration, the readers that page through the captured   *)
(* events, and the shutdown of the connection.                             *)
(***************************************************************************)
EXTENDS EventBuffer, Sequences

CONSTANTS
  Digests,      \* digest identifiers of the program
  Lists,        \* digest lists the switch emits
  DigestOf,     \* the digest a list belongs to
  SizeOf,       \* its serialized size
  Readers,      \* GET /digest-events callers that keep a cursor
  PageSizes,    \* the limits they ask for
  MaxListBytes, \* DIGEST_MAX_LIST_BYTES (the limit on items refuses alike)
  SendCap,      \* size of requests_stream
  ArbCap,       \* size of _arbitration_updates
  MaxResponses  \* bound of the model: responses taken from the stream

ASSUME DigestOfAssumption == DigestOf \in [Lists -> Digests]
ASSUME SizeOfAssumption   == SizeOf \in [Lists -> Nat]
ASSUME NoFilterAssumption == NoFilter \notin Digests
ASSUME ListsAssumption    == {"arbitration", "end"} \cap Lists = {}
ASSUME PagesAssumption    == PageSizes \subseteq Nat \ {0}
ASSUME LimitsAssumption   == /\ {SendCap, ArbCap} \subseteq Nat \ {0}
                             /\ MaxListBytes \in Nat /\ MaxListBytes <= MaxBytes

VARIABLES
  closed,     \* _closed, set for good by shutdown()
  active,     \* _stream_active
  primary,    \* _stream_primary
  error,      \* _stream_error is set
  arbUpdates, \* _arbitration_updates: was the controller primary in each?
  requests,   \* requests_stream: "arbitration", "end", or the list of an ACK
  events,     \* _digest_events
  bytes,      \* _digest_event_bytes
  sequence,   \* _digest_sequence
  dropped,    \* _digest_dropped
  cancelled,  \* stream_msg_resp.cancel() was called
  consumer,   \* where _consume_stream is
  message,    \* the response it holds
  caller,     \* where MasterArbitrationUpdate is; "none" without one
  closer,     \* where shutdown() is
  reader,     \* filter and cursor of each reader, and what it was given
  acked,      \* switch: lists whose ACK arrived
  captured,   \* auxiliary: lists that were captured in full
  heard,      \* auxiliary: an arbitration update was handled
  taken,      \* auxiliary: responses taken from the stream
  received,   \* auxiliary: digest lists handled before the connection closed
  cleared     \* auxiliary: events that were cleared

flagVars    == <<active, primary, error>>
captureVars == <<events, bytes, sequence, dropped>>
threadVars  == <<consumer, message>>
auxVars     == <<captured, heard, taken, received, cleared>>
vars == <<closed, flagVars, arbUpdates, requests, captureVars, cancelled, threadVars, caller,
          closer, reader, acked, auxVars>>

Event == [seq : Nat \ {0}, digest : Digests, size : Nat]

Message ==
  [kind : {"none"}] \cup [kind : {"arbitration"}, ok : BOOLEAN] \cup
  [kind : {"digest"}, list : Lists] \cup [kind : {"error"}, auth : BOOLEAN]

TypeOK ==
  /\ {closed, active, primary, error, cancelled, heard} \subseteq BOOLEAN
  /\ arbUpdates \in Seq(BOOLEAN)
  /\ requests \in Seq({"arbitration", "end"} \cup Lists)
  /\ events \subseteq Event
  /\ {bytes, sequence, dropped, taken, received, cleared} \subseteq Nat
  /\ consumer \in {"next", "handling", "announcing", "ending", "ended"}
  /\ message \in Message
  /\ caller \in {"none", "drained", "waiting", "checking"}
  /\ closer \in {"none", "closed", "queued", "cancelled", "done"}
  /\ reader \in [Readers -> [filter : Digests \cup {NoFilter}, cursor : Nat, seen : SUBSET Nat]]
  /\ acked \subseteq Lists /\ captured \subseteq Lists

Silence == [kind |-> "none"]

Init ==
  /\ closed = FALSE /\ active = TRUE /\ primary = FALSE /\ error = FALSE
  /\ arbUpdates = <<>> /\ requests = <<>>
  /\ events = {} /\ bytes = 0 /\ sequence = 0 /\ dropped = 0
  /\ cancelled = FALSE /\ consumer = "next" /\ message = Silence
  /\ caller = "none" /\ closer = "none"
  /\ reader \in [Readers -> [filter : Digests \cup {NoFilter}, cursor : {0}, seen : {{}}]]
  /\ acked = {} /\ captured = {} /\ heard = FALSE /\ taken = 0 /\ received = 0 /\ cleared = 0

-----------------------------------------------------------------------------
(* The request queue.                                                       *)

\* _send_stream succeeds; otherwise it raises.
CanSend == ~closed /\ Len(requests) < SendCap

\* gRPC takes the next request; the end of the queue ends the requests.
Transmit ==
  /\ requests # <<>> /\ Head(requests) # "end"
  /\ active /\ ~cancelled
  /\ requests' = Tail(requests)
  /\ acked' = IF Head(requests) \in Lists THEN acked \cup {Head(requests)} ELSE acked
  /\ UNCHANGED <<closed, flagVars, arbUpdates, captureVars, cancelled, threadVars, caller,
                 closer, reader, auxVars>>

-----------------------------------------------------------------------------
(* _consume_stream.                                                         *)

\* What the switch may send.  It repeats a list until its ACK arrives.
Sendable ==
  [kind : {"arbitration"}, ok : BOOLEAN] \cup [kind : {"error"}, auth : BOOLEAN] \cup
  [kind : {"digest"}, list : Lists \ acked]

\* The next response of the iterator; an update for another device is skipped.
Receive(m) ==
  /\ consumer = "next" /\ ~cancelled
  /\ m \in Sendable
  /\ taken < MaxResponses /\ taken' = taken + 1
  /\ IF closed
     THEN consumer' = "ending" /\ UNCHANGED message
     ELSE consumer' = "handling" /\ message' = m
  /\ UNCHANGED <<closed, flagVars, arbUpdates, requests, captureVars, cancelled, caller,
                 closer, reader, acked, captured, heard, received, cleared>>

\* The iterator ends, or raises.
StreamEnds(raised) ==
  /\ consumer = "next"
  /\ consumer' = "ending"
  /\ error' = (error \/ (raised /\ ~closed))
  /\ UNCHANGED <<closed, active, primary, arbUpdates, requests, captureVars, cancelled, message,
                 caller, closer, reader, acked, auxVars>>

HandleArbitration ==
  /\ consumer = "handling" /\ message.kind = "arbitration"
  /\ primary' = message.ok
  /\ error' = ~message.ok
  /\ heard' = TRUE
  /\ consumer' = "announcing"
  /\ UNCHANGED <<closed, active, arbUpdates, requests, captureVars, cancelled, message, caller,
                 closer, reader, acked, captured, taken, received, cleared>>

\* Faulty: the thread waits until somebody takes an update.
AnnounceOrWait ==
  /\ consumer = "announcing"
  /\ Len(arbUpdates) < ArbCap
  /\ arbUpdates' = Append(arbUpdates, message.ok)
  /\ consumer' = "next" /\ message' = Silence
  /\ UNCHANGED <<closed, flagVars, requests, captureVars, cancelled, caller, closer, reader,
                 acked, auxVars>>

\* The update is queued after the event lock is released; when nobody takes
\* the updates, the oldest makes room.
Announce ==
  /\ consumer = "announcing"
  /\ arbUpdates' = Append(IF Len(arbUpdates) < ArbCap THEN arbUpdates ELSE Tail(arbUpdates),
                          message.ok)
  /\ consumer' = "next" /\ message' = Silence
  /\ UNCHANGED <<closed, flagVars, requests, captureVars, cancelled, caller, closer, reader,
                 acked, auxVars>>

\* Faulty: an error of the stream takes mastership silently.
HandleErrorQuietly ==
  /\ consumer = "handling" /\ message.kind = "error"
  /\ error' = (error \/ ~message.auth)
  /\ primary' = (primary /\ ~message.auth)
  /\ consumer' = "next" /\ message' = Silence
  /\ UNCHANGED <<closed, active, arbUpdates, requests, captureVars, cancelled, caller, closer,
                 reader, acked, auxVars>>

\* PERMISSION_DENIED and UNAUTHENTICATED end mastership.
HandleError ==
  /\ consumer = "handling" /\ message.kind = "error"
  /\ error' = TRUE
  /\ primary' = (primary /\ ~message.auth)
  /\ consumer' = "next" /\ message' = Silence
  /\ UNCHANGED <<closed, active, arbUpdates, requests, captureVars, cancelled, caller, closer,
                 reader, acked, auxVars>>

ConsumerStops ==
  /\ consumer = "ending"
  /\ active' = FALSE /\ primary' = FALSE
  /\ error' = (error \/ ~closed)
  /\ consumer' = "ended"
  /\ UNCHANGED <<closed, arbUpdates, requests, captureVars, cancelled, message, caller, closer,
                 reader, acked, auxVars>>

-----------------------------------------------------------------------------
(* _capture_digest, under the event lock.                                   *)

\* Faulty: a list that is too large, or that a backup controller gets, is
\* acknowledged so that the switch does not repeat it.
RefuseAndAck(l) ==
  /\ dropped' = dropped + 1
  /\ error' = TRUE
  /\ requests' = IF CanSend THEN Append(requests, l) ELSE requests
  /\ UNCHANGED <<events, bytes, sequence, captured>>

Refuse(l) ==
  /\ dropped' = dropped + 1
  /\ error' = TRUE
  /\ UNCHANGED <<events, bytes, sequence, captured, requests>>

Capture(l) ==
  LET old == Evicted(events, bytes, SizeOf[l]) IN
  /\ events' = (events \ old) \cup
               {[seq |-> sequence + 1, digest |-> DigestOf[l], size |-> SizeOf[l]]}
  /\ bytes' = bytes - Bytes(old) + SizeOf[l]
  /\ sequence' = sequence + 1
  /\ dropped' = dropped + Cardinality(old)
  /\ captured' = captured \cup {l}
  /\ IF CanSend
     THEN requests' = Append(requests, l) /\ UNCHANGED error
     ELSE error' = TRUE /\ UNCHANGED requests

\* Faulty: what was checked when the response was taken is not checked again.
HandleUnchecked ==
  LET l == message.list IN
  /\ consumer = "handling" /\ message.kind = "digest"
  /\ IF SizeOf[l] <= MaxListBytes THEN Capture(l) ELSE Refuse(l)
  /\ received' = received + 1
  /\ consumer' = "next" /\ message' = Silence
  /\ UNCHANGED <<closed, active, primary, arbUpdates, cancelled, caller, closer, reader, acked,
                 heard, taken, cleared>>

IsOpen == ~closed

HandleDigest ==
  LET l == message.list IN
  /\ consumer = "handling" /\ message.kind = "digest"
  /\ IF ~IsOpen
     THEN UNCHANGED <<captureVars, error, requests, captured, received>>
     ELSE /\ IF primary /\ SizeOf[l] <= MaxListBytes THEN Capture(l) ELSE Refuse(l)
          /\ received' = received + 1
  /\ consumer' = "next" /\ message' = Silence
  /\ UNCHANGED <<closed, active, primary, arbUpdates, cancelled, caller, closer, reader, acked,
                 heard, taken, cleared>>

-----------------------------------------------------------------------------
(* GetDigestEvents and ClearDigestEvents.                                   *)

Poll(r, limit) ==
  LET f == reader[r].filter
      c == reader[r].cursor
  IN /\ reader' = [reader EXCEPT ![r].cursor = NextCursor(events, sequence, f, c, limit),
                                 ![r].seen = @ \cup {e.seq : e \in Page(events, f, c, limit)}]
     /\ UNCHANGED <<closed, flagVars, arbUpdates, requests, captureVars, cancelled, threadVars,
                    caller, closer, acked, auxVars>>

\* Faulty: clearing one digest forgets the bytes of all.
NoBytes(E)   == 0
BytesLeft(E) == Bytes(E)

ClearEvents(f) ==
  LET left == {e \in events : ~Matches(e, f)} IN
  /\ events' = left
  /\ bytes' = BytesLeft(left)
  /\ cleared' = cleared + Cardinality(events \ left)

\* Faulty: the numbers start again.
ClearAndRestart(f) ==
  /\ events # {}
  /\ ClearEvents(f)
  /\ sequence' = 0
  /\ UNCHANGED <<closed, flagVars, arbUpdates, requests, dropped, cancelled, threadVars,
                 caller, closer, reader, acked, captured, heard, taken, received>>

\* DELETE /digest-events, and SetForwardingPipelineConfig once it committed.
Clear(f) ==
  /\ events # {}
  /\ ClearEvents(f)
  /\ UNCHANGED <<closed, flagVars, arbUpdates, requests, sequence, dropped, cancelled, threadVars,
                 caller, closer, reader, acked, captured, heard, taken, received>>

-----------------------------------------------------------------------------
(* MasterArbitrationUpdate, under the arbitration lock.                     *)

ArbitrationVars == <<closed, flagVars, captureVars, threadVars, closer, reader, acked, auxVars>>

ArbitrationBegin ==
  /\ caller = "none"
  /\ arbUpdates' = <<>>
  /\ caller' = "drained"
  /\ UNCHANGED <<requests, cancelled, ArbitrationVars>>

ArbitrationSend ==
  /\ caller = "drained"
  /\ IF CanSend
     THEN requests' = Append(requests, "arbitration") /\ caller' = "waiting"
     ELSE caller' = "none" /\ UNCHANGED requests
  /\ UNCHANGED <<arbUpdates, cancelled, ArbitrationVars>>

ArbitrationAnswer ==
  /\ caller = "waiting" /\ arbUpdates # <<>>
  /\ arbUpdates' = Tail(arbUpdates)
  /\ caller' = "none"
  /\ UNCHANGED <<requests, cancelled, ArbitrationVars>>

\* get() timed out with the queue empty.
ArbitrationEmpty ==
  /\ caller = "waiting" /\ arbUpdates = <<>>
  /\ caller' = "checking"
  /\ UNCHANGED <<arbUpdates, requests, cancelled, ArbitrationVars>>

\* Faulty: only shutdown() is noticed.
SeesClose == closed
SeesEnd   == closed \/ ~active

ArbitrationCheck ==
  /\ caller = "checking"
  /\ caller' = IF SeesEnd THEN "none" ELSE "waiting"
  /\ UNCHANGED <<arbUpdates, requests, cancelled, ArbitrationVars>>

\* Ten seconds passed: the stream is given up.
ArbitrationTimeout ==
  /\ caller = "checking" /\ ~SeesEnd
  /\ cancelled' = TRUE
  /\ caller' = "none"
  /\ UNCHANGED <<arbUpdates, requests, ArbitrationVars>>

-----------------------------------------------------------------------------
(* shutdown().                                                              *)

ShutdownVars == <<arbUpdates, sequence, dropped, threadVars, caller, reader, acked, error,
                  captured, heard, taken, received>>

ShutdownBegin ==
  /\ closer = "none"
  /\ closed' = TRUE /\ closer' = "closed"
  /\ UNCHANGED <<active, primary, requests, events, bytes, cancelled, cleared, ShutdownVars>>

\* IterableQueue.close: the sentinel replaces the oldest request when full.
ShutdownQueue ==
  /\ closer = "closed"
  /\ requests' = Append(IF Len(requests) < SendCap THEN requests ELSE Tail(requests), "end")
  /\ closer' = "queued"
  /\ UNCHANGED <<closed, active, primary, events, bytes, cancelled, cleared, ShutdownVars>>

ShutdownCancel ==
  /\ closer = "queued"
  /\ cancelled' = TRUE /\ closer' = "cancelled"
  /\ UNCHANGED <<closed, active, primary, requests, events, bytes, cleared, ShutdownVars>>

\* join() returned: the consumer ended, or two seconds passed.
ShutdownEnd ==
  /\ closer = "cancelled"
  /\ active' = FALSE /\ primary' = FALSE
  /\ ClearEvents(NoFilter)
  /\ closer' = "done"
  /\ UNCHANGED <<closed, requests, cancelled, ShutdownVars>>

-----------------------------------------------------------------------------
Consume ==
  \/ \E m \in Sendable : Receive(m)
  \/ \E raised \in BOOLEAN : StreamEnds(raised)
  \/ HandleArbitration \/ Announce \/ HandleDigest \/ HandleError \/ ConsumerStops

Arbitrate ==
  \/ ArbitrationSend \/ ArbitrationAnswer \/ ArbitrationEmpty \/ ArbitrationCheck

Shutdown == ShutdownBegin \/ ShutdownQueue \/ ShutdownCancel \/ ShutdownEnd

Next ==
  \/ Transmit
  \/ Consume
  \/ \E r \in Readers, limit \in PageSizes : Poll(r, limit)
  \/ \E f \in Digests \cup {NoFilter} : Clear(f)
  \/ ArbitrationBegin \/ Arbitrate \/ ArbitrationTimeout
  \/ Shutdown

Spec == Init /\ [][Next]_vars

(***************************************************************************)
(* The consumer handles what it holds and a cancelled iterator raises; the *)
(* caller's polls return after 0.1 s.  The switch owes no answer, and the  *)
(* ten seconds of the caller are not used to make it return.               *)
(***************************************************************************)
Fairness ==
  /\ WF_vars(HandleArbitration \/ Announce \/ HandleDigest \/ HandleError \/ ConsumerStops)
  /\ WF_vars(cancelled /\ StreamEnds(TRUE))
  /\ WF_vars(Arbitrate)

FairSpec == Spec /\ Fairness

-----------------------------------------------------------------------------
(***************************************************************************)
(* The switch forgets a list once it is acknowledged: every ACK, queued or *)
(* sent, is for a list that was captured in full by a primary controller.  *)
(***************************************************************************)
AckedIsCaptured ==
  /\ acked \subseteq captured
  /\ \A i \in DOMAIN requests : requests[i] \in Lists => requests[i] \in captured

(***************************************************************************)
(* Bounded memory: the byte counter that eviction goes by is the size of   *)
(* what is kept, whatever was evicted or cleared, and both limits hold.    *)
(* `dropped` tells a reader of every list that was not kept: those refused *)
(* and those evicted, but not those a user cleared.                        *)
(***************************************************************************)
Accounted ==
  /\ bytes = Bytes(events) /\ bytes <= MaxBytes /\ Cardinality(events) <= MaxEvents
  /\ received = Cardinality(events) + dropped + cleared

(***************************************************************************)
(* The connection is an event log: see EventLog.  In particular a reader   *)
(* that follows its cursor is given every matching event that is still     *)
(* there exactly once, across pages, evictions and clears.                 *)
(***************************************************************************)
Log == INSTANCE EventLog WITH
         events <- {[seq |-> e.seq, digest |-> e.digest] : e \in events}

IsEventLog         == Log!Spec
ReadersMissNothing == Log!ReadersMissNothing

(***************************************************************************)
(* A connection that was closed keeps no event, even if the consumer had   *)
(* already taken a digest from the stream and outlived join().             *)
(***************************************************************************)
EmptyOnceClosed == closer = "done" => events = {}

(***************************************************************************)
(* An open connection that is not primary after the first arbitration      *)
(* tells why, also when the stream ended without an error.                 *)
(***************************************************************************)
LossIsExplained == heard /\ ~primary /\ ~closed => error

(***************************************************************************)
(* An arbitration does not wait for its deadline when the stream is dead.  *)
(***************************************************************************)
ArbitrationWakes == (caller = "waiting" /\ ~active) ~> caller = "none"

(***************************************************************************)
(* The consumer thread ends once the connection is shut down.              *)
(***************************************************************************)
ConsumerEnds == cancelled ~> consumer = "ended"
=============================================================================
