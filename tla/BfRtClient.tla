----------------------------- MODULE BfRtClient -----------------------------
(***************************************************************************)
(* A writable Tofino target (backend/controller/targets/tofino.py) and its *)
(* BF Runtime client (bfrt_client.py): connecting, replacing the program,  *)
(* and the threads that read the streams.  A replaced stream's thread may  *)
(* outlive the two seconds its close() waits, so threads of several        *)
(* generations can run at once.                                            *)
(*                                                                         *)
(* The operation lock of the target serialises Initialize, Shutdown, Poll  *)
(* and Clear; the threads interleave with every step of them.  Only this   *)
(* client changes the program of the device.                               *)
(***************************************************************************)
EXTENDS EventBuffer

CONSTANTS
  Programs, NoProgram,
  Digests,       \* digest identifiers
  SizeOf,        \* the serialized size of a list of each digest
  Readers,       \* GET /digest-events callers that keep a cursor
  PageSizes,     \* the limits they ask for
  MaxListBytes,  \* 256 * 1024 (the limit on items refuses alike)
  MaxTaken,      \* bound of the model: digest lists taken from the streams
  MaxOperations  \* bound of the model: Initialize and Shutdown

ASSUME ProgramsAssumption == NoProgram \notin Programs
ASSUME SizeOfAssumption   == SizeOf \in [Digests -> Nat]
ASSUME PagesAssumption    == PageSizes \subseteq Nat \ {0}
ASSUME ListAssumption     == MaxListBytes \in Nat /\ MaxListBytes <= MaxBytes

VARIABLES
  device,     \* device: its program
  generation,
  closed,
  error,      \* stream_error: 0, or the generation of the thread that reported it
  subscribed, \* the Event of the current generation is set
  stream,     \* the generation of `stub` and `stream`; 0 when they are None
  threads,    \* the threads of _receive that run
  events, bytes, sequence, dropped,
  connected,  \* TofinoTarget.connected
  helper,     \* TofinoTarget.p4_helper
  op,         \* the step the holder of the operation lock is at
  goal,       \* the program it initializes; NoProgram while the target is added
  sent,       \* it called on_send
  reader,     \* filter and cursor of each reader, and what it was given
  taken,      \* auxiliary: digest lists taken from the streams
  operations, \* auxiliary: operations begun
  cleared     \* auxiliary: events that were cleared

stateVars  == <<generation, closed, error, subscribed, stream>>  \* under state_lock
bufferVars == <<events, bytes, sequence, dropped, cleared>>      \* under event_lock
targetVars == <<connected, helper, op, goal, sent, operations>>
vars == <<device, stateVars, threads, bufferVars, targetVars, reader, taken>>

Event == [seq : Nat \ {0}, digest : Digests, size : Nat, program : Programs]

\* `sees`: the programs the device ran since the stream was opened.
ThreadStates ==
  [gen : Nat \ {0}, pc : {"subscribing", "reading", "ending"}, cancelled : BOOLEAN,
   sees : SUBSET (Programs \cup {NoProgram})] \cup
  [gen : Nat \ {0}, pc : {"holding"}, cancelled : BOOLEAN,
   sees : SUBSET (Programs \cup {NoProgram}), digest : Digests, program : Programs]

TypeOK ==
  /\ {device, helper, goal} \subseteq Programs \cup {NoProgram}
  /\ {closed, subscribed, connected, sent} \subseteq BOOLEAN
  /\ {generation, error, stream, bytes, sequence, dropped, taken, operations, cleared} \subseteq Nat
  /\ threads \subseteq ThreadStates
  /\ events \subseteq Event
  /\ op \in {"idle", "connect", "reset", "ready", "wait", "discover", "send", "replace", "clear",
             "discarded"}
  /\ reader \in [Readers -> [filter : Digests \cup {NoFilter}, cursor : Nat, seen : SUBSET Nat]]

\* The target was created and is being added.
Init ==
  /\ device \in Programs \cup {NoProgram}
  /\ generation = 0 /\ closed = FALSE /\ error = 0 /\ subscribed = FALSE /\ stream = 0
  /\ threads = {}
  /\ events = {} /\ bytes = 0 /\ sequence = 0 /\ dropped = 0 /\ cleared = 0
  /\ connected = FALSE /\ helper = NoProgram
  /\ op = "connect" /\ goal = NoProgram /\ sent = FALSE /\ operations = 0
  /\ reader \in [Readers -> [filter : Digests \cup {NoFilter}, cursor : {0}, seen : {{}}]]
  /\ taken = 0

-----------------------------------------------------------------------------
(* The thread of a stream.                                                  *)

Becomes(t, u) == threads' = (threads \ {t}) \cup {u}

\* Faulty: a thread that was replaced reports as well.
ReportsAny(t) == ~closed
Reports(t)    == ~closed /\ t.gen = generation

\* report(error)
Report(t, replace) ==
  error' = IF Reports(t) /\ (replace \/ error = 0) THEN t.gen ELSE error

\* Each thread has its own `subscribed`; connect() waits for the newest.
SetSubscribed(t) == subscribed' = (subscribed \/ t.gen = generation)

ThreadVars == <<device, generation, closed, stream, targetVars, reader>>

SubscribeAnswered(t, granted) ==
  /\ t.pc = "subscribing" /\ ~t.cancelled
  /\ Becomes(t, [t EXCEPT !.pc = "reading"])
  /\ IF granted THEN UNCHANGED error ELSE Report(t, TRUE)
  /\ SetSubscribed(t)
  /\ UNCHANGED <<bufferVars, taken, ThreadVars>>

\* The next response of the iterator is a digest list.
Take(t, d) ==
  /\ t.pc = "reading" /\ ~t.cancelled
  /\ \E p \in t.sees \ {NoProgram} :
       Becomes(t, [gen |-> t.gen, pc |-> "holding", cancelled |-> FALSE, sees |-> t.sees,
                   digest |-> d, program |-> p])
  /\ taken < MaxTaken /\ taken' = taken + 1
  /\ UNCHANGED <<error, subscribed, bufferVars, ThreadVars>>

\* Faulty: the digests of a replaced stream are kept.
IsAnyReader(t)     == TRUE
IsCurrentReader(t) == t.gen = generation

\* Faulty: the bytes of the evicted, or of the new event, are not counted.
BytesNotFreed(old, size) == bytes + size
BytesNotAdded(old, size) == bytes - Bytes(old)
BytesAfter(old, size)    == bytes - Bytes(old) + size

Keep(d, p) ==
  LET old == Evicted(events, bytes, SizeOf[d]) IN
  /\ events' = (events \ old) \cup
               {[seq |-> sequence + 1, digest |-> d, size |-> SizeOf[d], program |-> p]}
  /\ bytes' = BytesAfter(old, SizeOf[d])
  /\ dropped' = dropped + Cardinality(old)

\* Under event_lock; the digests of a replaced stream are skipped.
Capture(t) ==
  /\ t.pc = "holding"
  /\ Becomes(t, [gen |-> t.gen, pc |-> "reading", cancelled |-> t.cancelled, sees |-> t.sees])
  /\ IF IsCurrentReader(t)
     THEN /\ sequence' = sequence + 1
          /\ IF SizeOf[t.digest] > MaxListBytes
             THEN dropped' = dropped + 1 /\ UNCHANGED <<events, bytes>>
             ELSE Keep(t.digest, t.program)
     ELSE UNCHANGED <<events, bytes, sequence, dropped>>
  /\ UNCHANGED <<cleared, error, subscribed, taken, ThreadVars>>

\* The stream ends, or raises: it was cancelled, or the server ended it.
StreamEnds(t, raises) ==
  /\ t.pc \in {"subscribing", "reading"}
  /\ t.cancelled => raises
  /\ Becomes(t, [t EXCEPT !.pc = "ending"])
  /\ IF raises THEN Report(t, TRUE) ELSE UNCHANGED error
  /\ UNCHANGED <<subscribed, bufferVars, taken, ThreadVars>>

\* Faulty: a stream that ends without an error is not reported.
EndQuietly(t) == UNCHANGED error
EndReport(t)  == Report(t, FALSE)

\* finally
ThreadEnds(t) ==
  /\ t.pc = "ending"
  /\ threads' = threads \ {t}
  /\ EndReport(t)
  /\ SetSubscribed(t)
  /\ UNCHANGED <<bufferVars, taken, ThreadVars>>

-----------------------------------------------------------------------------
(* connect() and close().  The join of close() may time out.                *)

\* Faulty: the replaced stream is left open.
LeaveOpen    == threads
CancelStream == {IF t.gen = stream THEN [t EXCEPT !.cancelled = TRUE] ELSE t : t \in threads}

Close ==
  /\ closed' = TRUE /\ generation' = generation + 1
  /\ threads' = CancelStream
  /\ stream' = 0
  /\ UNCHANGED subscribed

OperationVars == <<bytes, sequence, dropped, reader, taken>>

ConnectClose ==
  /\ op = "connect"
  /\ Close
  /\ op' = "reset"
  /\ UNCHANGED <<device, error, events, cleared, connected, helper, goal, sent, operations,
                 OperationVars>>

ConnectReset ==
  /\ op = "reset"
  /\ closed' = FALSE /\ error' = 0 /\ subscribed' = FALSE
  /\ op' = "ready"
  /\ UNCHANGED <<device, generation, stream, threads, events, cleared, connected, helper, goal,
                 sent,
                 operations, OperationVars>>

\* The channel is ready: the stub, the stream and its thread are made.
ConnectOpen ==
  /\ op = "ready"
  /\ generation' = generation + 1 /\ stream' = generation + 1
  /\ threads' = threads \cup {[gen |-> generation + 1, pc |-> "subscribing", cancelled |-> FALSE,
                               sees |-> {device}]}
  /\ op' = "wait"
  /\ UNCHANGED <<device, closed, error, subscribed, events, cleared, connected, helper, goal, sent,
                 operations, OperationVars>>

\* The subscription was answered without an error.
ConnectDone ==
  /\ op = "wait" /\ subscribed /\ error = 0
  /\ op' = IF goal # NoProgram /\ ~sent THEN "send" ELSE "discover"
  /\ UNCHANGED <<device, stateVars, threads, events, cleared, connected, helper, goal, sent,
                 operations,
                 OperationVars>>

ConnectedWithStub(s) == connected /\ s # 0

\* Initialize raises, and a target that could not be added is discarded.
Fails ==
  /\ op' = IF goal = NoProgram THEN "discarded" ELSE "idle"
  /\ connected' = (goal # NoProgram /\ ConnectedWithStub(stream'))

\* The channel is not ready, the subscription timed out or was answered with an error.
ConnectFails ==
  /\ op \in {"ready", "wait"}
  /\ Close
  /\ Fails
  /\ UNCHANGED <<device, error, events, cleared, helper, goal, sent, operations, OperationVars>>

\* discover() and what TofinoTarget does with its result.
Discovered ==
  /\ op = "discover"
  /\ goal # NoProgram => device = goal
  /\ connected' = TRUE /\ helper' = device
  /\ op' = "idle"
  /\ UNCHANGED <<device, stateVars, threads, events, cleared, goal, sent, operations,
                 OperationVars>>

DiscoverFails ==
  /\ op = "discover"
  /\ IF goal = NoProgram
     THEN Close
     ELSE UNCHANGED <<generation, closed, subscribed, stream, threads>>
  /\ Fails
  /\ UNCHANGED <<device, error, events, cleared, helper, goal, sent, operations, OperationVars>>

-----------------------------------------------------------------------------
(* initialize_bundle, after its validations.                                *)

Initialize(p) ==
  /\ op = "idle"
  /\ operations < MaxOperations /\ operations' = operations + 1
  /\ goal' = p /\ sent' = FALSE
  /\ op' = IF stream = 0 THEN "connect" ELSE "send"
  /\ UNCHANGED <<device, stateVars, threads, events, cleared, connected, helper, OperationVars>>

\* on_send, and the RPC that replaces the program of the device.
SendProgram(applied, answered) ==
  /\ op = "send"
  /\ answered => applied
  /\ sent' = TRUE /\ helper' = NoProgram
  /\ IF applied
     THEN /\ device' = goal
          /\ threads' = {[t EXCEPT !.sees = @ \cup {goal}] : t \in threads}
     ELSE UNCHANGED <<device, threads>>
  /\ IF answered
     THEN op' = "replace" /\ UNCHANGED connected
     ELSE op' = "idle" /\ connected' = ConnectedWithStub(stream)
  /\ UNCHANGED <<stateVars, events, cleared, goal, operations, OperationVars>>

ReplaceStream ==
  /\ op = "replace"
  /\ Close
  /\ op' = "clear"
  /\ UNCHANGED <<device, error, events, cleared, connected, helper, goal, sent, operations,
                 OperationVars>>

\* Faulty: the numbers start again with the program.
ClearAndRestart == events' = {} /\ bytes' = 0 /\ sequence' = 0
ClearAll        == events' = {} /\ bytes' = 0 /\ UNCHANGED sequence

\* stream_error and closed are reset under the state lock, then the events go.
ReplaceReset ==
  /\ op = "clear"
  /\ closed' = FALSE /\ error' = 0 /\ subscribed' = FALSE
  /\ ClearAll
  /\ cleared' = cleared + Cardinality(events)
  /\ op' = "connect"
  /\ UNCHANGED <<device, generation, stream, threads, dropped, connected, helper, goal, sent,
                 operations,
                 reader, taken>>

-----------------------------------------------------------------------------
Shutdown ==
  /\ op = "idle"
  /\ operations < MaxOperations /\ operations' = operations + 1
  /\ Close
  /\ connected' = FALSE
  /\ UNCHANGED <<device, error, events, cleared, helper, op, goal, sent, OperationVars>>

\* require_initialized, then digest_events.
Poll(r, limit) ==
  LET f == reader[r].filter
      c == reader[r].cursor
  IN /\ op = "idle" /\ connected /\ helper # NoProgram /\ error = 0
     /\ reader' = [reader EXCEPT ![r].cursor = NextCursor(events, sequence, f, c, limit),
                                 ![r].seen = @ \cup {e.seq : e \in Page(events, f, c, limit)}]
     /\ UNCHANGED <<device, stateVars, threads, bufferVars, targetVars, taken>>

\* clear_digest_events
Clear(f) ==
  LET left == {e \in events : ~Matches(e, f)} IN
  /\ op = "idle" /\ events # {}
  /\ events' = left /\ bytes' = Bytes(left)
  /\ cleared' = cleared + Cardinality(events \ left)
  /\ UNCHANGED <<device, stateVars, threads, sequence, dropped, targetVars, reader, taken>>

-----------------------------------------------------------------------------
ThreadStep(t) ==
  \/ \E granted \in BOOLEAN : SubscribeAnswered(t, granted)
  \/ \E d \in Digests : Take(t, d)
  \/ Capture(t)
  \/ \E raises \in BOOLEAN : StreamEnds(t, raises)
  \/ ThreadEnds(t)

Connect ==
  \/ ConnectClose \/ ConnectReset \/ ConnectOpen \/ ConnectDone \/ ConnectFails
  \/ Discovered \/ DiscoverFails

Operate ==
  \/ \E p \in Programs : Initialize(p)
  \/ \E applied, answered \in BOOLEAN : SendProgram(applied, answered)
  \/ ReplaceStream \/ ReplaceReset
  \/ Shutdown

Next ==
  \/ \E t \in threads : ThreadStep(t)
  \/ Connect
  \/ Operate
  \/ \E r \in Readers, limit \in PageSizes : Poll(r, limit)
  \/ \E f \in Digests \cup {NoFilter} : Clear(f)

Spec == Init /\ [][Next]_vars

(***************************************************************************)
(* A thread handles what it holds, and a cancelled stream raises.          *)
(***************************************************************************)
Fairness ==
  WF_vars(\E t \in threads : Capture(t) \/ ThreadEnds(t) \/ (t.cancelled /\ StreamEnds(t, TRUE)))

FairSpec == Spec /\ Fairness

-----------------------------------------------------------------------------
(***************************************************************************)
(* While a program is known to run, every event that is kept was emitted   *)
(* by it: the digests of an earlier program, decoded with the metadata of  *)
(* the new one, would be nonsense.                                         *)
(***************************************************************************)
NoStaleEvents == helper # NoProgram => \A e \in events : e.program = helper

(***************************************************************************)
(* The error of an open connection is its own: the late end of a stream    *)
(* that was replaced never makes the new connection look dead.             *)
(***************************************************************************)
ErrorIsOwn == ~closed /\ error # 0 => error = generation

(***************************************************************************)
(* When the stream of an open connection is gone its error says so, so     *)
(* that no poll reports a stream that can deliver nothing as active.       *)
(***************************************************************************)
DeadStreamReported ==
  stream = generation /\ stream # 0 /\ ~closed /\ ~(\E t \in threads : t.gen = stream) => error # 0

(***************************************************************************)
(* Between operations a connected target has a channel to be used.         *)
(***************************************************************************)
ConnectedHasChannel == op = "idle" /\ connected => stream # 0

(***************************************************************************)
(* The byte counter that eviction goes by is the size of what is kept, the *)
(* limits hold, and every list that was numbered is kept, counted in       *)
(* `dropped` or was cleared.                                               *)
(***************************************************************************)
Accounted ==
  /\ bytes = Bytes(events) /\ bytes <= MaxBytes /\ Cardinality(events) <= MaxEvents
  /\ sequence = Cardinality(events) + dropped + cleared

(***************************************************************************)
(* The client is an event log across reconnects and replaced programs: see *)
(* EventLog.                                                               *)
(***************************************************************************)
Log == INSTANCE EventLog WITH
         events <- {[seq |-> e.seq, digest |-> e.digest] : e \in events}

IsEventLog == Log!Spec

(***************************************************************************)
(* The threads of streams that were replaced end: after each replacement   *)
(* there is a moment when only the current stream has one.                 *)
(***************************************************************************)
ReplacedThreadsEnd ==
  (\E t \in threads : t.gen < generation) ~> (\A t \in threads : t.gen = generation)
=============================================================================
