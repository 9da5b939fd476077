------------------------- MODULE BfRtClient_proofs -------------------------
(***************************************************************************)
(* Proofs about BfRtClient for any programs, digests, limits and any       *)
(* number of operations: the late threads of replaced streams disturb      *)
(* neither the events nor the error of the new connection, and the client  *)
(* implements EventLog.                                                    *)
(***************************************************************************)
EXTENDS BfRtClient, EventBuffer_proofs

-----------------------------------------------------------------------------
(* Generations: a stream is of the newest generation or there is none, and  *)
(* without a stream no thread of the newest generation runs.                *)
Generations ==
  /\ generation \in Nat /\ error \in Nat
  /\ threads \subseteq ThreadStates
  /\ stream \in {0, generation}
  /\ \A t \in threads : t.gen <= generation
  /\ stream = 0 => \A t \in threads : t.gen # generation
  /\ stream = 0 /\ ~closed => error = 0

(* What the holder of the operation lock knows at each of its steps.        *)
Steps ==
  /\ {device, goal} \subseteq Programs \cup {NoProgram}
  /\ op = "idle" /\ connected => stream # 0
  /\ op \in {"wait", "discover", "send", "replace"} => stream # 0
  /\ op \in {"reset", "ready", "clear"} => stream = 0
  /\ op = "send" => goal # NoProgram
  /\ op \in {"replace", "clear"} => sent /\ goal # NoProgram
  /\ op = "discover" => goal = NoProgram \/ sent

(* Everything that is kept, or can still be captured, is of the device's    *)
(* program ...                                                              *)
Fresh ==
  /\ \A e \in events : e.program = device
  /\ \A t \in threads : t.gen = generation =>
       t.sees \subseteq {device} /\ (t.pc = "holding" => t.program = device)

(* ... as long as the helper is known, while the target is being added, and *)
(* once the events of the old program were cleared.                         *)
Renewing == sent /\ op \in {"connect", "reset", "ready", "wait", "discover"}

Programmed ==
  /\ helper # NoProgram => helper = device
  /\ helper # NoProgram \/ goal = NoProgram \/ Renewing => Fresh

Safe == Generations /\ Steps /\ Programmed /\ DeadStreamReported

-----------------------------------------------------------------------------
(* The updates of a thread keep its generation and the programs it sees.    *)
LEMMA ThreadShape ==
  ASSUME NEW t \in ThreadStates
  PROVE  /\ t.gen \in Nat \ {0} /\ t.cancelled \in BOOLEAN
         /\ t.sees \subseteq Programs \cup {NoProgram}
         /\ t.pc = "holding" => t.digest \in Digests /\ t.program \in Programs
  BY DEF ThreadStates

LEMMA Moved ==
  ASSUME NEW t \in ThreadStates, t.pc # "holding", NEW pc \in {"subscribing", "reading", "ending"}
  PROVE  /\ [t EXCEPT !.pc = pc] \in ThreadStates
         /\ [t EXCEPT !.pc = pc].gen = t.gen /\ [t EXCEPT !.pc = pc].sees = t.sees
         /\ [t EXCEPT !.pc = pc].pc = pc
  BY DEF ThreadStates

LEMMA Cancelled ==
  ASSUME NEW t \in ThreadStates
  PROVE  /\ [t EXCEPT !.cancelled = TRUE] \in ThreadStates
         /\ [t EXCEPT !.cancelled = TRUE].gen = t.gen
         /\ [t EXCEPT !.cancelled = TRUE].sees = t.sees
         /\ [t EXCEPT !.cancelled = TRUE].pc = t.pc
         /\ t.pc = "holding" => [t EXCEPT !.cancelled = TRUE].program = t.program
  BY DEF ThreadStates

LEMMA Sees ==
  ASSUME NEW t \in ThreadStates, NEW p \in Programs
  PROVE  /\ [t EXCEPT !.sees = @ \cup {p}] \in ThreadStates
         /\ [t EXCEPT !.sees = @ \cup {p}].gen = t.gen
  BY DEF ThreadStates

(* What a step of one thread does to the threads.                           *)
Replaced(t, u) ==
  /\ threads' = (threads \ {t}) \cup {u}
  /\ u \in ThreadStates /\ u.gen = t.gen /\ u.sees = t.sees

LEMMA BecomesReplaced ==
  ASSUME Generations, NEW t \in threads, ThreadStep(t)
  PROVE  \/ /\ ThreadEnds(t)
         \/ \E u : /\ Replaced(t, u)
                   /\ u.pc = "holding" => t.pc = "reading" /\ u.program \in t.sees
  <1> USE DEF Generations
  <1>1. ASSUME NEW granted \in BOOLEAN, SubscribeAnswered(t, granted)
        PROVE  Replaced(t, [t EXCEPT !.pc = "reading"]) /\ [t EXCEPT !.pc = "reading"].pc # "holding"
    BY <1>1, Moved DEF SubscribeAnswered, Becomes, Replaced
  <1>2. ASSUME NEW d \in Digests, Take(t, d)
        PROVE  \E u : /\ Replaced(t, u) /\ t.pc = "reading" /\ u.program \in t.sees
    <2>1. PICK p \in t.sees \ {NoProgram} :
            Becomes(t, [gen |-> t.gen, pc |-> "holding", cancelled |-> FALSE, sees |-> t.sees,
                        digest |-> d, program |-> p])
      BY <1>2 DEF Take
    <2>2. p \in Programs
      BY ThreadShape
    <2> DEFINE u == [gen |-> t.gen, pc |-> "holding", cancelled |-> FALSE, sees |-> t.sees,
                     digest |-> d, program |-> p]
    <2>3. u \in ThreadStates
      BY <2>2, ThreadShape DEF ThreadStates
    <2>4. Becomes(t, u) /\ u.gen = t.gen /\ u.sees = t.sees /\ u.program = p /\ t.pc = "reading"
      BY <1>2, <2>1 DEF Take
    <2> HIDE DEF u
    <2>5. Replaced(t, u) /\ t.pc = "reading" /\ u.program \in t.sees
      BY <2>1, <2>3, <2>4 DEF Becomes, Replaced
    <2> QED
      BY <2>5
  <1>3. ASSUME Capture(t)
        PROVE  \E u : Replaced(t, u) /\ u.pc # "holding"
    <2> DEFINE u == [gen |-> t.gen, pc |-> "reading", cancelled |-> t.cancelled, sees |-> t.sees]
    <2>1. u \in ThreadStates
      BY ThreadShape DEF ThreadStates
    <2>2. Replaced(t, u) /\ u.pc # "holding"
      BY <1>3, <2>1 DEF Capture, Becomes, Replaced
    <2> QED
      BY <2>2
  <1>4. ASSUME NEW raises \in BOOLEAN, StreamEnds(t, raises)
        PROVE  Replaced(t, [t EXCEPT !.pc = "ending"]) /\ [t EXCEPT !.pc = "ending"].pc # "holding"
    BY <1>4, Moved DEF StreamEnds, Becomes, Replaced
  <1> QED
    BY <1>1, <1>2, <1>3, <1>4 DEF ThreadStep

(* A thread changes the error only when the connection is open and its own. *)
LEMMA ThreadEffects ==
  ASSUME NEW t \in threads, ThreadStep(t)
  PROVE  /\ UNCHANGED ThreadVars
         /\ error' = error \/ (error' = t.gen /\ ~closed /\ t.gen = generation)
  BY DEF ThreadStep, SubscribeAnswered, Take, Capture, StreamEnds, ThreadEnds, EndReport, Report,
     Reports, ThreadVars

LEMMA ThreadGenerations ==
  ASSUME Safe, NEW t \in threads, ThreadStep(t)
  PROVE  Generations' /\ Steps' /\ DeadStreamReported'
  <1>1. UNCHANGED <<device, generation, closed, stream, targetVars>>
    BY ThreadEffects DEF ThreadVars
  <1>2. error' = error \/ (error' = t.gen /\ ~closed /\ t.gen = generation)
    BY ThreadEffects
  <1>3. t \in ThreadStates /\ t.gen \in Nat \ {0} /\ t.gen <= generation /\ error' \in Nat
    BY <1>2, ThreadShape DEF Safe, Generations
  <1>4. Steps'
    BY <1>1 DEF Safe, Steps, targetVars
  <1>5. CASE ThreadEnds(t)
    <2>1. threads' = threads \ {t} /\ EndReport(t)
      BY <1>5 DEF ThreadEnds
    <2>2. Generations'
      BY <1>1, <1>2, <1>3, <2>1 DEF Safe, Generations
    <2>3. ~closed /\ t.gen = generation => error' # 0
      BY <1>3, <2>1 DEF EndReport, Report, Reports, Safe, Generations
    <2>4. error # 0 => error' # 0
      BY <1>2, <1>3
    <2>5. DeadStreamReported'
      BY <1>1, <2>1, <2>3, <2>4 DEF Safe, DeadStreamReported
    <2> QED
      BY <1>4, <2>2, <2>5
  <1>6. ASSUME NEW u, Replaced(t, u) PROVE Generations' /\ DeadStreamReported'
    <2>1. threads' = (threads \ {t}) \cup {u} /\ u \in ThreadStates /\ u.gen = t.gen
      BY <1>6 DEF Replaced
    <2>2. Generations'
      BY <1>1, <1>2, <1>3, <2>1 DEF Safe, Generations
    <2>3. error # 0 => error' # 0
      BY <1>2, <1>3
    <2>4. DeadStreamReported'
      BY <1>1, <2>1, <2>3 DEF Safe, DeadStreamReported
    <2> QED
      BY <2>2, <2>4
  <1> QED
    BY <1>4, <1>5, <1>6, BecomesReplaced DEF Safe

(* Only what a thread of the current generation holds joins the events.     *)
LEMMA ThreadKeeps ==
  ASSUME NEW t \in threads, ThreadStep(t)
  PROVE  \A e \in events' :
           e \in events \/ (t.pc = "holding" /\ t.gen = generation /\ e.program = t.program)
  <1>1. CASE Capture(t)
    BY <1>1 DEF Capture, Keep, IsCurrentReader
  <1>2. CASE ~Capture(t)
    BY <1>2 DEF ThreadStep, SubscribeAnswered, Take, StreamEnds, ThreadEnds, bufferVars
  <1> QED
    BY <1>1, <1>2

LEMMA ThreadProgrammed ==
  ASSUME Safe, NEW t \in threads, ThreadStep(t)
  PROVE  Programmed'
  <1>1. UNCHANGED <<device, generation, targetVars>>
    BY ThreadEffects DEF ThreadVars
  <1>2. ASSUME Fresh PROVE Fresh'
    <2>1. \A e \in events' : e.program = device
      BY <1>2, ThreadKeeps DEF Fresh
    <2>2. CASE ThreadEnds(t)
      BY <1>1, <1>2, <2>1, <2>2 DEF ThreadEnds, Fresh
    <2>3. ASSUME NEW u, Replaced(t, u), u.pc = "holding" => t.pc = "reading" /\ u.program \in t.sees
          PROVE  Fresh'
      <3>1. threads' = (threads \ {t}) \cup {u} /\ u.gen = t.gen /\ u.sees = t.sees
        BY <2>3 DEF Replaced
      <3>2. u.gen = generation => u.sees \subseteq {device} /\ (u.pc = "holding" => u.program = device)
        BY <1>2, <2>3, <3>1 DEF Fresh
      <3> QED
        BY <1>1, <1>2, <2>1, <3>1, <3>2 DEF Fresh
    <2> QED
      BY <2>2, <2>3, BecomesReplaced DEF Safe
  <1> QED
    BY <1>1, <1>2 DEF Safe, Programmed, Renewing, targetVars

-----------------------------------------------------------------------------
(* close() leaves no stream, and every thread that still runs is late.      *)
LEMMA Closed ==
  ASSUME Generations, Close, UNCHANGED <<device, error, events>>
  PROVE  /\ Generations' /\ DeadStreamReported' /\ stream' = 0
         /\ Fresh => Fresh'
  <1>1. /\ closed' = TRUE /\ generation' = generation + 1 /\ stream' = 0
        /\ threads' = CancelStream
    BY DEF Close
  <1>2. \A u \in threads' : u \in ThreadStates /\ u.gen <= generation
    <2> SUFFICES ASSUME NEW t \in threads,
                        NEW u, u = IF t.gen = stream THEN [t EXCEPT !.cancelled = TRUE] ELSE t
                 PROVE  u \in ThreadStates /\ u.gen <= generation
      BY <1>1 DEF CancelStream
    <2>1. t \in ThreadStates /\ t.gen <= generation
      BY DEF Generations
    <2> QED
      BY <2>1, Cancelled
  <1>3. \A u \in threads' : u.gen \in Nat /\ u.gen <= generation' /\ u.gen # generation'
    BY <1>1, <1>2, ThreadShape DEF Generations
  <1>4. Generations'
    BY <1>1, <1>2, <1>3 DEF Generations
  <1>5. DeadStreamReported'
    BY <1>1 DEF DeadStreamReported
  <1> QED
    BY <1>1, <1>3, <1>4, <1>5 DEF Fresh

LEMMA ConnectStep == Safe /\ Connect => Safe'
  <1> SUFFICES ASSUME Safe, Connect PROVE Safe'
    OBVIOUS
  <1> USE DEF OperationVars
  <1>1. CASE ConnectClose
    <2>1. Generations' /\ DeadStreamReported' /\ stream' = 0 /\ (Fresh => Fresh')
      BY <1>1, Closed DEF ConnectClose, Safe
    <2> QED
      BY <1>1, <2>1 DEF ConnectClose, Safe, Steps, Programmed, Renewing
  <1>2. CASE ConnectReset
    BY <1>2 DEF ConnectReset, Safe, Generations, Steps, Programmed, Renewing, Fresh,
       DeadStreamReported
  <1>3. CASE ConnectOpen
    <2> DEFINE new == [gen |-> generation + 1, pc |-> "subscribing", cancelled |-> FALSE,
                       sees |-> {device}]
    <2>1. /\ generation' = generation + 1 /\ stream' = generation + 1
          /\ threads' = threads \cup {new} /\ UNCHANGED <<device, closed, error, events>>
      BY <1>3 DEF ConnectOpen
    <2>2. generation \in Nat /\ generation + 1 \in Nat \ {0}
          /\ stream = 0 /\ device \in Programs \cup {NoProgram}
      BY <1>3 DEF ConnectOpen, Safe, Generations, Steps
    <2>3. new \in ThreadStates
      BY <2>2 DEF ThreadStates
    <2>4. new.gen = generation + 1 /\ new.pc = "subscribing" /\ new.sees = {device}
      OBVIOUS
    <2>5. \A t \in threads : t.gen \in Nat /\ t.gen <= generation
      BY ThreadShape DEF Safe, Generations
    <2> HIDE DEF new
    <2>6. Generations'
      BY <2>1, <2>2, <2>3, <2>4, <2>5 DEF Safe, Generations
    <2>7. DeadStreamReported'
      BY <2>1, <2>4 DEF DeadStreamReported
    <2>8. Fresh => Fresh'
      BY <2>1, <2>2, <2>4, <2>5 DEF Fresh
    <2> QED
      BY <1>3, <2>1, <2>2, <2>6, <2>7, <2>8
         DEF ConnectOpen, Safe, Steps, Programmed, Renewing
  <1>4. CASE ConnectDone
    BY <1>4 DEF ConnectDone, stateVars, Safe, Generations, Steps, Programmed, Renewing, Fresh,
       DeadStreamReported
  <1>5. CASE ConnectFails
    <2>1. Generations' /\ DeadStreamReported' /\ stream' = 0 /\ (Fresh => Fresh')
      BY <1>5, Closed DEF ConnectFails, Safe
    <2> QED
      BY <1>5, <2>1 DEF ConnectFails, Fails, ConnectedWithStub, Safe, Steps, Programmed, Renewing
  <1>6. CASE Discovered
    BY <1>6 DEF Discovered, stateVars, Safe, Generations, Steps, Programmed, Renewing, Fresh,
       DeadStreamReported
  <1>7. CASE DiscoverFails
    <2>1. CASE goal = NoProgram
      <3>1. Generations' /\ DeadStreamReported' /\ stream' = 0 /\ (Fresh => Fresh')
        BY <1>7, <2>1, Closed DEF DiscoverFails, Safe
      <3> QED
        BY <1>7, <2>1, <3>1 DEF DiscoverFails, Fails, ConnectedWithStub, Safe, Steps, Programmed, Renewing
    <2>2. CASE goal # NoProgram
      BY <1>7, <2>2 DEF DiscoverFails, Fails, ConnectedWithStub, Safe, Generations, Steps, Programmed,
         Renewing, Fresh, DeadStreamReported
    <2> QED
      BY <2>1, <2>2
  <1> QED
    BY <1>1, <1>2, <1>3, <1>4, <1>5, <1>6, <1>7 DEF Connect

LEMMA OperateStep == Safe /\ Operate => Safe'
  <1> SUFFICES ASSUME Safe, Operate PROVE Safe'
    OBVIOUS
  <1> USE DEF OperationVars
  <1>1. ASSUME NEW p \in Programs, Initialize(p) PROVE Safe'
    <2>1. p # NoProgram
      BY ProgramsAssumption
    <2> QED
      BY <1>1, <2>1 DEF Initialize, stateVars, Safe, Generations, Steps, Programmed, Renewing, Fresh,
         DeadStreamReported
  <1>2. ASSUME NEW applied \in BOOLEAN, NEW answered \in BOOLEAN, SendProgram(applied, answered)
        PROVE  Safe'
    <2>1. op = "send" /\ stream # 0 /\ goal # NoProgram /\ stream' = stream
      BY <1>2 DEF SendProgram, stateVars, Safe, Steps
    <2>2. Generations' /\ DeadStreamReported'
      <3>1. CASE ~applied
        BY <1>2, <3>1 DEF SendProgram, stateVars, Safe, Generations, DeadStreamReported
      <3>2. CASE applied
        <4>1. threads' = {[t EXCEPT !.sees = @ \cup {goal}] : t \in threads} /\ UNCHANGED stateVars
          BY <1>2, <3>2 DEF SendProgram
        <4>2. goal \in Programs
          BY <2>1 DEF Safe, Steps
        <4>3. \A t \in threads : /\ [t EXCEPT !.sees = @ \cup {goal}] \in ThreadStates
                                 /\ [t EXCEPT !.sees = @ \cup {goal}].gen = t.gen
          BY <4>2, Sees DEF Safe, Generations
        <4> QED
          BY <4>1, <4>3 DEF stateVars, Safe, Generations, DeadStreamReported
      <3> QED
        BY <3>1, <3>2
    <2>3. Steps'
      BY <1>2, <2>1 DEF SendProgram, ConnectedWithStub, Safe, Steps
    <2>4. Programmed'
      BY <1>2, <2>1 DEF SendProgram, Programmed, Renewing
    <2> QED
      BY <2>2, <2>3, <2>4 DEF Safe
  <1>3. CASE ReplaceStream
    <2>1. Generations' /\ DeadStreamReported' /\ stream' = 0 /\ (Fresh => Fresh')
      BY <1>3, Closed DEF ReplaceStream, Safe
    <2> QED
      BY <1>3, <2>1 DEF ReplaceStream, Safe, Steps, Programmed, Renewing
  <1>4. CASE ReplaceReset
    BY <1>4 DEF ReplaceReset, ClearAll, Safe, Generations, Steps, Programmed, Renewing, Fresh,
       DeadStreamReported
  <1>5. CASE Shutdown
    <2>1. Generations' /\ DeadStreamReported' /\ stream' = 0 /\ (Fresh => Fresh')
      BY <1>5, Closed DEF Shutdown, Safe
    <2> QED
      BY <1>5, <2>1 DEF Shutdown, Safe, Steps, Programmed, Renewing
  <1> QED
    BY <1>1, <1>2, <1>3, <1>4, <1>5 DEF Operate

LEMMA SafeStep == Safe /\ [Next]_vars => Safe'
  <1> SUFFICES ASSUME Safe, [Next]_vars PROVE Safe'
    OBVIOUS
  <1>1. ASSUME NEW t \in threads, ThreadStep(t) PROVE Safe'
    BY <1>1, ThreadGenerations, ThreadProgrammed DEF Safe
  <1>2. ASSUME NEW r \in Readers, NEW limit \in PageSizes, Poll(r, limit) PROVE Safe'
    BY <1>2 DEF Poll, stateVars, bufferVars, targetVars, Safe, Generations, Steps, Programmed,
       Renewing, Fresh, DeadStreamReported
  <1>3. ASSUME NEW f \in Digests \cup {NoFilter}, Clear(f) PROVE Safe'
    BY <1>3 DEF Clear, stateVars, targetVars, Safe, Generations, Steps, Programmed,
       Renewing, Fresh, DeadStreamReported
  <1>4. CASE UNCHANGED vars
    BY <1>4 DEF vars, stateVars, bufferVars, targetVars, Safe, Generations, Steps, Programmed,
       Renewing, Fresh, DeadStreamReported
  <1> QED
    BY <1>1, <1>2, <1>3, <1>4, ConnectStep, OperateStep DEF Next

(***************************************************************************)
(* Safe is an invariant of the client.                                     *)
(***************************************************************************)
THEOREM ClientInvariant == Spec => []Safe
  <1>1. Init => Safe
    BY DEF Init, Safe, Generations, Steps, Programmed, Renewing, Fresh, DeadStreamReported
  <1> QED
    BY <1>1, SafeStep, PTL DEF Spec

(***************************************************************************)
(* While a program is known to run, every event that is kept is its own.   *)
(***************************************************************************)
THEOREM EventsAreFresh == Spec => []NoStaleEvents
  <1>1. Safe => NoStaleEvents
    BY DEF Safe, Programmed, Fresh, NoStaleEvents
  <1> QED
    BY <1>1, ClientInvariant, PTL

(***************************************************************************)
(* A late thread never reports on the connection that replaced its own.    *)
(***************************************************************************)
THEOREM LateThreadsAreSilent == Spec => []ErrorIsOwn
  <1>1. Init => ErrorIsOwn
    BY DEF Init, ErrorIsOwn
  <1>2. Safe /\ ErrorIsOwn /\ [Next]_vars => ErrorIsOwn'
    <2> SUFFICES ASSUME Safe, ErrorIsOwn, [Next]_vars PROVE ErrorIsOwn'
      OBVIOUS
    <2>1. ASSUME NEW t \in threads, ThreadStep(t) PROVE ErrorIsOwn'
      <3>1. UNCHANGED <<generation, closed>>
        BY <2>1, ThreadEffects DEF ThreadVars
      <3>2. error' = error \/ error' = generation
        BY <2>1, ThreadEffects
      <3> QED
        BY <3>1, <3>2 DEF ErrorIsOwn
    <2>2. CASE ConnectOpen
      BY <2>2 DEF ConnectOpen, Safe, Generations, Steps, ErrorIsOwn
    <2>3. CASE DiscoverFails
      BY <2>3 DEF DiscoverFails, Close, ErrorIsOwn
    <2>4. CASE ConnectClose \/ ConnectReset \/ ConnectDone \/ ConnectFails \/ Discovered
      BY <2>4 DEF ConnectClose, ConnectReset, ConnectDone, ConnectFails, Discovered, Close,
         stateVars, ErrorIsOwn
    <2>5. CASE Operate
      BY <2>5 DEF Operate, Initialize, SendProgram, ReplaceStream, ReplaceReset, Shutdown, Close,
         stateVars, ErrorIsOwn
    <2>6. ASSUME NEW r \in Readers, NEW limit \in PageSizes, Poll(r, limit) PROVE ErrorIsOwn'
      BY <2>6 DEF Poll, stateVars, ErrorIsOwn
    <2>7. ASSUME NEW f \in Digests \cup {NoFilter}, Clear(f) PROVE ErrorIsOwn'
      BY <2>7 DEF Clear, stateVars, ErrorIsOwn
    <2>8. CASE UNCHANGED vars
      BY <2>8 DEF vars, stateVars, ErrorIsOwn
    <2> QED
      BY <2>1, <2>2, <2>3, <2>4, <2>5, <2>6, <2>7, <2>8 DEF Next, Connect
  <1> QED
    BY <1>1, <1>2, ClientInvariant, PTL DEF Spec

(***************************************************************************)
(* The end of a stream is reported, unless the connection was closed.      *)
(***************************************************************************)
THEOREM DeadStreamsAreReported == Spec => []DeadStreamReported
  <1>1. Safe => DeadStreamReported
    BY DEF Safe
  <1> QED
    BY <1>1, ClientInvariant, PTL

(***************************************************************************)
(* A connected target has a channel whenever the operation lock is free.   *)
(***************************************************************************)
THEOREM ConnectedTargetsHaveAChannel == Spec => []ConnectedHasChannel
  <1>1. Safe => ConnectedHasChannel
    BY DEF Safe, Steps, ConnectedHasChannel
  <1> QED
    BY <1>1, ClientInvariant, PTL

-----------------------------------------------------------------------------
(* The order of the events, on which the cursors of readers rest.           *)
Numbering ==
  /\ sequence \in Nat
  /\ IsFiniteSet(events)
  /\ \A e \in events : e.seq \in Nat /\ e.seq <= sequence
  /\ reader \in [Readers -> [filter : Digests \cup {NoFilter}, cursor : Nat, seen : SUBSET Nat]]
  /\ \A r \in Readers : reader[r].cursor <= sequence

(* What the events and the readers can go through in a step.                *)
Numbers == <<events, sequence, reader>>

CaptureStep == \E d \in Digests, p \in Programs :
  /\ sequence' = sequence + 1
  /\ events' \subseteq events \cup
       {[seq |-> sequence + 1, digest |-> d, size |-> SizeOf[d], program |-> p]}
  /\ reader' = reader

ForgetStep == events' \subseteq events /\ UNCHANGED <<sequence, reader>>

PollStep == \E r \in Readers, limit \in PageSizes : Poll(r, limit)

LEMMA StepKinds ==
  Safe /\ [Next]_vars => CaptureStep \/ ForgetStep \/ PollStep \/ UNCHANGED Numbers
  <1> SUFFICES ASSUME Safe, [Next]_vars
               PROVE  CaptureStep \/ ForgetStep \/ PollStep \/ UNCHANGED Numbers
    OBVIOUS
  <1> USE DEF Numbers
  <1>1. ASSUME NEW t \in threads, ThreadStep(t) PROVE CaptureStep \/ UNCHANGED Numbers
    <2>1. reader' = reader
      BY <1>1, ThreadEffects DEF ThreadVars
    <2>2. CASE Capture(t) /\ t.gen = generation
      <3>1. t.digest \in Digests /\ t.program \in Programs
        BY <2>2, ThreadShape DEF Capture, Safe, Generations
      <3>2. /\ sequence' = sequence + 1
            /\ events' \subseteq events \cup {[seq |-> sequence + 1, digest |-> t.digest,
                                                size |-> SizeOf[t.digest], program |-> t.program]}
        BY <2>2 DEF Capture, IsCurrentReader, Keep
      <3> QED
        BY <2>1, <3>1, <3>2 DEF CaptureStep
    <2>3. CASE Capture(t) /\ t.gen # generation
      BY <2>1, <2>3 DEF Capture, IsCurrentReader
    <2>4. CASE ~Capture(t)
      BY <1>1, <2>1, <2>4 DEF ThreadStep, SubscribeAnswered, Take, StreamEnds, ThreadEnds, bufferVars
    <2> QED
      BY <2>2, <2>3, <2>4
  <1>2. CASE Connect
    BY <1>2 DEF Connect, ConnectClose, ConnectReset, ConnectOpen, ConnectDone, ConnectFails,
       Discovered, DiscoverFails, OperationVars
  <1>3. CASE Operate
    <2>1. CASE ReplaceReset
      BY <2>1 DEF ReplaceReset, ClearAll, ForgetStep
    <2>2. CASE ~ReplaceReset
      BY <1>3, <2>2 DEF Operate, Initialize, SendProgram, ReplaceStream, Shutdown, OperationVars
    <2> QED
      BY <2>1, <2>2
  <1>4. ASSUME NEW f \in Digests \cup {NoFilter}, Clear(f) PROVE ForgetStep
    BY <1>4 DEF Clear, ForgetStep
  <1>5. CASE UNCHANGED vars
    BY <1>5 DEF vars, bufferVars
  <1> QED
    BY <1>1, <1>2, <1>3, <1>4, <1>5 DEF Next, PollStep

(* The record a reader is left with.                                        *)
Given(r, c) == {e.seq : e \in {x \in Pending(events, reader[r].filter, reader[r].cursor) : x.seq <= c}}

LEMMA PollReader ==
  ASSUME Numbering, NEW r \in Readers, NEW limit \in PageSizes, Poll(r, limit)
  PROVE  LET c == NextCursor(events, sequence, reader[r].filter, reader[r].cursor, limit)
         IN /\ c \in reader[r].cursor..sequence /\ c \in Nat
            /\ UNCHANGED <<events, sequence>>
            /\ Given(r, c) \subseteq Nat
            /\ reader' = [reader EXCEPT ![r].cursor = c, ![r].seen = @ \cup Given(r, c)]
  <1> DEFINE f == reader[r].filter
             a == reader[r].cursor
             c == NextCursor(events, sequence, f, a, limit)
  <1>1. a \in Nat /\ a <= sequence
    BY DEF Numbering
  <1>2. /\ c \in a..sequence
        /\ Page(events, f, a, limit) = {x \in Pending(events, f, a) : x.seq <= c}
    <2>1. /\ IsFiniteSet(events) /\ sequence \in Nat /\ limit \in Nat \ {0}
          /\ \A e \in events : e.seq \in Nat /\ e.seq <= sequence
      BY PagesAssumption DEF Numbering
    <2>2. a \in Nat /\ a <= sequence
      BY <1>1
    <2> HIDE DEF f, a
    <2>3. /\ NextCursor(events, sequence, f, a, limit) \in a..sequence
          /\ Page(events, f, a, limit) \subseteq Pending(events, f, a)
          /\ \A e \in Pending(events, f, a) : e \in Page(events, f, a, limit) <=>
               e.seq <= NextCursor(events, sequence, f, a, limit)
      BY <2>1, <2>2, PageIsPrefix
    <2> QED
      BY <2>3
  <1>3. reader' = [reader EXCEPT ![r].cursor = c,
                                 ![r].seen = @ \cup {e.seq : e \in Page(events, f, a, limit)}]
    BY DEF Poll
  <1>4. reader' = [reader EXCEPT ![r].cursor = c, ![r].seen = @ \cup Given(r, c)]
    BY <1>2, <1>3 DEF Given
  <1>5. UNCHANGED <<events, sequence>>
    BY DEF Poll, bufferVars
  <1>6. Given(r, c) \subseteq Nat
    BY DEF Given, Pending, Numbering
  <1>7. sequence \in Nat
    BY DEF Numbering
  <1> QED
    BY <1>1, <1>2, <1>4, <1>5, <1>6, <1>7

LEMMA NumberingStep == Safe /\ Numbering /\ [Next]_vars => Numbering'
  <1> SUFFICES ASSUME Safe, Numbering, [Next]_vars PROVE Numbering'
    OBVIOUS
  <1>1. CASE CaptureStep
    <2>1. PICK d \in Digests, p \in Programs :
            events' \subseteq events \cup
              {[seq |-> sequence + 1, digest |-> d, size |-> SizeOf[d], program |-> p]}
      BY <1>1 DEF CaptureStep
    <2> DEFINE new == [seq |-> sequence + 1, digest |-> d, size |-> SizeOf[d], program |-> p]
    <2>2. \A e \in events' : e \in events \/ e.seq = sequence + 1
      BY <2>1
    <2>3. IsFiniteSet(events \cup {new})
      <3> HIDE DEF new
      <3> QED
        BY FS_AddElement DEF Numbering
    <2>4. IsFiniteSet(events')
      BY <2>1, <2>3, FS_Subset
    <2>5. sequence' = sequence + 1 /\ reader' = reader
      BY <1>1 DEF CaptureStep
    <2>6. \A r \in Readers : reader[r].cursor \in Nat
      BY DEF Numbering
    <2> QED
      BY <2>2, <2>4, <2>5, <2>6 DEF Numbering
  <1>2. CASE ForgetStep
    BY <1>2, FS_Subset DEF ForgetStep, Numbering
  <1>3. CASE PollStep
    <2>1. PICK r \in Readers, limit \in PageSizes : Poll(r, limit)
      BY <1>3 DEF PollStep
    <2> DEFINE c == NextCursor(events, sequence, reader[r].filter, reader[r].cursor, limit)
               given == Given(r, c)
               Reader == [filter : Digests \cup {NoFilter}, cursor : Nat, seen : SUBSET Nat]
    <2>2. /\ c \in Nat /\ c <= sequence /\ given \subseteq Nat
          /\ UNCHANGED <<events, sequence>>
          /\ reader' = [reader EXCEPT ![r].cursor = c, ![r].seen = @ \cup given]
      BY <2>1, PollReader DEF Numbering
    <2> HIDE DEF c, given
    <2>3. reader[r] \in Reader /\ reader \in [Readers -> Reader]
      BY DEF Numbering
    <2>4. reader' \in [Readers -> Reader] /\ reader'[r].cursor = c
      <3>1. reader' = [reader EXCEPT ![r] = [@ EXCEPT !.cursor = c,
                                                      !.seen = reader[r].seen \cup given]]
        BY <2>2, <2>3
      <3>2. [reader[r] EXCEPT !.cursor = c, !.seen = reader[r].seen \cup given] \in Reader
        BY <2>2, <2>3
      <3> QED
        BY <2>3, <3>1, <3>2
    <2>5. \A q \in Readers : reader'[q].cursor <= sequence
      BY <2>2 DEF Numbering
    <2> QED
      BY <2>2, <2>4, <2>5 DEF Numbering
  <1>4. CASE UNCHANGED Numbers
    BY <1>4 DEF Numbers, Numbering
  <1> QED
    BY <1>1, <1>2, <1>3, <1>4, StepKinds

(***************************************************************************)
(* No event, and no cursor of a reader, is numbered beyond the sequence.   *)
(***************************************************************************)
THEOREM NumberingInvariant == Spec => []Numbering
  <1>1. Init => Numbering
    BY FS_EmptySet DEF Init, Numbering
  <1> QED
    BY <1>1, ClientInvariant, NumberingStep, PTL DEF Spec

-----------------------------------------------------------------------------
(* A capture, refused or kept, is an arrival; clearing, and replacing the   *)
(* program, forget; a poll is a read; every other step leaves the log.      *)
Logged == {[seq |-> e.seq, digest |-> e.digest] : e \in events}

LEMMA LogArrives == CaptureStep => \E d \in Digests : Log!Arrive(d)
  <1> SUFFICES ASSUME CaptureStep PROVE \E d \in Digests : Log!Arrive(d)
    OBVIOUS
  <1>1. PICK d \in Digests, p \in Programs :
          /\ sequence' = sequence + 1 /\ reader' = reader
          /\ events' \subseteq events \cup
               {[seq |-> sequence + 1, digest |-> d, size |-> SizeOf[d], program |-> p]}
    BY DEF CaptureStep
  <1>2. Logged' \subseteq Logged \cup {[seq |-> sequence + 1, digest |-> d]}
    <2> SUFFICES ASSUME NEW e \in events'
                 PROVE  [seq |-> e.seq, digest |-> e.digest] \in
                          Logged \cup {[seq |-> sequence + 1, digest |-> d]}
      BY DEF Logged
    <2>1. CASE e \in events
      BY <2>1 DEF Logged
    <2>2. CASE e = [seq |-> sequence + 1, digest |-> d, size |-> SizeOf[d], program |-> p]
      BY <2>2
    <2> QED
      BY <1>1, <2>1, <2>2
  <1>3. Log!Arrive(d)
    BY <1>1, <1>2 DEF Log!Arrive, Logged
  <1> QED
    BY <1>3

LEMMA LogReads == Numbering /\ PollStep => Log!Next
  <1> SUFFICES ASSUME Numbering, PollStep PROVE Log!Next
    OBVIOUS
  <1>1. PICK r \in Readers, limit \in PageSizes : Poll(r, limit)
    BY DEF PollStep
  <1> DEFINE f == reader[r].filter
             a == reader[r].cursor
             c == NextCursor(events, sequence, f, a, limit)
             given == Given(r, c)
             read  == {e.seq : e \in {x \in Log!Pending(r) : x.seq <= c}}
  <1>2. /\ c \in a..sequence /\ UNCHANGED <<events, sequence>>
        /\ reader' = [reader EXCEPT ![r].cursor = c, ![r].seen = @ \cup given]
    BY <1>1, PollReader
  <1>3. read = given
    <2>1. ASSUME NEW n \in given PROVE n \in read
      <3>1. PICK e \in events : e.seq = n /\ e.seq > a /\ Matches(e, f) /\ e.seq <= c
        BY <2>1 DEF Given, Pending
      <3> DEFINE x == [seq |-> e.seq, digest |-> e.digest]
      <3>2. x \in Log!Pending(r)
        BY <3>1 DEF Log!Pending, Log!Matches, Matches
      <3> QED
        BY <3>1, <3>2
    <2>2. ASSUME NEW n \in read PROVE n \in given
      <3>1. PICK x \in Log!Pending(r) : x.seq = n /\ x.seq <= c
        OBVIOUS
      <3>2. PICK e \in events : x = [seq |-> e.seq, digest |-> e.digest]
        BY <3>1 DEF Log!Pending
      <3>3. e \in Pending(events, f, a) /\ e.seq = n /\ e.seq <= c
        BY <3>1, <3>2 DEF Log!Pending, Log!Matches, Matches, Pending
      <3> QED
        BY <3>3 DEF Given
    <2> HIDE DEF given, read
    <2> QED
      BY <2>1, <2>2
  <1> HIDE DEF c, given, read
  <1>4. reader' = [reader EXCEPT ![r].cursor = c, ![r].seen = @ \cup read]
    BY <1>2, <1>3
  <1>5. Log!Read(r, c)
    BY <1>2, <1>4 DEF Log!Read, read
  <1> QED
    BY <1>2, <1>5 DEF Log!Next

(***************************************************************************)
(* The client implements EventLog: its numbers and its readers' cursors    *)
(* survive every reconnect and every program that is replaced.             *)
(***************************************************************************)
THEOREM ClientIsEventLog == Spec => IsEventLog
  <1>1. Init => Log!Init
    BY DEF Init, Log!Init
  <1>2. ForgetStep => Log!Forget
    BY DEF ForgetStep, Log!Forget
  <1>3. UNCHANGED Numbers => UNCHANGED Log!vars
    BY DEF Numbers, Log!vars
  <1>4. Safe /\ Numbering /\ [Next]_vars => [Log!Next]_(Log!vars)
    BY <1>2, <1>3, StepKinds, LogArrives, LogReads DEF Log!Next
  <1> QED
    BY <1>1, <1>4, ClientInvariant, NumberingInvariant, PTL DEF Spec, IsEventLog, Log!Spec

-----------------------------------------------------------------------------
(* The accounts of the buffer.  Eviction goes by `bytes`, so it makes room  *)
(* only if `bytes` is the sum of the sizes kept; a number is given to every *)
(* list of the current stream, and only the operation that replaces the     *)
(* program and a clear take events away without counting them as dropped.   *)
Counted ==
  /\ Accounted
  /\ Sized(events)
  /\ {dropped, cleared} \subseteq Nat

Accounts == <<events, bytes, sequence, dropped, cleared>>

LEMMA KeepCounted ==
  ASSUME Numbering, Counted, NEW d \in Digests, NEW p, SizeOf[d] <= MaxListBytes, Keep(d, p),
         sequence' = sequence + 1, cleared' = cleared
  PROVE  Counted'
  <1> DEFINE new == [seq |-> sequence + 1, digest |-> d, size |-> SizeOf[d], program |-> p]
             old == Evicted(events, bytes, SizeOf[d])
  <1>1. /\ events' = (events \ old) \cup {new} /\ bytes' = bytes - Bytes(old) + SizeOf[d]
        /\ dropped' = dropped + Cardinality(old)
    BY DEF Keep, BytesAfter
  <1>2. /\ new \notin events /\ new.size = SizeOf[d] /\ new.size \in Nat /\ new.size <= MaxBytes
        /\ \A e \in events : e.seq \in Nat
    BY SizeOfAssumption, ListAssumption, BufferAssumption DEF Numbering
  <1>3. Sized(events) /\ bytes = Bytes(events)
    BY DEF Counted, Accounted
  <1>4. old = Evicted(events, Bytes(events), new.size)
    BY <1>2, <1>3
  <1> HIDE DEF new, old
  <1>5. /\ Sized(events') /\ Bytes(events') = bytes' /\ bytes' <= MaxBytes
        /\ Cardinality(events') <= MaxEvents
        /\ Cardinality(events') + Cardinality(old) = Cardinality(events) + 1
        /\ Cardinality(old) \in Nat
    BY <1>1, <1>2, <1>3, <1>4, CaptureAccounts
  <1>6. Cardinality(events') \in Nat /\ Cardinality(events) \in Nat
    BY <1>3, <1>5, FS_CardinalityType DEF Sized
  <1>7. sequence' = Cardinality(events') + dropped' + cleared'
    BY <1>1, <1>5, <1>6 DEF Counted, Accounted
  <1>8. {dropped', cleared'} \subseteq Nat
    BY <1>1, <1>5 DEF Counted
  <1> QED
    BY <1>5, <1>7, <1>8 DEF Counted, Accounted

LEMMA ForgetCounted ==
  ASSUME Counted, NEW left \in SUBSET events, events' = left, bytes' = Bytes(left),
         cleared' = cleared + Cardinality(events \ left), UNCHANGED <<sequence, dropped>>
  PROVE  Counted'
  <1>1. /\ Sized(left) /\ Bytes(left) \in Nat /\ Bytes(left) <= Bytes(events)
        /\ Cardinality(left) + Cardinality(events \ left) = Cardinality(events)
        /\ Cardinality(left) <= Cardinality(events)
        /\ {Cardinality(left), Cardinality(events \ left), Cardinality(events)} \subseteq Nat
    BY ClearAccounts DEF Counted
  <1>2. Bytes(left) <= MaxBytes
    BY <1>1, BytesNat, BufferAssumption DEF Counted, Accounted
  <1>3. Cardinality(left) <= MaxEvents
    BY <1>1, BufferAssumption DEF Counted, Accounted
  <1>4. Accounted'
    BY <1>1, <1>2, <1>3 DEF Counted, Accounted
  <1> QED
    BY <1>1, <1>4 DEF Counted

LEMMA CountedStep == Safe /\ Numbering /\ Counted /\ [Next]_vars => Counted'
  <1> SUFFICES ASSUME Safe, Numbering, Counted, [Next]_vars PROVE Counted'
    OBVIOUS
  <1>1. CASE UNCHANGED Accounts
    BY <1>1 DEF Accounts, Counted, Accounted
  <1>2. ASSUME NEW t \in threads, ThreadStep(t) PROVE Counted'
    <2>1. CASE Capture(t) /\ t.gen = generation
      <3>1. t.digest \in Digests
        BY <2>1, ThreadShape DEF Capture, Safe, Generations
      <3>2. sequence' = sequence + 1 /\ cleared' = cleared
        BY <2>1 DEF Capture, IsCurrentReader
      <3>3. CASE SizeOf[t.digest] <= MaxListBytes
        <4>1. Keep(t.digest, t.program)
          BY <2>1, <3>1, <3>3, SizeOfAssumption, ListAssumption DEF Capture, IsCurrentReader
        <4> QED
          BY <3>1, <3>2, <3>3, <4>1, KeepCounted
      <3>4. CASE ~(SizeOf[t.digest] <= MaxListBytes)
        <4>1. dropped' = dropped + 1 /\ UNCHANGED <<events, bytes>>
          BY <2>1, <3>1, <3>4, SizeOfAssumption, ListAssumption DEF Capture, IsCurrentReader
        <4>2. Cardinality(events) \in Nat
          BY FS_CardinalityType DEF Counted, Sized
        <4>3. Accounted'
          BY <3>2, <4>1, <4>2 DEF Counted, Accounted
        <4>4. Sized(events') /\ {dropped', cleared'} \subseteq Nat
          BY <3>2, <4>1 DEF Counted
        <4> QED
          BY <4>3, <4>4 DEF Counted
      <3> QED
        BY <3>3, <3>4
    <2>2. CASE Capture(t) /\ t.gen # generation
      <3>1. UNCHANGED Accounts
        BY <2>2 DEF Capture, IsCurrentReader, Accounts
      <3> QED
        BY <1>1, <3>1
    <2>3. CASE ~Capture(t)
      <3>1. UNCHANGED Accounts
        BY <1>2, <2>3 DEF ThreadStep, SubscribeAnswered, Take, StreamEnds, ThreadEnds, bufferVars,
           Accounts
      <3> QED
        BY <1>1, <3>1
    <2> QED
      BY <2>1, <2>2, <2>3
  <1>3. CASE Connect
    <2>1. UNCHANGED Accounts
      BY <1>3 DEF Connect, ConnectClose, ConnectReset, ConnectOpen, ConnectDone, ConnectFails,
         Discovered, DiscoverFails, OperationVars, Accounts
    <2> QED
      BY <1>1, <2>1
  <1>4. CASE ReplaceReset
    <2>1. /\ events' = {} /\ bytes' = 0 /\ cleared' = cleared + Cardinality(events)
          /\ UNCHANGED <<sequence, dropped>>
      BY <1>4 DEF ReplaceReset, ClearAll
    <2>2. Bytes({}) = 0 /\ {} \in SUBSET events /\ events \ {} = events
      BY FS_EmptySet, BytesUnfold
    <2> QED
      BY <2>1, <2>2, ForgetCounted
  <1>5. CASE Operate /\ ~ReplaceReset
    <2>1. UNCHANGED Accounts
      BY <1>5 DEF Operate, Initialize, SendProgram, ReplaceStream, Shutdown, OperationVars,
         Accounts
    <2> QED
      BY <1>1, <2>1
  <1>6. ASSUME NEW f \in Digests \cup {NoFilter}, Clear(f) PROVE Counted'
    <2> DEFINE left == {e \in events : ~Matches(e, f)}
    <2>1. /\ left \in SUBSET events /\ events' = left /\ bytes' = Bytes(left)
          /\ cleared' = cleared + Cardinality(events \ left) /\ UNCHANGED <<sequence, dropped>>
      BY <1>6 DEF Clear
    <2> HIDE DEF left
    <2> QED
      BY <2>1, ForgetCounted
  <1>7. CASE (\E r \in Readers, limit \in PageSizes : Poll(r, limit)) \/ UNCHANGED vars
    <2>1. UNCHANGED Accounts
      BY <1>7 DEF Poll, vars, bufferVars, Accounts
    <2> QED
      BY <1>1, <2>1
  <1> QED
    BY <1>2, <1>3, <1>4, <1>5, <1>6, <1>7 DEF Next

LEMMA CountedInvariant == Spec => []Counted
  <1>1. Init => Counted
    <2> SUFFICES ASSUME Init PROVE Counted
      OBVIOUS
    <2>1. IsFiniteSet({}) /\ Cardinality({}) = 0 /\ Bytes({}) = 0
      BY FS_EmptySet, BytesUnfold
    <2>2. MaxEvents \in Nat /\ MaxBytes \in Nat
      BY BufferAssumption
    <2> QED
      BY <2>1, <2>2 DEF Init, Counted, Accounted, Sized
  <1> QED
    BY <1>1, CountedStep, ClientInvariant, NumberingInvariant, PTL DEF Spec

(***************************************************************************)
(* Bounded memory across reconnects and replaced programs: the byte        *)
(* counter is the size of what is kept, both limits hold, and every list   *)
(* that was numbered is kept, counted as dropped, or was cleared.          *)
(***************************************************************************)
THEOREM CapturesAreAccounted == Spec => []Accounted
  <1>1. Counted => Accounted
    BY DEF Counted
  <1> QED
    BY <1>1, CountedInvariant, PTL

-----------------------------------------------------------------------------
(* What remains of the type invariant.                                      *)
Flags ==
  /\ closed \in BOOLEAN /\ subscribed \in BOOLEAN
  /\ connected \in BOOLEAN /\ sent \in BOOLEAN

Places ==
  /\ op \in {"idle", "connect", "reset", "ready", "wait", "discover", "send", "replace", "clear",
             "discarded"}
  /\ helper \in Programs \cup {NoProgram}
  /\ taken \in Nat /\ operations \in Nat

Shapes == Flags /\ Places /\ events \subseteq Event

LEMMA FlagsStep == Flags /\ [Next]_vars => Flags'
  <1> SUFFICES ASSUME Flags, [Next]_vars PROVE Flags'
    OBVIOUS
  <1> USE DEF Flags, stateVars, bufferVars, targetVars, OperationVars, Close, Fails,
              ConnectedWithStub
  <1>1. ASSUME NEW t \in threads, ThreadStep(t) PROVE Flags'
    BY <1>1 DEF ThreadStep, SubscribeAnswered, Take, Capture, StreamEnds, ThreadEnds, ThreadVars,
       SetSubscribed
  <1>2. CASE Connect
    BY <1>2 DEF Connect, ConnectClose, ConnectReset, ConnectOpen, ConnectDone, ConnectFails,
       Discovered, DiscoverFails
  <1>3. CASE Operate
    BY <1>3 DEF Operate, Initialize, SendProgram, ReplaceStream, ReplaceReset, Shutdown
  <1>4. CASE \/ \E r \in Readers, limit \in PageSizes : Poll(r, limit)
             \/ \E f \in Digests \cup {NoFilter} : Clear(f)
             \/ UNCHANGED vars
    BY <1>4 DEF Poll, Clear, vars
  <1> QED
    BY <1>1, <1>2, <1>3, <1>4 DEF Next

LEMMA PlacesStep == Safe /\ Places /\ [Next]_vars => Places'
  <1> SUFFICES ASSUME Safe, Places, [Next]_vars PROVE Places'
    OBVIOUS
  <1> USE DEF Places, stateVars, bufferVars, targetVars, OperationVars, Fails
  <1>1. ASSUME NEW t \in threads, ThreadStep(t) PROVE Places'
    <2>1. UNCHANGED targetVars
      BY <1>1, ThreadEffects DEF ThreadVars
    <2>2. taken' = taken \/ taken' = taken + 1
      BY <1>1 DEF ThreadStep, SubscribeAnswered, Take, Capture, StreamEnds, ThreadEnds
    <2> QED
      BY <2>1, <2>2
  <1>2. CASE Connect
    BY <1>2 DEF Connect, ConnectClose, ConnectReset, ConnectOpen, ConnectDone, ConnectFails,
       Discovered, DiscoverFails, Safe, Steps
  <1>3. CASE Operate
    BY <1>3 DEF Operate, Initialize, SendProgram, ReplaceStream, ReplaceReset, Shutdown
  <1>4. CASE \/ \E r \in Readers, limit \in PageSizes : Poll(r, limit)
             \/ \E f \in Digests \cup {NoFilter} : Clear(f)
             \/ UNCHANGED vars
    BY <1>4 DEF Poll, Clear, vars
  <1> QED
    BY <1>1, <1>2, <1>3, <1>4 DEF Next

LEMMA EventsStep ==
  ASSUME Safe, Numbering, events \subseteq Event, [Next]_vars
  PROVE  events' \subseteq Event
  <1>1. CASE CaptureStep
    <2>1. PICK d \in Digests, p \in Programs :
            events' \subseteq events \cup
              {[seq |-> sequence + 1, digest |-> d, size |-> SizeOf[d], program |-> p]}
      BY <1>1 DEF CaptureStep
    <2>2. [seq |-> sequence + 1, digest |-> d, size |-> SizeOf[d], program |-> p] \in Event
      BY SizeOfAssumption DEF Event, Numbering
    <2> QED
      BY <2>1, <2>2
  <1>2. CASE ForgetStep
    BY <1>2 DEF ForgetStep
  <1>3. CASE PollStep
    BY <1>3 DEF PollStep, Poll, bufferVars
  <1>4. CASE UNCHANGED Numbers
    BY <1>4 DEF Numbers
  <1> QED
    BY <1>1, <1>2, <1>3, <1>4, StepKinds

(***************************************************************************)
(* The state of a client has the shape the code gives it, across           *)
(* reconnects: what it counts, the bytes it keeps included, never becomes  *)
(* negative, and its channel is of a generation or there is none.          *)
(***************************************************************************)
THEOREM TypeCorrect == Spec => []TypeOK
  <1>1. Init => Shapes
    <2>1. Init => Flags
      BY DEF Init, Flags
    <2>2. Init => Places
      BY DEF Init, Places
    <2> QED
      BY <2>1, <2>2 DEF Init, Shapes
  <1>2. Safe /\ Numbering /\ Shapes /\ [Next]_vars => Shapes'
    BY FlagsStep, PlacesStep, EventsStep DEF Shapes
  <1>3. Safe /\ Numbering /\ Counted /\ Shapes => TypeOK
    <2> SUFFICES ASSUME Safe, Numbering, Counted, Shapes PROVE TypeOK
      OBVIOUS
    <2>1. bytes \in Nat
      BY BytesNat DEF Counted, Accounted
    <2>2. {closed, subscribed, connected, sent} \subseteq BOOLEAN
      BY DEF Shapes, Flags
    <2>3. {generation, error, stream} \subseteq Nat /\ threads \subseteq ThreadStates
      BY DEF Safe, Generations
    <2>4. {device, helper, goal} \subseteq Programs \cup {NoProgram}
      BY DEF Safe, Steps, Shapes, Places
    <2> QED
      BY <2>1, <2>2, <2>3, <2>4 DEF TypeOK, Numbering, Counted, Shapes, Places
  <1> QED
    BY <1>1, <1>2, <1>3, ClientInvariant, NumberingInvariant, CountedInvariant, PTL DEF Spec
=============================================================================
