------------------------ MODULE DigestStream_proofs ------------------------
(***************************************************************************)
(* Proofs about DigestStream for any digests, lists, readers and limits:   *)
(* acknowledgement, shutdown and the explanation of a lost mastership, and *)
(* that a connection implements EventLog.                                  *)
(***************************************************************************)
EXTENDS DigestStream, EventBuffer_proofs

-----------------------------------------------------------------------------
(* The inductive invariant: what the consumer and shutdown() rely on ...    *)
Control ==
  /\ message \in Message
  /\ requests \in Seq({"arbitration", "end"} \cup Lists)
  /\ acked \subseteq Lists
  /\ closer # "none" => closed

(* ... and the order of the events, on which the cursors of readers rest.   *)
Numbering ==
  /\ sequence \in Nat
  /\ IsFiniteSet(events)
  /\ \A e \in events : e.seq \in Nat /\ e.seq <= sequence
  /\ reader \in [Readers -> [filter : Digests \cup {NoFilter}, cursor : Nat, seen : SUBSET Nat]]
  /\ \A r \in Readers : reader[r].cursor <= sequence

Safe == Control /\ AckedIsCaptured /\ EmptyOnceClosed /\ LossIsExplained

IInv == Safe /\ Numbering

-----------------------------------------------------------------------------
(* Requests leave in order, and what is appended joins what was there.      *)
LEMMA Queued ==
  ASSUME NEW T, NEW s \in Seq(T), NEW x \in T
  PROVE  /\ Append(s, x) \in Seq(T)
         /\ \A i \in DOMAIN Append(s, x) :
              (i \in DOMAIN s /\ Append(s, x)[i] = s[i]) \/ Append(s, x)[i] = x
  OBVIOUS

LEMMA Dequeued ==
  ASSUME NEW T, NEW s \in Seq(T), s # <<>>
  PROVE  /\ Tail(s) \in Seq(T)
         /\ Head(s) = s[1] /\ 1 \in DOMAIN s
         /\ \A i \in DOMAIN Tail(s) : i + 1 \in DOMAIN s /\ Tail(s)[i] = s[i + 1]
  OBVIOUS

(* Whatever joins the queue is a sentinel, an arbitration, or the ACK of a  *)
(* list that was captured.                                                  *)
Acks(q, C) == \A i \in DOMAIN q : q[i] \in Lists => q[i] \in C

LEMMA AppendAcks ==
  ASSUME NEW q \in Seq({"arbitration", "end"} \cup Lists), NEW C, Acks(q, C),
         NEW x \in {"arbitration", "end"} \cup Lists, x \in Lists => x \in C
  PROVE  Append(q, x) \in Seq({"arbitration", "end"} \cup Lists) /\ Acks(Append(q, x), C)
  <1>1. Append(q, x) \in Seq({"arbitration", "end"} \cup Lists)
    BY Queued
  <1>2. \A i \in DOMAIN Append(q, x) :
          (i \in DOMAIN q /\ Append(q, x)[i] = q[i]) \/ Append(q, x)[i] = x
    BY Queued
  <1> QED
    BY <1>1, <1>2 DEF Acks

LEMMA TailAcks ==
  ASSUME NEW q \in Seq({"arbitration", "end"} \cup Lists), q # <<>>, NEW C, Acks(q, C)
  PROVE  /\ Tail(q) \in Seq({"arbitration", "end"} \cup Lists) /\ Acks(Tail(q), C)
         /\ Head(q) \in Lists => Head(q) \in C
  <1>1. Tail(q) \in Seq({"arbitration", "end"} \cup Lists)
    BY Dequeued
  <1>2. \A i \in DOMAIN Tail(q) : i + 1 \in DOMAIN q /\ Tail(q)[i] = q[i + 1]
    BY Dequeued
  <1>3. Head(q) = q[1] /\ 1 \in DOMAIN q
    BY Dequeued
  <1> QED
    BY <1>1, <1>2, <1>3 DEF Acks

LEMMA MessageShape ==
  ASSUME message \in Message
  PROVE  /\ message.kind = "arbitration" => message.ok \in BOOLEAN
         /\ message.kind = "digest" => message.list \in Lists
         /\ message.kind = "error" => message.auth \in BOOLEAN
  BY DEF Message

LEMMA SendableShape ==
  ASSUME NEW m \in Sendable
  PROVE  m \in Message
  BY DEF Sendable, Message

-----------------------------------------------------------------------------
(* Acknowledgement, shutdown and mastership, one action at a time.          *)
LEMMA SafeStep == Safe /\ [Next]_vars => Safe'
  <1> SUFFICES ASSUME Safe, [Next]_vars PROVE Safe'
    OBVIOUS
  <1> USE DEF flagVars, captureVars, threadVars, auxVars
  <1>a. Acks(requests, captured)
    BY DEF Safe, AckedIsCaptured, Acks
  <1>1. CASE Transmit
    <2>1. requests \in Seq({"arbitration", "end"} \cup Lists) /\ requests # <<>>
      BY <1>1 DEF Transmit, Safe, Control
    <2>2. /\ requests' \in Seq({"arbitration", "end"} \cup Lists) /\ Acks(requests', captured)
          /\ Head(requests) \in Lists => Head(requests) \in captured
      BY <1>1, <1>a, <2>1, TailAcks DEF Transmit
    <2>3. acked' \subseteq Lists /\ acked' \subseteq captured'
      BY <1>1, <2>2 DEF Transmit, Safe, Control, AckedIsCaptured
    <2> QED
      BY <1>1, <2>2, <2>3 DEF Transmit, Safe, Control, AckedIsCaptured, EmptyOnceClosed,
         LossIsExplained, Acks
  <1>2. ASSUME NEW m \in Sendable, Receive(m) PROVE Safe'
    BY <1>2, SendableShape DEF Receive, Safe, Control, AckedIsCaptured, EmptyOnceClosed, LossIsExplained
  <1>3. ASSUME NEW raised \in BOOLEAN, StreamEnds(raised) PROVE Safe'
    BY <1>3 DEF StreamEnds, Safe, Control, AckedIsCaptured, EmptyOnceClosed, LossIsExplained
  <1>4. CASE HandleArbitration
    BY <1>4, MessageShape
       DEF HandleArbitration, Safe, Control, AckedIsCaptured, EmptyOnceClosed, LossIsExplained
  <1>5. CASE Announce
    <2>1. message' \in Message
      BY <1>5 DEF Announce, Silence, Message
    <2> QED
      BY <1>5, <2>1 DEF Announce, Safe, Control, AckedIsCaptured, EmptyOnceClosed, LossIsExplained
  <1>6. CASE HandleError
    <2>1. message' \in Message
      BY <1>6 DEF HandleError, Silence, Message
    <2> QED
      BY <1>6, <2>1 DEF HandleError, Safe, Control, AckedIsCaptured, EmptyOnceClosed, LossIsExplained
  <1>7. CASE ConsumerStops
    BY <1>7 DEF ConsumerStops, Safe, Control, AckedIsCaptured, EmptyOnceClosed, LossIsExplained
  <1>8. CASE HandleDigest
    <2>1. message' \in Message /\ message.list \in Lists
      BY <1>8, MessageShape DEF HandleDigest, Silence, Message, Safe, Control
    <2>2. CASE closed
      BY <1>8, <2>1, <2>2
         DEF HandleDigest, IsOpen, Safe, Control, AckedIsCaptured, EmptyOnceClosed, LossIsExplained
    <2>3. CASE ~closed /\ Refuse(message.list)
      BY <1>8, <2>1, <2>3
         DEF HandleDigest, Refuse, Safe, Control, AckedIsCaptured, EmptyOnceClosed, LossIsExplained
    <2>4. CASE ~closed /\ Capture(message.list)
      <3>1. captured' = captured \cup {message.list}
        BY <2>4 DEF Capture
      <3>2. Acks(requests, captured')
        BY <1>a, <3>1 DEF Acks
      <3>3. requests' = requests \/ requests' = Append(requests, message.list)
        BY <2>4 DEF Capture
      <3>4. requests' \in Seq({"arbitration", "end"} \cup Lists) /\ Acks(requests', captured')
        BY <2>1, <3>1, <3>2, <3>3, AppendAcks DEF Safe, Control
      <3>5. Control'
        BY <1>8, <2>1, <3>4 DEF HandleDigest, Safe, Control
      <3>6. AckedIsCaptured'
        BY <1>8, <3>1, <3>4 DEF HandleDigest, Safe, AckedIsCaptured, Acks
      <3>7. EmptyOnceClosed'
        BY <1>8, <2>4 DEF HandleDigest, Safe, Control, EmptyOnceClosed
      <3>8. LossIsExplained'
        BY <1>8, <2>4 DEF HandleDigest, Capture, Safe, LossIsExplained
      <3> QED
        BY <3>5, <3>6, <3>7, <3>8 DEF Safe
    <2> QED
      BY <1>8, <2>2, <2>3, <2>4 DEF HandleDigest, IsOpen
  <1>9. ASSUME NEW r \in Readers, NEW limit \in PageSizes, Poll(r, limit) PROVE Safe'
    BY <1>9 DEF Poll, Safe, Control, AckedIsCaptured, EmptyOnceClosed, LossIsExplained
  <1>10. ASSUME NEW f \in Digests \cup {NoFilter}, Clear(f) PROVE Safe'
    BY <1>10 DEF Clear, ClearEvents, Safe, Control, AckedIsCaptured, EmptyOnceClosed, LossIsExplained
  <1>11. CASE ArbitrationBegin
    BY <1>11 DEF ArbitrationBegin, ArbitrationVars, Safe, Control, AckedIsCaptured, EmptyOnceClosed,
       LossIsExplained
  <1>12. CASE ArbitrationSend
    <2>1. requests' = requests \/ requests' = Append(requests, "arbitration")
      BY <1>12 DEF ArbitrationSend
    <2>2. "arbitration" \notin Lists
      BY ListsAssumption
    <2>3. requests' \in Seq({"arbitration", "end"} \cup Lists) /\ Acks(requests', captured)
      BY <1>a, <2>1, <2>2, AppendAcks DEF Safe, Control
    <2> QED
      BY <1>12, <2>3 DEF ArbitrationSend, ArbitrationVars, Safe, Control, AckedIsCaptured,
         EmptyOnceClosed, LossIsExplained, Acks
  <1>13. CASE ArbitrationAnswer
    BY <1>13 DEF ArbitrationAnswer, ArbitrationVars, Safe, Control, AckedIsCaptured,
       EmptyOnceClosed, LossIsExplained
  <1>14. CASE ArbitrationEmpty
    BY <1>14 DEF ArbitrationEmpty, ArbitrationVars, Safe, Control, AckedIsCaptured,
       EmptyOnceClosed, LossIsExplained
  <1>15. CASE ArbitrationCheck
    BY <1>15 DEF ArbitrationCheck, ArbitrationVars, Safe, Control, AckedIsCaptured,
       EmptyOnceClosed, LossIsExplained
  <1>16. CASE ArbitrationTimeout
    BY <1>16 DEF ArbitrationTimeout, ArbitrationVars, Safe, Control, AckedIsCaptured,
       EmptyOnceClosed, LossIsExplained
  <1>17. CASE ShutdownBegin
    BY <1>17 DEF ShutdownBegin, ShutdownVars, Safe, Control, AckedIsCaptured, EmptyOnceClosed,
       LossIsExplained
  <1>18. CASE ShutdownQueue
    <2> DEFINE rest == IF Len(requests) < SendCap THEN requests ELSE Tail(requests)
    <2>1. rest \in Seq({"arbitration", "end"} \cup Lists) /\ Acks(rest, captured)
      <3>1. CASE Len(requests) < SendCap
        BY <1>a, <3>1 DEF Safe, Control
      <3>2. CASE ~(Len(requests) < SendCap)
        <4>1. requests \in Seq({"arbitration", "end"} \cup Lists) /\ requests # <<>>
          BY <3>2, LimitsAssumption DEF Safe, Control
        <4> QED
          BY <1>a, <3>2, <4>1, TailAcks
      <3> QED
        BY <3>1, <3>2
    <2>2. "end" \notin Lists
      BY ListsAssumption
    <2>3. requests' = Append(rest, "end")
      BY <1>18 DEF ShutdownQueue
    <2> HIDE DEF rest
    <2>4. requests' \in Seq({"arbitration", "end"} \cup Lists) /\ Acks(requests', captured)
      BY <2>1, <2>2, <2>3, AppendAcks
    <2> QED
      BY <1>18, <2>4 DEF ShutdownQueue, ShutdownVars, Safe, Control, AckedIsCaptured,
         EmptyOnceClosed, LossIsExplained, Acks
  <1>19. CASE ShutdownCancel
    BY <1>19 DEF ShutdownCancel, ShutdownVars, Safe, Control, AckedIsCaptured, EmptyOnceClosed,
       LossIsExplained
  <1>20. CASE ShutdownEnd
    <2>1. events' = {}
      BY <1>20 DEF ShutdownEnd, ClearEvents, Matches
    <2>2. closed
      BY <1>20 DEF ShutdownEnd, Safe, Control
    <2> QED
      BY <1>20, <2>1, <2>2 DEF ShutdownEnd, ShutdownVars, Safe, Control, AckedIsCaptured,
         EmptyOnceClosed, LossIsExplained
  <1>21. CASE UNCHANGED vars
    BY <1>21 DEF vars, Safe, Control, AckedIsCaptured, EmptyOnceClosed, LossIsExplained
  <1> QED
    BY <1>1, <1>2, <1>3, <1>4, <1>5, <1>6, <1>7, <1>8, <1>9, <1>10, <1>11, <1>12, <1>13, <1>14,
       <1>15, <1>16, <1>17, <1>18, <1>19, <1>20, <1>21 DEF Next, Consume, Arbitrate, Shutdown

-----------------------------------------------------------------------------
(* What the events and the readers can go through in a step.                *)
Numbers == <<events, sequence, reader>>

CaptureStep == \E l \in Lists :
  /\ sequence' = sequence + 1
  /\ events' \subseteq events \cup
       {[seq |-> sequence + 1, digest |-> DigestOf[l], size |-> SizeOf[l]]}
  /\ reader' = reader

ForgetStep == events' \subseteq events /\ UNCHANGED <<sequence, reader>>

PollStep == \E r \in Readers, limit \in PageSizes : Poll(r, limit)

LEMMA StepKinds ==
  Safe /\ [Next]_vars => CaptureStep \/ ForgetStep \/ PollStep \/ UNCHANGED Numbers
  <1> SUFFICES ASSUME Safe, [Next]_vars
               PROVE  CaptureStep \/ ForgetStep \/ PollStep \/ UNCHANGED Numbers
    OBVIOUS
  <1> USE DEF flagVars, captureVars, threadVars, auxVars, Numbers
  <1>1. CASE HandleDigest
    <2>1. message.list \in Lists
      BY <1>1, MessageShape DEF HandleDigest, Safe, Control
    <2>2. CASE closed \/ (~closed /\ Refuse(message.list))
      BY <1>1, <2>2 DEF HandleDigest, IsOpen, Refuse
    <2>3. CASE ~closed /\ Capture(message.list)
      BY <1>1, <2>1, <2>3 DEF HandleDigest, Capture, CaptureStep
    <2> QED
      BY <1>1, <2>2, <2>3 DEF HandleDigest, IsOpen
  <1>2. CASE \E f \in Digests \cup {NoFilter} : Clear(f)
    BY <1>2 DEF Clear, ClearEvents, ForgetStep
  <1>3. CASE ShutdownEnd
    BY <1>3 DEF ShutdownEnd, ClearEvents, ShutdownVars, ForgetStep
  <1>4. CASE Transmit \/ ArbitrationBegin \/ Arbitrate \/ ArbitrationTimeout
    BY <1>4 DEF Transmit, ArbitrationBegin, Arbitrate, ArbitrationTimeout, ArbitrationVars,
       ArbitrationSend, ArbitrationAnswer, ArbitrationEmpty, ArbitrationCheck
  <1>5. CASE \/ \E m \in Sendable : Receive(m)
             \/ \E raised \in BOOLEAN : StreamEnds(raised)
             \/ HandleArbitration \/ Announce \/ HandleError \/ ConsumerStops
    BY <1>5 DEF Receive, StreamEnds, HandleArbitration, Announce, HandleError, ConsumerStops
  <1>6. CASE ShutdownBegin \/ ShutdownQueue \/ ShutdownCancel
    BY <1>6 DEF ShutdownBegin, ShutdownQueue, ShutdownCancel, ShutdownVars
  <1>7. CASE UNCHANGED vars
    BY <1>7 DEF vars
  <1> QED
    BY <1>1, <1>2, <1>3, <1>4, <1>5, <1>6, <1>7 DEF Next, Consume, Shutdown, PollStep

(* The record a reader is left with.                                        *)
LEMMA PollReader ==
  ASSUME Numbering, NEW r \in Readers, NEW limit \in PageSizes, Poll(r, limit)
  PROVE  LET c == NextCursor(events, sequence, reader[r].filter, reader[r].cursor, limit)
             given == {e.seq : e \in {x \in Pending(events, reader[r].filter, reader[r].cursor) : x.seq <= c}}
         IN /\ c \in reader[r].cursor..sequence /\ c \in Nat
            /\ UNCHANGED <<events, sequence>>
            /\ given \subseteq Nat
            /\ reader' = [reader EXCEPT ![r].cursor = c, ![r].seen = @ \cup given]
  <1> DEFINE f == reader[r].filter
             a == reader[r].cursor
             c == NextCursor(events, sequence, f, a, limit)
             given == {e.seq : e \in {x \in Pending(events, f, a) : x.seq <= c}}
  <1>1. a \in Nat /\ a <= sequence
    BY DEF Numbering
  <1>2. c \in a..sequence /\ Page(events, f, a, limit) = {x \in Pending(events, f, a) : x.seq <= c}
    <2>1. /\ IsFiniteSet(events) /\ sequence \in Nat /\ limit \in Nat \ {0}
          /\ \A e \in events : e.seq \in Nat /\ e.seq <= sequence
      BY PagesAssumption DEF Numbering
    <2>2. a \in Nat /\ a <= sequence
      BY <1>1
    <2> HIDE DEF f, a
    <2>3. /\ NextCursor(events, sequence, f, a, limit) \in a..sequence
          /\ Page(events, f, a, limit) \subseteq Pending(events, f, a)
          /\ \A e \in Pending(events, f, a) :
               e \in Page(events, f, a, limit) <=> e.seq <= NextCursor(events, sequence, f, a, limit)
      BY <2>1, <2>2, PageIsPrefix
    <2> QED
      BY <2>3
  <1>3. reader' = [reader EXCEPT ![r].cursor = c,
                                 ![r].seen = @ \cup {e.seq : e \in Page(events, f, a, limit)}]
    BY DEF Poll
  <1>4. reader' = [reader EXCEPT ![r].cursor = c, ![r].seen = @ \cup given]
    BY <1>2, <1>3
  <1>5. UNCHANGED <<events, sequence>>
    BY DEF Poll, captureVars
  <1>6. given \subseteq Nat
    BY DEF Pending, Numbering
  <1>7. sequence \in Nat
    BY DEF Numbering
  <1> QED
    BY <1>1, <1>2, <1>4, <1>5, <1>6, <1>7

LEMMA NumberingStep == Safe /\ Numbering /\ [Next]_vars => Numbering'
  <1> SUFFICES ASSUME Safe, Numbering, [Next]_vars PROVE Numbering'
    OBVIOUS
  <1>1. CASE CaptureStep
    <2>1. PICK l \in Lists :
            events' \subseteq events \cup
              {[seq |-> sequence + 1, digest |-> DigestOf[l], size |-> SizeOf[l]]}
      BY <1>1 DEF CaptureStep
    <2> DEFINE new == [seq |-> sequence + 1, digest |-> DigestOf[l], size |-> SizeOf[l]]
    <2>2. \A e \in events' : e \in events \/ e.seq = sequence + 1
      BY <2>1
    <2>3. IsFiniteSet(events \cup {new})
      <3> HIDE DEF new
      <3> QED
        BY FS_AddElement DEF Numbering
    <2>4. IsFiniteSet(events')
      BY <2>1, <2>3, FS_Subset
    <2>5. sequence' = sequence + 1 /\ reader' = reader
      BY <1>1 DEF CaptureStep
    <2>6. \A r \in Readers : reader[r].cursor \in Nat
      BY DEF Numbering
    <2> QED
      BY <2>2, <2>4, <2>5, <2>6 DEF Numbering
  <1>2. CASE ForgetStep
    BY <1>2, FS_Subset DEF ForgetStep, Numbering
  <1>3. CASE PollStep
    <2>1. PICK r \in Readers, limit \in PageSizes : Poll(r, limit)
      BY <1>3 DEF PollStep
    <2> DEFINE c == NextCursor(events, sequence, reader[r].filter, reader[r].cursor, limit)
               given == {e.seq : e \in {x \in Pending(events, reader[r].filter, reader[r].cursor) : x.seq <= c}}
               Reader == [filter : Digests \cup {NoFilter}, cursor : Nat, seen : SUBSET Nat]
    <2>2. /\ c \in Nat /\ c <= sequence /\ given \subseteq Nat
          /\ UNCHANGED <<events, sequence>>
          /\ reader' = [reader EXCEPT ![r].cursor = c, ![r].seen = @ \cup given]
      BY <2>1, PollReader DEF Numbering
    <2> HIDE DEF c, given
    <2>3. reader[r] \in Reader /\ reader \in [Readers -> Reader]
      BY DEF Numbering
    <2>4. reader' \in [Readers -> Reader] /\ reader'[r].cursor = c
      <3>1. reader' = [reader EXCEPT ![r] = [@ EXCEPT !.cursor = c, !.seen = reader[r].seen \cup given]]
        BY <2>2, <2>3
      <3>2. [reader[r] EXCEPT !.cursor = c, !.seen = reader[r].seen \cup given] \in Reader
        BY <2>2, <2>3
      <3> QED
        BY <2>3, <3>1, <3>2
    <2>5. \A q \in Readers : reader'[q].cursor <= sequence
      BY <2>2 DEF Numbering
    <2> QED
      BY <2>2, <2>4, <2>5 DEF Numbering
  <1>4. CASE UNCHANGED Numbers
    BY <1>4 DEF Numbers, Numbering
  <1> QED
    BY <1>1, <1>2, <1>3, <1>4, StepKinds

(***************************************************************************)
(* IInv is an invariant of the connection.                                 *)
(***************************************************************************)
THEOREM ConnectionInvariant == Spec => []IInv
  <1>1. Init => IInv
    BY FS_EmptySet DEF Init, IInv, Safe, Control, Numbering, AckedIsCaptured, EmptyOnceClosed,
       LossIsExplained, Message, Silence
  <1>2. IInv /\ [Next]_vars => IInv'
    BY SafeStep, NumberingStep DEF IInv
  <1> QED
    BY <1>1, <1>2, PTL DEF Spec

(***************************************************************************)
(* No ACK, queued or sent, is for a list that was not captured in full.    *)
(***************************************************************************)
THEOREM NoAckWithoutCapture == Spec => []AckedIsCaptured
  <1>1. IInv => AckedIsCaptured
    BY DEF IInv, Safe
  <1> QED
    BY <1>1, ConnectionInvariant, PTL

(***************************************************************************)
(* A closed connection keeps no event, even when join() timed out.         *)
(***************************************************************************)
THEOREM ClosedKeepsNothing == Spec => []EmptyOnceClosed
  <1>1. IInv => EmptyOnceClosed
    BY DEF IInv, Safe
  <1> QED
    BY <1>1, ConnectionInvariant, PTL

(***************************************************************************)
(* An open connection that lost mastership tells why.                      *)
(***************************************************************************)
THEOREM LostMastershipExplained == Spec => []LossIsExplained
  <1>1. IInv => LossIsExplained
    BY DEF IInv, Safe
  <1> QED
    BY <1>1, ConnectionInvariant, PTL

-----------------------------------------------------------------------------
(* A connection implements EventLog.  A capture is an arrival; a clear and  *)
(* the end of shutdown() forget; a poll is a read up to the cursor that     *)
(* PageIsPrefix gives; every other step leaves the log alone.               *)
Logged == {[seq |-> e.seq, digest |-> e.digest] : e \in events}

LEMMA LogInit == Init => Log!Init
  BY DEF Init, Log!Init

LEMMA LogArrives == Numbering /\ CaptureStep => \E d \in Digests : Log!Arrive(d)
  <1> SUFFICES ASSUME CaptureStep PROVE \E d \in Digests : Log!Arrive(d)
    OBVIOUS
  <1>1. PICK l \in Lists :
          /\ sequence' = sequence + 1 /\ reader' = reader
          /\ events' \subseteq events \cup
               {[seq |-> sequence + 1, digest |-> DigestOf[l], size |-> SizeOf[l]]}
    BY DEF CaptureStep
  <1>2. DigestOf[l] \in Digests
    BY DigestOfAssumption
  <1>3. Logged' \subseteq Logged \cup {[seq |-> sequence + 1, digest |-> DigestOf[l]]}
    <2> SUFFICES ASSUME NEW e \in events'
                 PROVE  [seq |-> e.seq, digest |-> e.digest] \in
                          Logged \cup {[seq |-> sequence + 1, digest |-> DigestOf[l]]}
      BY DEF Logged
    <2>1. CASE e \in events
      BY <2>1 DEF Logged
    <2>2. CASE e = [seq |-> sequence + 1, digest |-> DigestOf[l], size |-> SizeOf[l]]
      BY <2>2
    <2> QED
      BY <1>1, <2>1, <2>2
  <1>4. Log!Arrive(DigestOf[l])
    BY <1>1, <1>3 DEF Log!Arrive, Logged
  <1> QED
    BY <1>2, <1>4

LEMMA LogForgets == ForgetStep => Log!Forget
  BY DEF ForgetStep, Log!Forget

LEMMA LogReads == Numbering /\ PollStep => Log!Next
  <1> SUFFICES ASSUME Numbering, PollStep PROVE Log!Next
    OBVIOUS
  <1>1. PICK r \in Readers, limit \in PageSizes : Poll(r, limit)
    BY DEF PollStep
  <1> DEFINE f == reader[r].filter
             a == reader[r].cursor
             c == NextCursor(events, sequence, f, a, limit)
             given == {e.seq : e \in {x \in Pending(events, f, a) : x.seq <= c}}
             read  == {e.seq : e \in {x \in Log!Pending(r) : x.seq <= c}}
  <1>2. /\ c \in a..sequence /\ UNCHANGED <<events, sequence>>
        /\ reader' = [reader EXCEPT ![r].cursor = c, ![r].seen = @ \cup given]
    BY <1>1, PollReader
  <1>3. read = given
    <2>1. ASSUME NEW n \in given PROVE n \in read
      <3>1. PICK e \in events : e.seq = n /\ e.seq > a /\ Matches(e, f) /\ e.seq <= c
        BY <2>1 DEF Pending
      <3> DEFINE x == [seq |-> e.seq, digest |-> e.digest]
      <3>2. x \in Log!Pending(r)
        BY <3>1 DEF Log!Pending, Log!Matches, Matches
      <3> QED
        BY <3>1, <3>2
    <2>2. ASSUME NEW n \in read PROVE n \in given
      <3>1. PICK x \in Log!Pending(r) : x.seq = n /\ x.seq <= c
        OBVIOUS
      <3>2. PICK e \in events : x = [seq |-> e.seq, digest |-> e.digest]
        BY <3>1 DEF Log!Pending
      <3>3. e \in Pending(events, f, a) /\ e.seq = n /\ e.seq <= c
        BY <3>1, <3>2 DEF Log!Pending, Log!Matches, Matches, Pending
      <3> QED
        BY <3>3
    <2> HIDE DEF given, read
    <2> QED
      BY <2>1, <2>2
  <1> HIDE DEF c, given, read
  <1>4. reader' = [reader EXCEPT ![r].cursor = c, ![r].seen = @ \cup read]
    BY <1>2, <1>3
  <1>5. Log!Read(r, c)
    BY <1>2, <1>4 DEF Log!Read, read
  <1> QED
    BY <1>2, <1>5 DEF Log!Next

LEMMA LogSteps == Safe /\ Numbering /\ [Next]_vars => [Log!Next]_(Log!vars)
  <1>1. UNCHANGED Numbers => UNCHANGED Log!vars
    BY DEF Numbers, Log!vars
  <1> QED
    BY <1>1, StepKinds, LogArrives, LogForgets, LogReads DEF Log!Next

(***************************************************************************)
(* A connection implements EventLog, whatever the sizes, limits, page      *)
(* sizes and the order of captures, evictions, clears and polls.           *)
(***************************************************************************)
THEOREM ConnectionIsEventLog == Spec => IsEventLog
  <1>1. IInv /\ [Next]_vars => [Log!Next]_(Log!vars)
    BY LogSteps DEF IInv
  <1> QED
    BY <1>1, LogInit, ConnectionInvariant, PTL DEF Spec, IsEventLog, Log!Spec

-----------------------------------------------------------------------------
(* What EventLog promises, of the events of a connection: no number beyond  *)
(* `sequence` is kept, and no reader was given, or told to continue from,   *)
(* anything newer than its cursor.                                          *)
LogReader == [filter : Digests \cup {NoFilter}, cursor : Nat, seen : SUBSET Nat]

LogInv ==
  /\ sequence \in Nat
  /\ \A e \in Logged : e.seq \in Nat /\ e.seq <= sequence
  /\ reader \in [Readers -> LogReader]
  /\ \A r \in Readers : /\ reader[r].cursor <= sequence
                        /\ \A n \in reader[r].seen : n <= reader[r].cursor
  /\ \A r \in Readers : \A e \in Logged :
       Log!Matches(e, reader[r].filter) =>
         (e.seq \in reader[r].seen <=> e.seq <= reader[r].cursor)

\* The record update of Read.
LEMMA LogReadReader ==
  ASSUME LogInv, NEW r \in Readers, NEW c \in reader[r].cursor..sequence, Log!Read(r, c)
  PROVE  /\ c \in Nat /\ c <= sequence /\ reader[r].cursor <= c
         /\ reader' \in [Readers -> LogReader]
         /\ \A q \in Readers \ {r} : reader'[q] = reader[q]
         /\ reader'[r].filter = reader[r].filter
         /\ reader'[r].cursor = c
         /\ reader'[r].seen = reader[r].seen \cup {e.seq : e \in {x \in Log!Pending(r) : x.seq <= c}}
  <1> DEFINE given == {e.seq : e \in {x \in Log!Pending(r) : x.seq <= c}}
             y     == [reader[r] EXCEPT !.cursor = c, !.seen = reader[r].seen \cup given]
  <1>1. reader[r] \in LogReader /\ reader \in [Readers -> LogReader]
    BY DEF LogInv
  <1>2. c \in Nat /\ c <= sequence /\ reader[r].cursor <= c
    BY <1>1 DEF LogInv, LogReader
  <1>3. given \subseteq Nat
    BY DEF Log!Pending, LogInv, Logged
  <1>4. reader' = [reader EXCEPT ![r] = y]
    BY <1>1 DEF Log!Read
  <1> HIDE DEF given
  <1>5. y \in LogReader
    BY <1>1, <1>2, <1>3 DEF LogReader
  <1>6. reader'[r] = y
    BY <1>1, <1>4
  <1>7. reader' \in [Readers -> LogReader] /\ \A q \in Readers \ {r} : reader'[q] = reader[q]
    BY <1>1, <1>4, <1>5
  <1>8. y.filter = reader[r].filter /\ y.cursor = c /\ y.seen = reader[r].seen \cup given
    BY <1>1 DEF LogReader
  <1> HIDE DEF y
  <1> QED
    BY <1>2, <1>6, <1>7, <1>8 DEF given

LEMMA LogKeeps == LogInv /\ [Log!Next]_(Log!vars) => LogInv'
  <1> SUFFICES ASSUME LogInv, [Log!Next]_(Log!vars) PROVE LogInv'
    OBVIOUS
  <1>1. ASSUME NEW d \in Digests, Log!Arrive(d) PROVE LogInv'
    <2>1. \A e \in Logged' : e \in Logged \/ e.seq = sequence + 1
      BY <1>1 DEF Log!Arrive, Logged
    <2>2. reader' = reader /\ sequence' = sequence + 1
      BY <1>1 DEF Log!Arrive
    <2>3. \A r \in Readers : reader[r].cursor \in Nat /\ reader[r].seen \subseteq Nat
      BY DEF LogInv, LogReader
    <2>4. \A r \in Readers : sequence + 1 \notin reader[r].seen
      BY <2>3 DEF LogInv
    <2> QED
      BY <2>1, <2>2, <2>3, <2>4 DEF LogInv, Log!Matches
  <1>2. CASE Log!Forget
    <2>1. Logged' \subseteq Logged /\ sequence' = sequence /\ reader' = reader
      BY <1>2 DEF Log!Forget, Logged
    <2> QED
      BY <2>1 DEF LogInv, Log!Matches
  <1>3. ASSUME NEW r \in Readers, NEW c \in reader[r].cursor..sequence, Log!Read(r, c) PROVE LogInv'
    <2>1. Logged' = Logged /\ sequence' = sequence
      BY <1>3 DEF Log!Read, Logged
    <2>2. reader[r].cursor \in Nat
      BY DEF LogInv, LogReader
    <2>3. \A n \in reader'[r].seen : n <= c
      <3>1. \A x \in Log!Pending(r) : x.seq <= c => x.seq \in Nat
        BY DEF Log!Pending, LogInv, Logged
      <3>2. reader[r].seen \subseteq Nat
        BY DEF LogInv, LogReader
      <3> QED
        BY <1>3, <2>2, <3>1, <3>2, LogReadReader DEF LogInv
    <2>4. \A e \in Logged :
            Log!Matches(e, reader[r].filter) => (e.seq \in reader'[r].seen <=> e.seq <= c)
      <3> SUFFICES ASSUME NEW e \in Logged, Log!Matches(e, reader[r].filter)
                   PROVE  e.seq \in reader'[r].seen <=> e.seq <= c
        OBVIOUS
      <3>1. CASE e.seq <= reader[r].cursor
        <4>1. e.seq \in reader[r].seen /\ e.seq <= c
          BY <1>3, <2>2, <3>1, LogReadReader DEF LogInv
        <4> QED
          BY <1>3, <4>1, LogReadReader
      <3>2. CASE e.seq > reader[r].cursor
        <4>1. e \in Log!Pending(r)
          BY <3>2 DEF Log!Pending, Logged
        <4> QED
          BY <1>3, <2>2, <2>3, <4>1, LogReadReader
      <3> QED
        BY <2>2, <3>1, <3>2 DEF LogInv
    <2> QED
      BY <1>3, <2>1, <2>3, <2>4, LogReadReader DEF LogInv
  <1>4. CASE UNCHANGED Log!vars
    <2>1. Logged' = Logged /\ sequence' = sequence /\ reader' = reader
      BY <1>4 DEF Log!vars, Logged
    <2> QED
      BY <2>1 DEF LogInv, Log!Matches
  <1> QED
    BY <1>1, <1>2, <1>3, <1>4 DEF Log!Next

(***************************************************************************)
(* What follows EventLog serves its readers exactly: pages follow one      *)
(* another without a gap and without a repetition.                         *)
(***************************************************************************)
THEOREM LogReadersMissNothing == Log!Spec => []Log!ReadersMissNothing
  <1>1. Log!Init => LogInv
    BY DEF Log!Init, LogInv, LogReader, Logged
  <1>2. LogInv => Log!ReadersMissNothing
    BY DEF LogInv, Log!ReadersMissNothing, Logged
  <1> QED
    BY <1>1, <1>2, LogKeeps, PTL DEF Log!Spec

(***************************************************************************)
(* So the readers of a connection are served exactly, as EventLog promises.*)
(***************************************************************************)
THEOREM ConnectionReadersMissNothing == Spec => []ReadersMissNothing
  <1>1. Log!ReadersMissNothing <=> ReadersMissNothing
    BY DEF ReadersMissNothing
  <1> QED
    BY <1>1, ConnectionIsEventLog, LogReadersMissNothing, PTL DEF IsEventLog

-----------------------------------------------------------------------------
(* The accounts of the buffer.  Eviction goes by `bytes`, so it makes room  *)
(* only if `bytes` is the sum of the sizes kept, and that sum is one of     *)
(* naturals; a list is counted once, where it is refused, evicted, cleared  *)
(* or still kept.                                                           *)
Counted ==
  /\ Accounted
  /\ Sized(events)
  /\ {dropped, cleared, received} \subseteq Nat

Accounts == <<events, bytes, dropped, cleared, received>>

LEMMA RefuseCounted ==
  ASSUME Counted, NEW l, Refuse(l), received' = received + 1, cleared' = cleared
  PROVE  Counted'
  <1>1. /\ events' = events /\ bytes' = bytes /\ dropped' = dropped + 1
    BY DEF Refuse
  <1>2. Cardinality(events) \in Nat
    BY FS_CardinalityType DEF Counted, Sized
  <1>3. Sized(events')
    BY <1>1 DEF Counted
  <1>4. Accounted'
    BY <1>1, <1>2 DEF Counted, Accounted
  <1> QED
    BY <1>1, <1>3, <1>4 DEF Counted

LEMMA CaptureCounted ==
  ASSUME Numbering, Counted, NEW l \in Lists, SizeOf[l] <= MaxListBytes, Capture(l),
         received' = received + 1, cleared' = cleared
  PROVE  Counted'
  <1> DEFINE new == [seq |-> sequence + 1, digest |-> DigestOf[l], size |-> SizeOf[l]]
             old == Evicted(events, bytes, SizeOf[l])
  <1>1. /\ events' = (events \ old) \cup {new} /\ bytes' = bytes - Bytes(old) + SizeOf[l]
        /\ dropped' = dropped + Cardinality(old)
    BY DEF Capture
  <1>2. /\ new \notin events /\ new.size = SizeOf[l] /\ new.size \in Nat /\ new.size <= MaxBytes
        /\ \A e \in events : e.seq \in Nat
    BY SizeOfAssumption, LimitsAssumption, BufferAssumption DEF Numbering
  <1>3. Sized(events) /\ bytes = Bytes(events)
    BY DEF Counted, Accounted
  <1>4. old = Evicted(events, Bytes(events), new.size)
    BY <1>2, <1>3
  <1> HIDE DEF new, old
  <1>5. /\ Sized(events') /\ Bytes(events') = bytes' /\ bytes' <= MaxBytes
        /\ Cardinality(events') <= MaxEvents
        /\ Cardinality(events') + Cardinality(old) = Cardinality(events) + 1
        /\ Cardinality(old) \in Nat
    BY <1>1, <1>2, <1>3, <1>4, CaptureAccounts
  <1>6. Cardinality(events') \in Nat /\ Cardinality(events) \in Nat
    BY <1>3, <1>5, FS_CardinalityType DEF Sized
  <1>7. received' = Cardinality(events') + dropped' + cleared'
    BY <1>1, <1>5, <1>6 DEF Counted, Accounted
  <1>8. {dropped', cleared', received'} \subseteq Nat
    BY <1>1, <1>5 DEF Counted
  <1> QED
    BY <1>5, <1>7, <1>8 DEF Counted, Accounted

LEMMA ClearCounted ==
  ASSUME Counted, NEW f, ClearEvents(f), UNCHANGED <<dropped, received>>
  PROVE  Counted'
  <1> DEFINE left == {e \in events : ~Matches(e, f)}
  <1>1. /\ left \in SUBSET events /\ events' = left /\ bytes' = Bytes(left)
        /\ cleared' = cleared + Cardinality(events \ left)
    BY DEF ClearEvents, BytesLeft
  <1> HIDE DEF left
  <1>2. /\ Sized(left) /\ Bytes(left) \in Nat /\ Bytes(left) <= Bytes(events)
        /\ Cardinality(left) + Cardinality(events \ left) = Cardinality(events)
        /\ Cardinality(left) <= Cardinality(events)
        /\ {Cardinality(left), Cardinality(events \ left), Cardinality(events)} \subseteq Nat
    BY <1>1, ClearAccounts DEF Counted
  <1>3. Bytes(left) <= MaxBytes
    BY <1>2, BytesNat, BufferAssumption DEF Counted, Accounted
  <1>4. Cardinality(left) <= MaxEvents
    BY <1>2, BufferAssumption DEF Counted, Accounted
  <1>5. Accounted'
    BY <1>1, <1>2, <1>3, <1>4 DEF Counted, Accounted
  <1> QED
    BY <1>1, <1>2, <1>5 DEF Counted

LEMMA CountedStep == IInv /\ Counted /\ [Next]_vars => Counted'
  <1> SUFFICES ASSUME IInv, Counted, [Next]_vars PROVE Counted'
    OBVIOUS
  <1> USE DEF flagVars, captureVars, threadVars, auxVars
  <1>1. CASE HandleDigest
    <2> DEFINE l == message.list
    <2>1. l \in Lists
      BY <1>1, MessageShape DEF HandleDigest, IInv, Safe, Control
    <2>2. CASE closed
      BY <1>1, <2>2 DEF HandleDigest, IsOpen, Counted, Accounted
    <2>3. CASE ~closed /\ primary /\ SizeOf[l] <= MaxListBytes
      <3>1. Capture(l) /\ received' = received + 1 /\ cleared' = cleared
        BY <1>1, <2>3 DEF HandleDigest, IsOpen
      <3> QED
        BY <2>1, <2>3, <3>1, CaptureCounted DEF IInv
    <2>4. CASE ~closed /\ ~(primary /\ SizeOf[l] <= MaxListBytes)
      <3>1. Refuse(l) /\ received' = received + 1 /\ cleared' = cleared
        BY <1>1, <2>4 DEF HandleDigest, IsOpen
      <3> QED
        BY <3>1, RefuseCounted
    <2> QED
      BY <2>2, <2>3, <2>4
  <1>2. ASSUME NEW f \in Digests \cup {NoFilter}, Clear(f) PROVE Counted'
    <2>1. ClearEvents(f) /\ UNCHANGED <<dropped, received>>
      BY <1>2 DEF Clear
    <2> QED
      BY <2>1, ClearCounted
  <1>3. CASE ShutdownEnd
    <2>1. ClearEvents(NoFilter) /\ UNCHANGED <<dropped, received>>
      BY <1>3 DEF ShutdownEnd, ShutdownVars
    <2> QED
      BY <2>1, ClearCounted
  <1>4. CASE UNCHANGED Accounts
    BY <1>4 DEF Accounts, Counted, Accounted
  <1>5. CASE Transmit \/ ArbitrationBegin \/ Arbitrate \/ ArbitrationTimeout
    <2>1. UNCHANGED Accounts
      BY <1>5 DEF Transmit, ArbitrationBegin, Arbitrate, ArbitrationTimeout, ArbitrationVars,
         ArbitrationSend, ArbitrationAnswer, ArbitrationEmpty, ArbitrationCheck, Accounts
    <2> QED
      BY <1>4, <2>1
  <1>6. CASE \/ \E m \in Sendable : Receive(m)
             \/ \E raised \in BOOLEAN : StreamEnds(raised)
             \/ HandleArbitration \/ Announce \/ HandleError \/ ConsumerStops
    <2>1. UNCHANGED Accounts
      BY <1>6 DEF Receive, StreamEnds, HandleArbitration, Announce, HandleError, ConsumerStops,
         Accounts
    <2> QED
      BY <1>4, <2>1
  <1>7. CASE ShutdownBegin \/ ShutdownQueue \/ ShutdownCancel
    <2>1. UNCHANGED Accounts
      BY <1>7 DEF ShutdownBegin, ShutdownQueue, ShutdownCancel, ShutdownVars, Accounts
    <2> QED
      BY <1>4, <2>1
  <1>8. CASE (\E r \in Readers, limit \in PageSizes : Poll(r, limit)) \/ UNCHANGED vars
    <2>1. UNCHANGED Accounts
      BY <1>8 DEF Poll, vars, Accounts
    <2> QED
      BY <1>4, <2>1
  <1> QED
    BY <1>1, <1>2, <1>3, <1>5, <1>6, <1>7, <1>8 DEF Next, Consume, Shutdown

LEMMA CountedInvariant == Spec => []Counted
  <1>1. Init => Counted
    <2> SUFFICES ASSUME Init PROVE Counted
      OBVIOUS
    <2>1. IsFiniteSet({}) /\ Cardinality({}) = 0 /\ Bytes({}) = 0
      BY FS_EmptySet, BytesUnfold
    <2>2. MaxEvents \in Nat /\ MaxBytes \in Nat
      BY BufferAssumption
    <2> QED
      BY <2>1, <2>2 DEF Init, Counted, Accounted, Sized
  <1> QED
    BY <1>1, CountedStep, ConnectionInvariant, PTL DEF Spec

(***************************************************************************)
(* Bounded memory, for any limits and sizes: the byte counter is the size  *)
(* of what is kept, both limits hold, and every list the open connection   *)
(* handled is kept, counted as dropped, or was cleared.                    *)
(***************************************************************************)
THEOREM CapturesAreAccounted == Spec => []Accounted
  <1>1. Counted => Accounted
    BY DEF Counted
  <1> QED
    BY <1>1, CountedInvariant, PTL

-----------------------------------------------------------------------------
(* What remains of the type invariant: that the update the consumer hands   *)
(* to MasterArbitrationUpdate is that of an arbitration it handled.         *)
Flags ==
  /\ closed \in BOOLEAN /\ active \in BOOLEAN /\ primary \in BOOLEAN
  /\ error \in BOOLEAN /\ cancelled \in BOOLEAN /\ heard \in BOOLEAN

Places ==
  /\ consumer \in {"next", "handling", "announcing", "ending", "ended"}
  /\ caller \in {"none", "drained", "waiting", "checking"}
  /\ closer \in {"none", "closed", "queued", "cancelled", "done"}
  /\ consumer = "announcing" => message.kind = "arbitration"

Shapes ==
  /\ Flags /\ Places
  /\ arbUpdates \in Seq(BOOLEAN)
  /\ events \subseteq Event
  /\ taken \in Nat
  /\ captured \subseteq Lists

LEMMA FlagsStep == Safe /\ Flags /\ [Next]_vars => Flags'
  <1> SUFFICES ASSUME Safe, Flags, [Next]_vars PROVE Flags'
    OBVIOUS
  <1> USE DEF Flags, flagVars, captureVars, threadVars, auxVars
  <1>0. message \in Message
    BY DEF Safe, Control
  <1>1. CASE HandleDigest
    BY <1>1 DEF HandleDigest, Capture, Refuse
  <1>2. CASE HandleArbitration
    <2>1. message.ok \in BOOLEAN
      BY <1>0, <1>2 DEF HandleArbitration, Message
    <2> QED
      BY <1>2, <2>1 DEF HandleArbitration
  <1>3. CASE \/ \E m \in Sendable : Receive(m)
             \/ \E raised \in BOOLEAN : StreamEnds(raised)
             \/ Announce \/ HandleError \/ ConsumerStops
    BY <1>3 DEF Receive, StreamEnds, Announce, HandleError, ConsumerStops
  <1>4. CASE Transmit \/ ArbitrationBegin \/ Arbitrate \/ ArbitrationTimeout
    BY <1>4 DEF Transmit, ArbitrationBegin, Arbitrate, ArbitrationTimeout, ArbitrationVars,
       ArbitrationSend, ArbitrationAnswer, ArbitrationEmpty, ArbitrationCheck
  <1>5. CASE Shutdown
    BY <1>5 DEF Shutdown, ShutdownBegin, ShutdownQueue, ShutdownCancel, ShutdownEnd, ShutdownVars
  <1>6. CASE \/ \E r \in Readers, limit \in PageSizes : Poll(r, limit)
             \/ \E f \in Digests \cup {NoFilter} : Clear(f)
             \/ UNCHANGED vars
    BY <1>6 DEF Poll, Clear, vars
  <1> QED
    BY <1>1, <1>2, <1>3, <1>4, <1>5, <1>6 DEF Next, Consume

LEMMA PlacesStep == Places /\ [Next]_vars => Places'
  <1> SUFFICES ASSUME Places, [Next]_vars PROVE Places'
    OBVIOUS
  <1> USE DEF Places, flagVars, captureVars, threadVars, auxVars
  <1>1. CASE Consume
    BY <1>1 DEF Consume, Receive, StreamEnds, HandleArbitration, Announce, HandleDigest,
       HandleError, ConsumerStops
  <1>2. CASE Transmit \/ ArbitrationBegin \/ Arbitrate \/ ArbitrationTimeout
    BY <1>2 DEF Transmit, ArbitrationBegin, Arbitrate, ArbitrationTimeout, ArbitrationVars,
       ArbitrationSend, ArbitrationAnswer, ArbitrationEmpty, ArbitrationCheck
  <1>3. CASE Shutdown
    BY <1>3 DEF Shutdown, ShutdownBegin, ShutdownQueue, ShutdownCancel, ShutdownEnd, ShutdownVars
  <1>4. CASE \/ \E r \in Readers, limit \in PageSizes : Poll(r, limit)
             \/ \E f \in Digests \cup {NoFilter} : Clear(f)
             \/ UNCHANGED vars
    BY <1>4 DEF Poll, Clear, vars
  <1> QED
    BY <1>1, <1>2, <1>3, <1>4 DEF Next

(* The updates that MasterArbitrationUpdate has not taken.                  *)
LEMMA UpdatesStep ==
  ASSUME Safe, Places, arbUpdates \in Seq(BOOLEAN), [Next]_vars
  PROVE  arbUpdates' \in Seq(BOOLEAN)
  <1> USE DEF flagVars, captureVars, threadVars, auxVars
  <1>1. CASE Announce
    <2>1. message.ok \in BOOLEAN
      BY <1>1 DEF Announce, Places, Safe, Control, Message
    <2>2. ASSUME ~(Len(arbUpdates) < ArbCap) PROVE Tail(arbUpdates) \in Seq(BOOLEAN)
      <3>1. arbUpdates # <<>>
        BY <2>2, LimitsAssumption
      <3> QED
        BY <3>1, Dequeued
    <2>3. PICK q \in Seq(BOOLEAN) : arbUpdates' = Append(q, message.ok)
      BY <1>1, <2>2 DEF Announce
    <2> QED
      BY <2>1, <2>3, Queued
  <1>2. CASE ArbitrationAnswer
    BY <1>2, Dequeued DEF ArbitrationAnswer
  <1>3. CASE ArbitrationBegin
    BY <1>3 DEF ArbitrationBegin
  <1>4. CASE UNCHANGED arbUpdates
    BY <1>4
  <1>5. CASE \/ \E m \in Sendable : Receive(m)
             \/ \E raised \in BOOLEAN : StreamEnds(raised)
             \/ HandleArbitration \/ HandleDigest \/ HandleError \/ ConsumerStops
    <2>1. UNCHANGED arbUpdates
      BY <1>5 DEF Receive, StreamEnds, HandleArbitration, HandleDigest, HandleError, ConsumerStops
    <2> QED
      BY <1>4, <2>1
  <1>6. CASE \/ Transmit \/ ArbitrationSend \/ ArbitrationEmpty \/ ArbitrationCheck
             \/ ArbitrationTimeout \/ Shutdown
    <2>1. UNCHANGED arbUpdates
      BY <1>6 DEF Transmit, ArbitrationSend, ArbitrationEmpty, ArbitrationCheck, ArbitrationTimeout,
         Shutdown, ShutdownBegin, ShutdownQueue, ShutdownCancel, ShutdownEnd, ShutdownVars
    <2> QED
      BY <1>4, <2>1
  <1>7. CASE \/ \E r \in Readers, limit \in PageSizes : Poll(r, limit)
             \/ \E f \in Digests \cup {NoFilter} : Clear(f)
             \/ UNCHANGED vars
    <2>1. UNCHANGED arbUpdates
      BY <1>7 DEF Poll, Clear, vars
    <2> QED
      BY <1>4, <2>1
  <1> QED
    BY <1>1, <1>2, <1>3, <1>5, <1>6, <1>7 DEF Next, Consume, Arbitrate

LEMMA EventsStep ==
  ASSUME Safe, Numbering, events \subseteq Event, [Next]_vars
  PROVE  events' \subseteq Event
  <1>1. CASE CaptureStep
    <2>1. PICK l \in Lists :
            events' \subseteq events \cup
              {[seq |-> sequence + 1, digest |-> DigestOf[l], size |-> SizeOf[l]]}
      BY <1>1 DEF CaptureStep
    <2>2. [seq |-> sequence + 1, digest |-> DigestOf[l], size |-> SizeOf[l]] \in Event
      BY DigestOfAssumption, SizeOfAssumption DEF Event, Numbering
    <2> QED
      BY <2>1, <2>2
  <1>2. CASE ForgetStep
    BY <1>2 DEF ForgetStep
  <1>3. CASE PollStep
    BY <1>3 DEF PollStep, Poll, captureVars
  <1>4. CASE UNCHANGED Numbers
    BY <1>4 DEF Numbers
  <1> QED
    BY <1>1, <1>2, <1>3, <1>4, StepKinds

LEMMA HistoryStep ==
  ASSUME Safe, captured \subseteq Lists, taken \in Nat, [Next]_vars
  PROVE  captured' \subseteq Lists /\ taken' \in Nat
  <1> USE DEF flagVars, captureVars, threadVars, auxVars
  <1>1. CASE HandleDigest
    <2>1. message.list \in Lists
      BY <1>1, MessageShape DEF HandleDigest, Safe, Control
    <2> QED
      BY <1>1, <2>1 DEF HandleDigest, Capture, Refuse
  <1>2. CASE \/ \E m \in Sendable : Receive(m)
             \/ \E raised \in BOOLEAN : StreamEnds(raised)
             \/ HandleArbitration \/ Announce \/ HandleError \/ ConsumerStops
    BY <1>2 DEF Receive, StreamEnds, HandleArbitration, Announce, HandleError, ConsumerStops
  <1>3. CASE Transmit \/ ArbitrationBegin \/ Arbitrate \/ ArbitrationTimeout
    BY <1>3 DEF Transmit, ArbitrationBegin, Arbitrate, ArbitrationTimeout, ArbitrationVars,
       ArbitrationSend, ArbitrationAnswer, ArbitrationEmpty, ArbitrationCheck
  <1>4. CASE Shutdown
    BY <1>4 DEF Shutdown, ShutdownBegin, ShutdownQueue, ShutdownCancel, ShutdownEnd, ShutdownVars
  <1>5. CASE \/ \E r \in Readers, limit \in PageSizes : Poll(r, limit)
             \/ \E f \in Digests \cup {NoFilter} : Clear(f)
             \/ UNCHANGED vars
    BY <1>5 DEF Poll, Clear, vars
  <1> QED
    BY <1>1, <1>2, <1>3, <1>4, <1>5 DEF Next, Consume

(***************************************************************************)
(* The state of a connection has the shape the code gives it; what it      *)
(* counts, the bytes it keeps included, never becomes negative.            *)
(***************************************************************************)
THEOREM TypeCorrect == Spec => []TypeOK
  <1>1. Init => Shapes
    <2>1. Init => Flags
      BY DEF Init, Flags
    <2>2. Init => Places
      BY DEF Init, Places
    <2> QED
      BY <2>1, <2>2 DEF Init, Shapes
  <1>2. Safe /\ Numbering /\ Shapes /\ [Next]_vars => Shapes'
    BY FlagsStep, PlacesStep, UpdatesStep, EventsStep, HistoryStep DEF Shapes
  <1>3. IInv /\ Counted /\ Shapes => TypeOK
    <2> SUFFICES ASSUME IInv, Counted, Shapes PROVE TypeOK
      OBVIOUS
    <2>1. bytes \in Nat
      BY BytesNat DEF Counted, Accounted
    <2>2. {closed, active, primary, error, cancelled, heard} \subseteq BOOLEAN
      BY DEF Shapes, Flags
    <2> QED
      BY <2>1, <2>2 DEF TypeOK, IInv, Safe, Control, Numbering, Counted, Shapes, Places
  <1> QED
    BY <1>1, <1>2, <1>3, ConnectionInvariant, CountedInvariant, PTL DEF Spec, IInv
=============================================================================
