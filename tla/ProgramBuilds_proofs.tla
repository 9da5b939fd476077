----------------------- MODULE ProgramBuilds_proofs -----------------------
(***************************************************************************)
(* Proofs about ProgramBuilds, for any number of builds, requests,         *)
(* switches and rows.  IInv is inductive: it says what each phase of a     *)
(* cleanup has already covered, so that what appears after the cleanup has *)
(* looked (a row, a loaded switch) is known to be pinned.                  *)
(***************************************************************************)
EXTENDS ProgramBuilds, FiniteSetTheorems, TLAPS

(* The cleanup lock: who holds it, and in which phase.                      *)
CleanerOK ==
  /\ stage = "idle" <=> cleaner = NoBuild
  /\ cleaner # NoBuild => job[cleaner] = "cleaning"

(* One job at a time, and what its directory holds at each status.          *)
JobsOK ==
  /\ \A b, c \in Builds : job[b] \in ActiveJob /\ job[c] \in ActiveJob => b = c
  /\ \A b \in Builds : /\ job[b] = "pending" => disk[b] = "unused"
                       /\ job[b] = "compiling" => disk[b] = "partial"
                       /\ job[b] \in {"built", "cleaning"} => Loadable(b)

(* What requests carry once they have read it.                              *)
RequestsOK ==
  /\ \A r \in Requests : /\ req[r].stage # "idle" => req[r].build \in Builds
                         /\ req[r].stage = "copying" => req[r].copy \in Builds
  /\ \A v \in Savers : saver[v].stage = "writing" => saver[v].build \in Builds

(* _PINNED counts the requests inside use_build.                            *)
Holders(b) == {r \in Requests : req[r].stage \in HoldsPin /\ req[r].build = b}
PinsOK     == \A b \in Builds : pins[b] = Cardinality(Holders(b))

(* What a cleanup has read stays covered: by `kept`, or by a pin.           *)
Covered(b) == b \in kept \/ pins[b] > 0

CoverageOK ==
  /\ stage \in {"switches", "pins", "delete"} =>
       \A s \in Stored \ unanchored : Covered(rows[s].build)
  /\ stage \in {"pins", "delete"} =>
       \A w \in connected : running[w] # NoBuild => Covered(running[w])
  /\ stage = "delete" => \A b \in Builds : pins[b] > 0 => b \in kept

IInv ==
  /\ TypeOK /\ CleanerOK /\ JobsOK /\ RequestsOK /\ PinsOK /\ CoverageOK
  /\ HeldBuildsLoadable /\ RunningBuildsLoadable /\ StatesReplayable
  /\ PrunedAreSuperseded

-----------------------------------------------------------------------------
(* The initial state.                                                       *)
LEMMA InitIInv == Init => IInv
  <1> SUFFICES ASSUME Init PROVE IInv
    OBVIOUS
  <1>1. TypeOK
    BY TimesAssumption DEF Init, TypeOK, Idle, IdleSaver, InitRequest, SaveRequest, ActiveJob, HoldsPin, Row
  <1>2. CleanerOK /\ JobsOK
    BY NoBuildAssumption DEF Init, CleanerOK, JobsOK, ActiveJob
  <1>3. RequestsOK /\ HeldBuildsLoadable
    BY DEF Init, RequestsOK, HeldBuildsLoadable, Idle, IdleSaver, HoldsPin
  <1>4. PinsOK
    <2> SUFFICES ASSUME NEW b \in Builds PROVE pins[b] = Cardinality(Holders(b))
      BY DEF PinsOK
    <2>1. Holders(b) = {}
      BY DEF Init, Holders, Idle, HoldsPin
    <2> QED
      BY <2>1, FS_EmptySet DEF Init
  <1>5. CoverageOK /\ RunningBuildsLoadable /\ StatesReplayable /\ PrunedAreSuperseded
    BY DEF Init, CoverageOK, RunningBuildsLoadable, StatesReplayable, PrunedAreSuperseded, Stored
  <1> QED
    BY <1>1, <1>2, <1>3, <1>4, <1>5 DEF IInv

-----------------------------------------------------------------------------
(* A request inside use_build keeps the counter of its build above zero.    *)
LEMMA HolderPinned ==
  ASSUME TypeOK, RequestsOK, PinsOK, NEW r \in Requests, req[r].stage \in HoldsPin
  PROVE  req[r].build \in Builds /\ pins[req[r].build] > 0
  <1> DEFINE b == req[r].build
  <1>1. b \in Builds
    BY DEF RequestsOK, HoldsPin
  <1>2. r \in Holders(b) /\ Holders(b) \subseteq Requests
    BY DEF Holders
  <1>3. IsFiniteSet(Holders(b))
    BY <1>2, FiniteAssumption, FS_Subset
  <1>4. Cardinality(Holders(b)) \in Nat /\ Cardinality(Holders(b)) # 0
    BY <1>2, <1>3, FS_CardinalityType, FS_EmptySet
  <1> QED
    BY <1>1, <1>4 DEF PinsOK

(* The record updates of the requests stay in their types.                  *)
LEMMA IdleType == Idle \in InitRequest /\ IdleSaver \in SaveRequest
  BY DEF Idle, IdleSaver, InitRequest, SaveRequest

LEMMA RequestType ==
  ASSUME TypeOK, NEW r \in Requests, NEW p \in HoldsPin
  PROVE  [req EXCEPT ![r].stage = p] \in [Requests -> InitRequest]
  <1>1. req \in [Requests -> InitRequest]
    BY DEF TypeOK
  <1>2. [req[r] EXCEPT !.stage = p] \in InitRequest
    BY <1>1 DEF InitRequest
  <1> QED
    BY <1>1, <1>2

LEMMA CopyType ==
  ASSUME TypeOK, NEW r \in Requests, NEW p \in HoldsPin, NEW c \in Builds
  PROVE  [req EXCEPT ![r].stage = p, ![r].copy = c] \in [Requests -> InitRequest]
  <1>1. req \in [Requests -> InitRequest]
    BY DEF TypeOK
  <1>2. [[req[r] EXCEPT !.stage = p] EXCEPT !.copy = c] \in InitRequest
    BY <1>1 DEF InitRequest
  <1> QED
    BY <1>1, <1>2

LEMMA WriteRowType ==
  ASSUME TypeOK, NEW s \in Rows, NEW b \in Builds, NEW l \in BOOLEAN, WriteRow(s, b, l)
  PROVE  rows' \in [Rows -> Row \cup {NoRow}] /\ unanchored' \subseteq Rows
  BY DEF TypeOK, WriteRow, Row

(* Every step preserves the types.  A build that a request or a row hands   *)
(* on is one of Builds, which is what RequestsOK adds.                      *)
LEMMA TypingStep == TypeOK /\ CleanerOK /\ RequestsOK /\ PinsOK /\ [Next]_vars => TypeOK'
  <1> SUFFICES ASSUME TypeOK, CleanerOK, RequestsOK, PinsOK, [Next]_vars PROVE TypeOK'
    OBVIOUS
  <1> USE DEF TypeOK, buildVars, cleanVars, switchVars, rowVars
  <1>1. ASSUME NEW b \in Builds, StartBuild(b) PROVE TypeOK'
    BY <1>1 DEF StartBuild, ActiveJob
  <1>2. ASSUME NEW b \in Builds, CompileBegin(b) PROVE TypeOK'
    BY <1>2 DEF CompileBegin, ActiveJob
  <1>3. ASSUME NEW b \in Builds, NEW t \in Times, WriteManifest(b, t) PROVE TypeOK'
    BY <1>3 DEF WriteManifest, ActiveJob
  <1>4. ASSUME NEW b \in Builds, CompileFail(b) PROVE TypeOK'
    BY <1>4 DEF CompileFail, ActiveJob
  <1>5. ASSUME NEW b \in Builds, JobComplete(b) PROVE TypeOK'
    BY <1>5 DEF JobComplete, ActiveJob
  <1>6. ASSUME NEW b \in Builds, CleanBegin(b) PROVE TypeOK'
    BY <1>6 DEF CleanBegin, ActiveJob
  <1>7. CASE CleanReadRows
    BY <1>7 DEF CleanReadRows, RowReferences, Stored, Row
  <1>8. CASE CleanReadSwitches
    BY <1>8 DEF CleanReadSwitches, SwitchReferences
  <1>9. CASE CleanReadPins
    BY <1>9 DEF CleanReadPins
  <1>10. ASSUME NEW v \in Builds, CleanDelete(v) PROVE TypeOK'
    BY <1>10 DEF CleanDelete
  <1>11. CASE CleanEnd
    BY <1>11 DEF CleanEnd, ActiveJob
  <1>12. ASSUME NEW r \in Requests, NEW w \in Switches, NEW b \in Builds, NEW s \in Rows \cup {NoRow},
                InitBegin(r, w, b, s)
         PROVE  TypeOK'
    BY <1>12 DEF InitBegin, InitRequest
  <1>13. ASSUME NEW r \in Requests, InitSend(r) PROVE TypeOK'
    BY <1>13, RequestType DEF InitSend, HoldsPin
  <1>14. ASSUME NEW r \in Requests, InitPin(r) PROVE TypeOK'
    <2>1. pins' \in [Builds -> Nat] /\ oplock' \in [Switches -> Requests \cup {NoRequest}]
      BY <1>14 DEF InitPin
    <2>2. req' = [req EXCEPT ![r].stage = "pinned"] \/ req' = [req EXCEPT ![r] = Idle]
      BY <1>14 DEF InitPin
    <2>3. req' \in [Requests -> InitRequest]
      BY <2>2, RequestType, IdleType DEF HoldsPin
    <2> QED
      BY <1>14, <2>1, <2>3 DEF InitPin
  <1>15. ASSUME NEW r \in Requests, InitLoaded(r) PROVE TypeOK'
    <2>1. req[r].build \in Builds
      BY <1>15 DEF InitLoaded, RequestsOK
    <2> QED
      BY <1>15, <2>1, RequestType DEF InitLoaded, HoldsPin
  <1>16. ASSUME NEW r \in Requests, InitRecord(r) PROVE TypeOK'
    <2>1. req[r].build \in Builds
      BY <1>16 DEF InitRecord, RequestsOK
    <2>2. req' \in [Requests -> InitRequest]
      BY <1>16, RequestType DEF InitRecord, HoldsPin
    <2> QED
      BY <1>16, <2>1, <2>2, WriteRowType DEF InitRecord
  <1>17. ASSUME NEW r \in Requests, InitTouch(r) PROVE TypeOK'
    <2>1. rows[req[r].src].build \in Builds
      BY <1>17 DEF InitTouch, Stored, Row
    <2>2. req' \in [Requests -> InitRequest]
      BY <1>17, <2>1, RequestType, CopyType DEF InitTouch, HoldsPin
    <2> QED
      BY <1>17, <2>2 DEF InitTouch
  <1>18. ASSUME NEW r \in Requests, InitCopy(r) PROVE TypeOK'
    <2>1. req[r].copy \in Builds
      BY <1>18 DEF InitCopy, RequestsOK
    <2>2. req' \in [Requests -> InitRequest]
      BY <1>18, RequestType DEF InitCopy, HoldsPin
    <2> QED
      BY <1>18, <2>1, <2>2, WriteRowType DEF InitCopy
  <1>19. ASSUME NEW r \in Requests, InitFail(r) PROVE TypeOK'
    BY <1>19, RequestType DEF InitFail, HoldsPin
  <1>20. ASSUME NEW r \in Requests, InitUnpin(r) PROVE TypeOK'
    <2>1. req[r].build \in Builds /\ pins[req[r].build] > 0
      BY <1>20, HolderPinned DEF InitUnpin, HoldsPin
    <2>2. pins' \in [Builds -> Nat]
      BY <1>20, <2>1 DEF InitUnpin, Released
    <2>3. req' \in [Requests -> InitRequest]
      BY <1>20, IdleType DEF InitUnpin
    <2> QED
      BY <1>20, <2>2, <2>3 DEF InitUnpin
  <1>21. ASSUME NEW s \in Rows, DeleteRow(s) PROVE TypeOK'
    BY <1>21 DEF DeleteRow, Row
  <1>22. ASSUME NEW v \in Savers, NEW s \in Rows, NEW over \in Rows \cup {NoRow}, SaveQuery(v, s, over)
         PROVE  TypeOK'
    BY <1>22 DEF SaveQuery, Stored, Row, SaveRequest
  <1>23. ASSUME NEW v \in Savers, SaveCommit(v) PROVE TypeOK'
    <2>1. saver[v].build \in Builds
      BY <1>23 DEF SaveCommit, RequestsOK
    <2>2. rows' \in [Rows -> Row \cup {NoRow}] /\ unanchored' \subseteq Rows
      BY <1>23, <2>1, WriteRowType DEF SaveCommit, Stored
    <2> QED
      BY <1>23, <2>2, IdleType DEF SaveCommit
  <1>24. ASSUME NEW w \in Switches, Connect(w) \/ Disconnect(w) PROVE TypeOK'
    BY <1>24 DEF Connect, Disconnect
  <1>25. CASE Restart
    BY <1>25, IdleType DEF Restart, ActiveJob
  <1>26. CASE UNCHANGED vars
    BY <1>26 DEF vars
  <1> QED
    BY <1>1, <1>2, <1>3, <1>4, <1>5, <1>6, <1>7, <1>8, <1>9, <1>10, <1>11, <1>12, <1>13, <1>14,
       <1>15, <1>16, <1>17, <1>18, <1>19, <1>20, <1>21, <1>22, <1>23, <1>24, <1>25, <1>26
       DEF Next, Compile, Cleanup, Initialize

-----------------------------------------------------------------------------
(* The cleanup lock and the jobs.                                           *)
LEMMA JobsStep ==
  TypeOK /\ CleanerOK /\ JobsOK /\ [Next]_vars => CleanerOK' /\ JobsOK'
  <1> SUFFICES ASSUME TypeOK, CleanerOK, JobsOK, [Next]_vars PROVE CleanerOK' /\ JobsOK'
    OBVIOUS
  <1> USE DEF TypeOK, CleanerOK, JobsOK, Loadable, ActiveJob, buildVars, cleanVars
  <1>1. ASSUME NEW b \in Builds, StartBuild(b) PROVE CleanerOK' /\ JobsOK'
    BY <1>1 DEF StartBuild
  <1>2. ASSUME NEW b \in Builds, CompileBegin(b) PROVE CleanerOK' /\ JobsOK'
    BY <1>2 DEF CompileBegin
  <1>3. ASSUME NEW b \in Builds, NEW t \in Times, WriteManifest(b, t) PROVE CleanerOK' /\ JobsOK'
    BY <1>3 DEF WriteManifest
  <1>4. ASSUME NEW b \in Builds, CompileFail(b) PROVE CleanerOK' /\ JobsOK'
    BY <1>4 DEF CompileFail
  <1>5. ASSUME NEW b \in Builds, JobComplete(b) PROVE CleanerOK' /\ JobsOK'
    BY <1>5 DEF JobComplete
  <1>6. ASSUME NEW b \in Builds, CleanBegin(b) PROVE CleanerOK' /\ JobsOK'
    BY <1>6, NoBuildAssumption DEF CleanBegin
  <1>7. CASE CleanReadRows \/ CleanReadSwitches \/ CleanReadPins
    BY <1>7 DEF CleanReadRows, CleanReadSwitches, CleanReadPins
  <1>8. ASSUME NEW v \in Builds, CleanDelete(v) PROVE CleanerOK' /\ JobsOK'
    BY <1>8 DEF CleanDelete
  <1>9. CASE CleanEnd
    BY <1>9 DEF CleanEnd
  <1>10. CASE Restart
    BY <1>10 DEF Restart
  <1>11. CASE UNCHANGED <<disk, job, cleaner, stage>>
    BY <1>11
  <1> QED
    BY <1>1, <1>2, <1>3, <1>4, <1>5, <1>6, <1>7, <1>8, <1>9, <1>10, <1>11
       DEF Next, Compile, Cleanup, Initialize, InitBegin, InitPin, InitSend, InitLoaded, InitRecord,
           InitTouch, InitCopy, InitFail, InitUnpin, DeleteRow, SaveQuery, SaveCommit, Connect,
           Disconnect, vars

-----------------------------------------------------------------------------
(* A step of a request inside use_build leaves it inside, with its build.   *)
KeepsPins ==
  /\ pins' = pins
  /\ \A r \in Requests : /\ req'[r].stage \in HoldsPin <=> req[r].stage \in HoldsPin
                         /\ req[r].stage \in HoldsPin => req'[r].build = req[r].build

InsideUse(r) == InitSend(r) \/ InitLoaded(r) \/ InitRecord(r) \/ InitTouch(r) \/ InitCopy(r) \/ InitFail(r)

LEMMA InsideUseStep ==
  ASSUME TypeOK, NEW r \in Requests, InsideUse(r)
  PROVE  KeepsPins /\ req[r].stage \in HoldsPin /\ UNCHANGED <<disk, cleaner, stage, kept, connected>>
  <1> USE DEF TypeOK, HoldsPin, buildVars, cleanVars, switchVars
  <1>1. req[r] \in InitRequest
    OBVIOUS
  <1>2. \/ \E p \in HoldsPin : req' = [req EXCEPT ![r].stage = p]
        \/ \E c \in Builds : req' = [req EXCEPT ![r].stage = "copying", ![r].copy = c]
    <2>1. CASE InitTouch(r)
      <3>1. rows[req[r].src].build \in Builds
        BY <2>1 DEF InitTouch, Stored, Row
      <3> QED
        BY <2>1, <3>1 DEF InitTouch
    <2>2. CASE InitSend(r) \/ InitLoaded(r) \/ InitRecord(r) \/ InitCopy(r) \/ InitFail(r)
      BY <2>2 DEF InitSend, InitLoaded, InitRecord, InitCopy, InitFail
    <2> QED
      BY <2>1, <2>2 DEF InsideUse
  <1>3. /\ req[r].stage \in HoldsPin
        /\ pins' = pins
        /\ UNCHANGED <<disk, cleaner, stage, kept, connected>>
    BY DEF InsideUse, InitSend, InitLoaded, InitRecord, InitTouch, InitCopy, InitFail
  <1>4. /\ req'[r].stage \in HoldsPin /\ req'[r].build = req[r].build
        /\ \A q \in Requests \ {r} : req'[q] = req[q]
    BY <1>1, <1>2 DEF InitRequest
  <1> QED
    BY <1>3, <1>4 DEF KeepsPins

LEMMA RequestsStep == TypeOK /\ RequestsOK /\ [Next]_vars => RequestsOK'
  <1> SUFFICES ASSUME TypeOK, RequestsOK, [Next]_vars PROVE RequestsOK'
    OBVIOUS
  <1> USE DEF TypeOK, RequestsOK
  <1>1. ASSUME NEW r \in Requests, InsideUse(r) PROVE RequestsOK'
    <2>1. saver' = saver
      BY <1>1 DEF InsideUse, InitSend, InitLoaded, InitRecord, InitTouch, InitCopy, InitFail
    <2>2. req'[r].stage = "copying" => req'[r].copy \in Builds
      <3>1. req[r] \in InitRequest
        OBVIOUS
      <3>2. CASE InitTouch(r)
        <4>1. rows[req[r].src].build \in Builds
          BY <3>2 DEF InitTouch, Stored, Row
        <4> QED
          BY <3>1, <3>2, <4>1 DEF InitTouch, InitRequest
      <3>3. CASE \E p \in HoldsPin \ {"copying"} : req' = [req EXCEPT ![r].stage = p]
        BY <3>1, <3>3 DEF InitRequest
      <3> QED
        BY <1>1, <3>2, <3>3 DEF InsideUse, InitSend, InitLoaded, InitRecord, InitCopy, InitFail, HoldsPin
    <2>3. \A q \in Requests \ {r} : req'[q] = req[q]
      BY <1>1 DEF InsideUse, InitSend, InitLoaded, InitRecord, InitTouch, InitCopy, InitFail
    <2>4. req'[r].build \in Builds
      BY <1>1, InsideUseStep DEF KeepsPins, HoldsPin
    <2> QED
      BY <2>1, <2>2, <2>3, <2>4
  <1>2. ASSUME NEW r \in Requests, NEW w \in Switches, NEW b \in Builds, NEW s \in Rows \cup {NoRow},
               InitBegin(r, w, b, s)
        PROVE  RequestsOK'
    BY <1>2 DEF InitBegin
  <1>3. ASSUME NEW r \in Requests, InitPin(r) \/ InitUnpin(r) PROVE RequestsOK'
    <2>1. req[r] \in InitRequest /\ saver' = saver /\ req[r].stage \notin {"idle", "copying"}
      BY <1>3 DEF InitPin, InitUnpin
    <2>2. req' = [req EXCEPT ![r].stage = "pinned"] \/ req' = [req EXCEPT ![r] = Idle]
      BY <1>3 DEF InitPin, InitUnpin
    <2>3. req[r].build \in Builds
      BY <2>1
    <2>4. req'[r].stage = "idle" \/ (req'[r].stage = "pinned" /\ req'[r].build = req[r].build)
      BY <2>1, <2>2 DEF Idle, InitRequest
    <2>5. \A q \in Requests \ {r} : req'[q] = req[q]
      BY <2>2
    <2> QED
      BY <2>1, <2>3, <2>4, <2>5
  <1>4. ASSUME NEW v \in Savers, NEW s \in Rows, NEW over \in Rows \cup {NoRow}, SaveQuery(v, s, over)
        PROVE  RequestsOK'
    BY <1>4 DEF SaveQuery, Stored, Row
  <1>5. ASSUME NEW v \in Savers, SaveCommit(v) PROVE RequestsOK'
    BY <1>5 DEF SaveCommit, IdleSaver
  <1>6. CASE Restart
    BY <1>6 DEF Restart, Idle, IdleSaver
  <1>7. CASE UNCHANGED <<req, saver>>
    BY <1>7
  <1> QED
    BY <1>1, <1>2, <1>3, <1>4, <1>5, <1>6, <1>7
       DEF Next, Compile, Cleanup, Initialize, InsideUse, StartBuild, CompileBegin, WriteManifest, CompileFail,
           JobComplete, CleanBegin, CleanReadRows, CleanReadSwitches, CleanReadPins, CleanDelete, CleanEnd,
           DeleteRow, Connect, Disconnect, vars

-----------------------------------------------------------------------------
(* The counters of _PINNED.                                                 *)
LEMMA PinsKept == ASSUME PinsOK, KeepsPins PROVE PinsOK'
  <1> SUFFICES ASSUME NEW b \in Builds PROVE pins'[b] = Cardinality(Holders(b)')
    BY DEF PinsOK
  <1>1. Holders(b)' = Holders(b)
    BY DEF Holders, KeepsPins
  <1> QED
    BY <1>1 DEF PinsOK, KeepsPins

LEMMA HoldersFinite == ASSUME NEW b PROVE IsFiniteSet(Holders(b))
  <1>1. Holders(b) \subseteq Requests
    BY DEF Holders
  <1> QED
    BY <1>1, FiniteAssumption, FS_Subset

LEMMA PinsStep == TypeOK /\ RequestsOK /\ PinsOK /\ [Next]_vars => PinsOK'
  <1> SUFFICES ASSUME TypeOK, RequestsOK, PinsOK, [Next]_vars PROVE PinsOK'
    OBVIOUS
  <1> USE DEF TypeOK
  <1>1. ASSUME NEW r \in Requests, InsideUse(r) PROVE PinsOK'
    BY <1>1, InsideUseStep, PinsKept
  <1>2. ASSUME NEW r \in Requests, NEW w \in Switches, NEW b \in Builds, NEW s \in Rows \cup {NoRow},
               InitBegin(r, w, b, s)
        PROVE  PinsOK'
    <2>1. KeepsPins
      BY <1>2 DEF InitBegin, KeepsPins, HoldsPin
    <2> QED
      BY <2>1, PinsKept
  <1>3. ASSUME NEW r \in Requests, InitPin(r) PROVE PinsOK'
    <2>1. PICK a \in Builds : a = req[r].build
      BY <1>3 DEF InitPin, RequestsOK
    <2>2. req[r] \in InitRequest /\ req[r].stage = "entered"
      BY <1>3 DEF InitPin
    <2>3. CASE ~Loadable(a)
      <3>1. pins' = pins /\ req' = [req EXCEPT ![r] = Idle]
        BY <1>3, <2>1, <2>3 DEF InitPin
      <3>2. KeepsPins
        BY <2>2, <3>1 DEF KeepsPins, Idle, HoldsPin
      <3> QED
        BY <3>2, PinsKept
    <2>4. CASE Loadable(a)
      <3>1. pins' = [pins EXCEPT ![a] = @ + 1] /\ req' = [req EXCEPT ![r].stage = "pinned"]
        BY <1>3, <2>1, <2>4 DEF InitPin
      <3>2. req'[r].stage \in HoldsPin /\ req'[r].build = a /\ req[r].stage \notin HoldsPin
        BY <2>1, <2>2, <3>1 DEF InitRequest, HoldsPin
      <3>3. \A q \in Requests \ {r} : req'[q] = req[q]
        BY <3>1
      <3>4. Holders(a)' = Holders(a) \cup {r} /\ r \notin Holders(a)
        BY <2>1, <3>2, <3>3 DEF Holders
      <3>5. \A b \in Builds \ {a} : Holders(b)' = Holders(b)
        BY <2>1, <3>2, <3>3 DEF Holders
      <3>6. Cardinality(Holders(a)') = Cardinality(Holders(a)) + 1
        BY <3>4, HoldersFinite, FS_AddElement
      <3> QED
        BY <2>1, <3>1, <3>5, <3>6 DEF PinsOK
    <2> QED
      BY <2>3, <2>4
  <1>4. ASSUME NEW r \in Requests, InitUnpin(r) PROVE PinsOK'
    <2>1. PICK a \in Builds : a = req[r].build
      BY <1>4, HolderPinned DEF InitUnpin, HoldsPin
    <2>2. req[r].stage \in HoldsPin /\ pins[a] > 0
      BY <1>4, <2>1, HolderPinned DEF InitUnpin, HoldsPin
    <2>3. pins' = [pins EXCEPT ![a] = @ - 1] /\ req' = [req EXCEPT ![r] = Idle]
      BY <1>4, <2>1 DEF InitUnpin, Released
    <2>4. req'[r].stage \notin HoldsPin /\ \A q \in Requests \ {r} : req'[q] = req[q]
      BY <2>3 DEF Idle, HoldsPin
    <2>5. Holders(a)' = Holders(a) \ {r} /\ r \in Holders(a)
      BY <2>1, <2>4, <2>2 DEF Holders
    <2>6. \A b \in Builds \ {a} : Holders(b)' = Holders(b)
      BY <2>1, <2>4 DEF Holders
    <2>7. Cardinality(Holders(a)') = Cardinality(Holders(a)) - 1
      BY <2>5, HoldersFinite, FS_RemoveElement
    <2> QED
      BY <2>1, <2>3, <2>6, <2>7 DEF PinsOK
  <1>5. CASE Restart
    <2>1. \A b \in Builds : Holders(b)' = {} /\ pins'[b] = 0
      BY <1>5 DEF Restart, Holders, Idle, HoldsPin
    <2> QED
      BY <2>1, FS_EmptySet DEF PinsOK
  <1>6. CASE UNCHANGED <<pins, req>>
    BY <1>6, PinsKept DEF KeepsPins
  <1> QED
    BY <1>1, <1>2, <1>3, <1>4, <1>5, <1>6
       DEF Next, Compile, Cleanup, Initialize, InsideUse, StartBuild, CompileBegin, WriteManifest, CompileFail,
           JobComplete, CleanBegin, CleanReadRows, CleanReadSwitches, CleanReadPins, CleanDelete, CleanEnd,
           DeleteRow, SaveQuery, SaveCommit, Connect, Disconnect, vars

-----------------------------------------------------------------------------
(* What cleanup deletes.                                                    *)
InUse(b) ==
  \/ pins[b] > 0
  \/ \E s \in Stored \ unanchored : rows[s].build = b
  \/ \E w \in connected : running[w] = b

(* A step that makes a build unloadable is CleanDelete of that build, and   *)
(* it finds the build in no use.                                            *)
LEMMA InUseStaysLoadable ==
  ASSUME IInv, [Next]_vars, NEW b \in Builds, Loadable(b), InUse(b)
  PROVE  Loadable(b)'
  <1> USE DEF IInv, TypeOK, Loadable, buildVars, cleanVars
  <1>1. ASSUME NEW c \in Builds, CompileBegin(c) PROVE Loadable(b)'
    BY <1>1 DEF CompileBegin, JobsOK
  <1>2. ASSUME NEW c \in Builds, NEW t \in Times, WriteManifest(c, t) PROVE Loadable(b)'
    BY <1>2 DEF WriteManifest
  <1>3. ASSUME NEW c \in Builds, CompileFail(c) PROVE Loadable(b)'
    BY <1>3 DEF CompileFail, JobsOK
  <1>4. ASSUME NEW v \in Builds, CleanDelete(v) PROVE Loadable(b)'
    <2>1. stage = "delete" /\ v \notin kept /\ disk' = [disk EXCEPT ![v] = "pruned"]
      BY <1>4 DEF CleanDelete
    <2>2. b \in kept
      BY <2>1, NoBuildAssumption DEF InUse, CoverageOK, Covered
    <2> QED
      BY <2>1, <2>2
  <1>5. CASE UNCHANGED disk
    BY <1>5
  <1> QED
    BY <1>1, <1>2, <1>3, <1>4, <1>5
       DEF Next, Compile, Cleanup, Initialize, StartBuild, JobComplete, CleanBegin, CleanReadRows,
           CleanReadSwitches, CleanReadPins, CleanEnd, InitBegin, InitPin, InitSend, InitLoaded, InitRecord,
           InitTouch, InitCopy, InitFail, InitUnpin, DeleteRow, SaveQuery, SaveCommit, Connect,
           Disconnect, Restart, vars

LEMMA HeldStep == IInv /\ [Next]_vars => HeldBuildsLoadable'
  <1> SUFFICES ASSUME IInv, [Next]_vars, NEW r \in Requests, req'[r].stage \in HoldsPin
               PROVE  Loadable(req[r].build)'
    BY DEF HeldBuildsLoadable
  <1> USE DEF IInv
  <1>1. CASE KeepsPins
    <2>1. req[r].stage \in HoldsPin /\ req'[r].build = req[r].build
      BY <1>1 DEF KeepsPins
    <2>2. PICK b \in Builds : b = req[r].build
      BY <2>1, HolderPinned
    <2>3. Loadable(b) /\ InUse(b)
      BY <2>1, <2>2, HolderPinned DEF HeldBuildsLoadable, InUse
    <2> QED
      BY <2>1, <2>2, <2>3, InUseStaysLoadable
  <1>2. ASSUME NEW q \in Requests, InitPin(q) \/ InitUnpin(q) PROVE Loadable(req[r].build)'
    <2>1. req \in [Requests -> InitRequest] /\ disk' = disk
      BY <1>2 DEF TypeOK, InitPin, InitUnpin, buildVars
    <2>2. \/ req' = [req EXCEPT ![q].stage = "pinned"] /\ Loadable(req[q].build)
          \/ req' = [req EXCEPT ![q] = Idle]
      BY <1>2 DEF InitPin, InitUnpin
    <2>3. CASE q = r
      BY <2>1, <2>2, <2>3 DEF Idle, HoldsPin, InitRequest, Loadable
    <2>4. CASE q # r
      BY <2>1, <2>2, <2>4 DEF HeldBuildsLoadable, Loadable
    <2> QED
      BY <2>3, <2>4
  <1>3. ASSUME NEW q \in Requests, NEW w \in Switches, NEW b \in Builds, NEW s \in Rows \cup {NoRow},
               InitBegin(q, w, b, s)
        PROVE  KeepsPins
    BY <1>3 DEF InitBegin, KeepsPins, TypeOK, HoldsPin
  <1>4. ASSUME NEW q \in Requests, InsideUse(q) PROVE KeepsPins
    BY <1>4, InsideUseStep
  <1>5. CASE Restart
    BY <1>5 DEF Restart, Idle, HoldsPin
  <1>6. CASE UNCHANGED <<pins, req>>
    BY <1>6, <1>1 DEF KeepsPins
  <1> QED
    BY <1>1, <1>2, <1>3, <1>4, <1>5, <1>6
       DEF Next, Compile, Cleanup, Initialize, InsideUse, StartBuild, CompileBegin, WriteManifest, CompileFail,
           JobComplete, CleanBegin, CleanReadRows, CleanReadSwitches, CleanReadPins, CleanDelete, CleanEnd,
           DeleteRow, SaveQuery, SaveCommit, Connect, Disconnect, vars

LEMMA RunningStep == IInv /\ [Next]_vars => RunningBuildsLoadable'
  <1> SUFFICES ASSUME IInv, [Next]_vars, NEW w \in connected', running'[w] # NoBuild
               PROVE  Loadable(running[w])'
    BY DEF RunningBuildsLoadable
  <1> USE DEF IInv, TypeOK
  <1>1. CASE w \in connected /\ running'[w] = running[w]
    <2>1. PICK b \in Builds : b = running[w]
      BY <1>1
    <2>2. Loadable(b) /\ InUse(b)
      BY <1>1, <2>1 DEF RunningBuildsLoadable, InUse
    <2> QED
      BY <1>1, <2>1, <2>2, InUseStaysLoadable
  <1>2. ASSUME NEW r \in Requests, InitLoaded(r) PROVE Loadable(running[w])'
    <2>1. PICK b \in Builds : b = req[r].build /\ Loadable(b) /\ InUse(b)
      BY <1>2, HolderPinned DEF InitLoaded, HoldsPin, InUse, HeldBuildsLoadable
    <2>2. Loadable(b)'
      BY <2>1, InUseStaysLoadable
    <2>3. w \in connected /\ (running'[w] = b \/ running'[w] = running[w])
      BY <1>2, <2>1 DEF InitLoaded
    <2> QED
      BY <1>1, <2>2, <2>3
  <1>3. ASSUME NEW r \in Requests, InitSend(r) PROVE w \in connected /\ running'[w] = running[w]
    BY <1>3 DEF InitSend
  <1>4. ASSUME NEW x \in Switches, Connect(x) \/ Disconnect(x)
        PROVE  w \in connected /\ running'[w] = running[w]
    BY <1>4 DEF Connect, Disconnect
  <1>5. CASE Restart
    BY <1>5 DEF Restart
  <1>6. CASE UNCHANGED <<connected, running>>
    BY <1>1, <1>6
  <1> QED
    BY <1>1, <1>2, <1>3, <1>4, <1>5, <1>6
       DEF Next, Compile, Cleanup, Initialize, StartBuild, CompileBegin, WriteManifest, CompileFail,
           JobComplete, CleanBegin, CleanReadRows, CleanReadSwitches, CleanReadPins, CleanDelete, CleanEnd,
           InitBegin, InitPin, InitRecord, InitTouch, InitCopy, InitFail, InitUnpin,
           DeleteRow, SaveQuery, SaveCommit, vars, switchVars

(* A row that is written anchored names a loadable build that is in use.    *)
LEMMA AnchoredInUse ==
  ASSUME IInv, NEW b \in Builds, Anchored(b)
  PROVE  Loadable(b) /\ InUse(b)
  <1>1. CASE pins[b] > 0
    <2>1. Holders(b) # {}
      BY <1>1, FS_EmptySet DEF IInv, PinsOK
    <2>2. PICK r \in Requests : req[r].stage \in HoldsPin /\ req[r].build = b
      BY <2>1 DEF Holders
    <2> QED
      BY <1>1, <2>2 DEF IInv, HeldBuildsLoadable, InUse
  <1>2. CASE \E s \in Stored \ unanchored : rows[s].build = b
    BY <1>2 DEF IInv, StatesReplayable, InUse
  <1> QED
    BY <1>1, <1>2 DEF Anchored

(* The rows that a step leaves anchored were so before, or are written so.  *)
LEMMA RowSteps ==
  ASSUME IInv, [Next]_vars, NEW s \in (Stored \ unanchored)'
  PROVE  \/ s \in Stored \ unanchored /\ rows'[s] = rows[s]
         \/ /\ UNCHANGED <<pins, cleaner, stage, kept, disk>>
            /\ \E b \in Builds : Anchored(b) /\ rows'[s].build = b
  <1> USE DEF IInv, TypeOK, Stored, rowVars
  <1>1. ASSUME NEW x \in Rows, NEW b \in Builds, NEW l \in BOOLEAN, WriteRow(x, b, l)
        PROVE  \/ s \in Stored \ unanchored /\ rows'[s] = rows[s]
               \/ Anchored(b) /\ rows'[s].build = b
    BY <1>1 DEF WriteRow
  <1>2. ASSUME NEW r \in Requests, InitRecord(r) \/ InitCopy(r)
        PROVE  /\ UNCHANGED <<pins, cleaner, stage, kept, disk>>
               /\ \E x \in Rows, b \in Builds, l \in BOOLEAN : WriteRow(x, b, l)
    BY <1>2 DEF InitRecord, InitCopy, RequestsOK, buildVars, cleanVars
  <1>3. ASSUME NEW v \in Savers, SaveCommit(v)
        PROVE  /\ UNCHANGED <<pins, cleaner, stage, kept, disk>>
               /\ \/ \E x \in Rows, b \in Builds, l \in BOOLEAN : WriteRow(x, b, l)
                  \/ UNCHANGED rowVars
    BY <1>3 DEF SaveCommit, RequestsOK, buildVars, cleanVars
  <1>4. ASSUME NEW x \in Rows, DeleteRow(x) PROVE s \in Stored \ unanchored /\ rows'[s] = rows[s]
    BY <1>4 DEF DeleteRow
  <1>5. CASE Restart
    BY <1>5 DEF Restart
  <1>6. CASE UNCHANGED rowVars
    BY <1>6
  <1> QED
    BY <1>1, <1>2, <1>3, <1>4, <1>5, <1>6
       DEF Next, Compile, Cleanup, Initialize, StartBuild, CompileBegin, WriteManifest, CompileFail,
           JobComplete, CleanBegin, CleanReadRows, CleanReadSwitches, CleanReadPins, CleanDelete, CleanEnd,
           InitBegin, InitPin, InitSend, InitLoaded, InitTouch, InitFail, InitUnpin, SaveQuery, Connect,
           Disconnect, vars

LEMMA StatesStep == IInv /\ [Next]_vars => StatesReplayable'
  <1> SUFFICES ASSUME IInv, [Next]_vars, NEW s \in (Stored \ unanchored)'
               PROVE  Loadable(rows[s].build)'
    BY DEF StatesReplayable
  <1>1. CASE s \in Stored \ unanchored /\ rows'[s] = rows[s]
    <2>1. PICK b \in Builds : b = rows[s].build
      BY <1>1 DEF IInv, TypeOK, Stored, Row
    <2>2. Loadable(b) /\ InUse(b)
      BY <1>1, <2>1 DEF IInv, StatesReplayable, InUse
    <2> QED
      BY <1>1, <2>1, <2>2, InUseStaysLoadable
  <1>2. ASSUME NEW b \in Builds, Anchored(b), rows'[s].build = b PROVE Loadable(rows[s].build)'
    BY <1>2, AnchoredInUse, InUseStaysLoadable
  <1> QED
    BY <1>1, <1>2, RowSteps

LEMMA PrunedStep == IInv /\ [Next]_vars => PrunedAreSuperseded'
  <1> SUFFICES ASSUME IInv, [Next]_vars PROVE PrunedAreSuperseded'
    OBVIOUS
  <1>1. ASSUME NEW v \in Builds, CleanDelete(v) PROVE PrunedAreSuperseded'
    <2>1. /\ disk' = [disk EXCEPT ![v] = "pruned"] /\ UNCHANGED <<program, created>>
          /\ v # cleaner /\ program[v] = program[cleaner] /\ created[v] < created[cleaner]
      BY <1>1 DEF CleanDelete, IsSuperseded, buildVars
    <2>2. cleaner \in Builds /\ disk[cleaner] = "ready"
      BY <1>1 DEF IInv, TypeOK, CleanDelete, CleanerOK, JobsOK, Loadable
    <2>3. \A b \in Builds : created[b] \in Nat
      <3>1. created \in [Builds -> Times \cup {0}]
        BY DEF IInv, TypeOK
      <3>2. \A x \in Times \cup {0} : x \in Nat
        BY TimesAssumption
      <3> QED
        BY <3>1, <3>2
    <2>4. disk \in [Builds -> {"unused", "partial", "ready", "removed", "pruned"}]
      BY DEF IInv, TypeOK
    <2> SUFFICES ASSUME NEW u \in Builds, disk'[u] = "pruned"
                 PROVE  \E b \in Builds : /\ disk'[b] = "ready" /\ program'[b] = program'[u]
                                          /\ created'[b] > created'[u]
      BY DEF PrunedAreSuperseded, Loadable
    <2>5. CASE u = v
      BY <2>1, <2>2, <2>5, <2>4
    <2>6. CASE u # v
      <3>1. PICK b \in Builds : disk[b] = "ready" /\ program[b] = program[u] /\ created[b] > created[u]
        BY <2>1, <2>6, <2>4 DEF IInv, PrunedAreSuperseded, Loadable
      <3>2. CASE b = v
        BY <2>1, <2>2, <2>3, <2>4, <3>1, <3>2
      <3>3. CASE b # v
        BY <2>1, <2>4, <3>1, <3>3
      <3> QED
        BY <3>2, <3>3
    <2> QED
      BY <2>5, <2>6
  <1> USE DEF IInv, TypeOK, PrunedAreSuperseded, Loadable, buildVars
  <1>2. ASSUME NEW b \in Builds, CompileBegin(b) PROVE PrunedAreSuperseded'
    BY <1>2 DEF CompileBegin, JobsOK
  <1>3. ASSUME NEW b \in Builds, NEW t \in Times, WriteManifest(b, t) PROVE PrunedAreSuperseded'
    BY <1>3 DEF WriteManifest, JobsOK
  <1>4. ASSUME NEW b \in Builds, CompileFail(b) PROVE PrunedAreSuperseded'
    BY <1>4 DEF CompileFail, JobsOK
  <1>5. CASE UNCHANGED <<disk, program, created>>
    BY <1>5
  <1> QED
    BY <1>2, <1>3, <1>4, <1>1, <1>5
       DEF Next, Compile, Cleanup, Initialize, StartBuild, JobComplete, CleanBegin, CleanReadRows,
           CleanReadSwitches, CleanReadPins, CleanEnd, InitBegin, InitPin, InitSend, InitLoaded, InitRecord,
           InitTouch, InitCopy, InitFail, InitUnpin, DeleteRow, SaveQuery, SaveCommit, Connect,
           Disconnect, Restart, vars

(* What a cleanup has covered stays covered: the pins it counted cannot be  *)
(* released before it ends, and every new reference is pinned or anchored.  *)
LEMMA CoverageStep == IInv /\ [Next]_vars => CoverageOK'
  <1> SUFFICES ASSUME IInv, [Next]_vars PROVE CoverageOK'
    OBVIOUS
  <1> USE DEF buildVars, cleanVars, switchVars, rowVars
  <1>1. CASE stage' \in {"idle", "rows"}
    BY <1>1 DEF CoverageOK
  <1>2. CASE CleanReadRows
    BY <1>2 DEF CleanReadRows, CoverageOK, Covered, RowReferences, Stored
  <1>3. CASE CleanReadSwitches
    BY <1>3 DEF CleanReadSwitches, CoverageOK, Covered, SwitchReferences, IInv, Stored
  <1>4. CASE CleanReadPins
    BY <1>4 DEF CleanReadPins, CoverageOK, Covered, IInv, Stored, TypeOK
  <1>5. ASSUME UNCHANGED <<stage, kept, pins>> PROVE CoverageOK'
    <2>1. ASSUME NEW b, Covered(b) PROVE Covered(b)'
      BY <1>5, <2>1 DEF Covered
    <2>2. ASSUME stage \in {"switches", "pins", "delete"}, NEW s \in (Stored \ unanchored)'
          PROVE  Covered(rows[s].build)'
      <3>1. CASE s \in Stored \ unanchored /\ rows'[s] = rows[s]
        BY <1>5, <2>2, <3>1 DEF IInv, CoverageOK, Covered
      <3>2. ASSUME NEW b \in Builds, Anchored(b), rows'[s].build = b PROVE Covered(rows[s].build)'
        BY <1>5, <2>2, <3>2 DEF IInv, CoverageOK, Covered, Anchored
      <3> QED
        BY <3>1, <3>2, RowSteps
    <2>3. ASSUME stage \in {"pins", "delete"}, NEW w \in connected', running'[w] # NoBuild
          PROVE  Covered(running[w])'
      <3>1. CASE w \in connected /\ running'[w] = running[w]
        BY <1>5, <2>3, <3>1 DEF IInv, CoverageOK, Covered
      <3>2. ASSUME NEW r \in Requests, InitLoaded(r) PROVE Covered(running[w])'
        <4>1. pins[req[r].build] > 0
          BY <3>2, HolderPinned DEF IInv, InitLoaded, HoldsPin
        <4>2. w \in connected /\ (running'[w] = req[r].build \/ running'[w] = running[w])
          BY <3>2 DEF InitLoaded, IInv, TypeOK
        <4> QED
          BY <1>5, <3>1, <4>1, <4>2 DEF Covered
      <3>3. ASSUME NEW r \in Requests, InitSend(r) PROVE w \in connected /\ running'[w] = running[w]
        BY <2>3, <3>3 DEF InitSend, IInv, TypeOK
      <3>4. ASSUME NEW x \in Switches, Connect(x) \/ Disconnect(x)
            PROVE  w \in connected /\ running'[w] = running[w]
        BY <2>3, <3>4 DEF Connect, Disconnect, IInv, TypeOK
      <3>5. CASE Restart
        BY <2>3, <3>5 DEF Restart
      <3>6. CASE UNCHANGED <<connected, running>>
        BY <2>3, <3>1, <3>6
      <3> QED
        BY <3>1, <3>2, <3>3, <3>4, <3>5, <3>6
           DEF Next, Compile, Cleanup, Initialize, StartBuild, CompileBegin, WriteManifest, CompileFail,
               JobComplete, CleanBegin, CleanReadRows, CleanReadSwitches, CleanReadPins, CleanDelete,
               CleanEnd, InitBegin, InitPin, InitRecord, InitTouch, InitCopy, InitFail, InitUnpin,
               DeleteRow, SaveQuery, SaveCommit, vars
    <2>4. stage = "delete" => \A b \in Builds : pins'[b] > 0 => b \in kept'
      BY <1>5 DEF IInv, CoverageOK
    <2> QED
      BY <1>5, <2>2, <2>3, <2>4 DEF CoverageOK
  <1>6. ASSUME NEW r \in Requests, InitPin(r) \/ InitUnpin(r) PROVE stage' = "idle"
    BY <1>6 DEF InitPin, InitUnpin, IInv, CleanerOK
  <1>7. ASSUME NEW b \in Builds, CleanBegin(b) PROVE stage' = "rows"
    BY <1>7 DEF CleanBegin
  <1>8. CASE CleanEnd \/ Restart
    BY <1>1, <1>8 DEF CleanEnd, Restart
  <1> QED
    BY <1>1, <1>2, <1>3, <1>4, <1>5, <1>6, <1>7, <1>8
       DEF Next, Compile, Cleanup, Initialize, StartBuild, CompileBegin, WriteManifest, CompileFail,
           JobComplete, CleanDelete, InitBegin, InitSend, InitLoaded, InitRecord, InitTouch, InitCopy,
           InitFail, DeleteRow, SaveQuery, SaveCommit, Connect, Disconnect, vars

-----------------------------------------------------------------------------
(* Init holds it and every step keeps it.                                   *)
THEOREM Invariance == Spec => []IInv
  <1>1. IInv /\ [Next]_vars => IInv'
    BY TypingStep, JobsStep, RequestsStep, PinsStep, CoverageStep, HeldStep, RunningStep,
       StatesStep, PrunedStep DEF IInv
  <1> QED
    BY InitIInv, <1>1, PTL DEF Spec

(***************************************************************************)
(* The variables keep their types; a counter of _PINNED never goes below   *)
(* zero, however the releases of use_build interleave with restarts.       *)
(***************************************************************************)
THEOREM TypeCorrect == Spec => []TypeOK
  <1>1. IInv => TypeOK
    BY DEF IInv
  <1> QED
    BY Invariance, <1>1, PTL

(***************************************************************************)
(* prune_builds never deletes a build inside use_build.                    *)
(***************************************************************************)
THEOREM HeldLoadable == Spec => []HeldBuildsLoadable
  <1>1. IInv => HeldBuildsLoadable
    BY DEF IInv
  <1> QED
    BY Invariance, <1>1, PTL

(***************************************************************************)
(* prune_builds never deletes the build that a connected switch runs,      *)
(* although the switches are read without their operation locks.           *)
(***************************************************************************)
THEOREM RunningLoadable == Spec => []RunningBuildsLoadable
  <1>1. IInv => RunningBuildsLoadable
    BY DEF IInv
  <1> QED
    BY Invariance, <1>1, PTL

(***************************************************************************)
(* A state can be replayed as long as something kept its build when it was *)
(* written; only a copy of a deleted state escapes.                        *)
(***************************************************************************)
THEOREM StatesStayReplayable == Spec => []StatesReplayable
  <1>1. IInv => StatesReplayable
    BY DEF IInv
  <1> QED
    BY Invariance, <1>1, PTL

(***************************************************************************)
(* Whatever cleanup deleted has a newer loadable build of the same program.*)
(***************************************************************************)
THEOREM OnlySupersededPruned == Spec => []PrunedAreSuperseded
  <1>1. IInv => PrunedAreSuperseded
    BY DEF IInv
  <1> QED
    BY Invariance, <1>1, PTL
=============================================================================
