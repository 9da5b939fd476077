--------------------------- MODULE Emulator_proofs ---------------------------
(***************************************************************************)
(* Proofs about Emulator, for any topologies, terminals and users, any     *)
(* number of operations and any length of the history of deployments.      *)
(***************************************************************************)
EXTENDS Emulator, FiniteSetTheorems, WellFoundedInduction, TLAPS

\* What may run where.  A new network is made only when the old one is gone.
Shape ==
  /\ op # Free => operations \in Numbers
  /\ op.kind \in {"load", "deploy"} => op.file \in Files
  /\ op.kind = "clear" => op.pc \in {"closing", "destroying", "releasing"}
  /\ op.pc \in {"thread", "reporting", "finishing"} => op.kind = "deploy"

\* No terminal is on offer while the network is replaced, and before and
\* after that they are those of the network.
Offered ==
  /\ TerminalsRun
  /\ op.pc \in {"destroying", "parsing", "creating", "starting", "cleaning", "terminals"} => clis = {}

\* NetworkIsReported, with what is different while it is replaced.
Running ==
  /\ alive # NoNetwork <=> status = "ready"
  /\ net = alive
  /\ alive # NoNetwork => alive.file \in Files /\ fields = alive.file

Gone == alive = NoNetwork /\ net = NoNetwork

Reported ==
  /\ op.pc \in {"free", "reading", "thread", "closing", "releasing"} /\ ~dirty =>
       Running /\ (topoFile # NoFile /\ alive # NoNetwork => topoFile = alive.file)
  /\ op.pc = "destroying" /\ ~dirty => Running
  /\ op.pc = "parsing"  => ~dirty /\ Gone
  /\ op.pc = "creating" => ~dirty /\ Gone /\ fields = op.file
  /\ op.pc \in {"starting", "terminals", "reporting", "finishing"} =>
       /\ ~dirty /\ alive = [number |-> operations, file |-> op.file] /\ net = alive
       /\ fields = op.file
  /\ op.pc \in {"destroying", "parsing", "creating", "starting", "cleaning", "terminals",
                "reporting", "finishing"} /\ op.kind # "clear" => topoFile = op.file
  /\ op.pc \in {"terminals", "reporting", "finishing"} => status = "ready"

\* Jobs are numbered as the operations, only that of the operation is
\* underway, and the last one that is ready describes what runs.
Listed ==
  /\ \A j \in Known : j <= operations
  /\ op.pc = "reading" => operations \notin Known
  /\ op.kind = "deploy" /\ op.pc # "reading" => operations \in Known
  /\ op.pc = "thread" => jobs[operations].status = "pending"
  /\ op.kind = "deploy" /\ op.pc \notin {"reading", "thread", "releasing"} =>
       jobs[operations].status = "running"
  /\ \A j \in Numbers : Underway(j) =>
       /\ j = operations /\ op.kind = "deploy"
       /\ op.pc \notin {"reading", "releasing"}
  /\ \A j \in Known : jobs[j].status = "ready" =>
       /\ jobs[j].topology \in Files
       /\ j = operations =>
            /\ op.pc \in {"free", "releasing"}
            /\ alive = [number |-> j, file |-> jobs[j].topology]
            /\ status = "ready"

IInv == TypeOK /\ Shape /\ Offered /\ Reported /\ Listed

-----------------------------------------------------------------------------
(* The history of deployments.                                              *)

\* A set of numbers has a least element.
LEMMA Least ==
  ASSUME NEW S \in SUBSET Nat, S # {}
  PROVE  Oldest(S) \in S /\ \A k \in S : Oldest(S) <= k
<1> DEFINE R == OpToRel(<, Nat)
<1>1. R = {x \in Nat \X Nat : x[1] < x[2]}
  BY DEF OpToRel
<1>2. IsWellFoundedOn(R, Nat)
  BY NatLessThanWellFounded
<1> HIDE DEF R
<1>3. PICK x \in S : \A y \in S : ~ (<<y, x>> \in R)
  BY <1>2, WFMin
<1>4. ASSUME NEW y \in S PROVE x <= y
  <2>1. <<y, x>> \in Nat \X Nat /\ <<y, x>>[1] = y /\ <<y, x>>[2] = x
    OBVIOUS
  <2>2. ~ (y < x)
    BY <1>1, <1>3, <2>1
  <2> QED BY <2>2
<1> QED BY <1>4 DEF Oldest

LEMMA KnownFinite == IsFiniteSet(Known) /\ Cardinality(Known) \in Nat /\ Known \subseteq Nat
<1>1. MaxOperations \in Int
  BY LimitsAssumption
<1>2. IsFiniteSet(Numbers)
  BY <1>1, FS_Interval DEF Numbers
<1>3. Known \subseteq Numbers /\ Numbers \subseteq Nat
  BY <1>1 DEF Known, Numbers
<1> QED BY <1>2, <1>3, FS_Subset, FS_CardinalityType

\* What AcceptJob does to the history: the new job, and at most one less.
LEMMA Registered ==
  ASSUME TypeOK, operations \in Numbers, operations \notin Known, AcceptJob,
         \A j \in Known : j <= operations
  PROVE  /\ jobs' \in [Numbers -> Job]
         /\ Cardinality(Known') <= MaxJobs
         /\ operations \in Known' /\ jobs'[operations].status = "pending"
         /\ \A j \in Numbers \ {operations} : jobs'[j] \in {jobs[j], NoJob}
         /\ \A j \in Known \ Known' :
              Cardinality({k \in Known' : k > j}) = MaxJobs
<1> DEFINE full == Cardinality(Known) >= MaxJobs
           new  == [status |-> "pending", topology |-> NoFile]
           gone == IF full THEN {Oldest(Known)} ELSE {}
<1>1. jobs' = [j \in Numbers |-> IF j = operations THEN new
                               ELSE IF full /\ j = Oldest(Known) THEN NoJob ELSE jobs[j]]
  BY DEF AcceptJob
<1>2. new \in Job /\ NoJob \in Job /\ new # NoJob
  BY DEF Job, NoJob
<1>3. Known' = (Known \ gone) \cup {operations}
  BY <1>1, <1>2 DEF Known
<1>4. MaxJobs \in Nat \ {0} /\ Cardinality(Known) <= MaxJobs
  BY LimitsAssumption DEF TypeOK
<1>5. /\ jobs' \in [Numbers -> Job]
      /\ operations \in Known' /\ jobs'[operations].status = "pending"
      /\ \A j \in Numbers \ {operations} : jobs'[j] \in {jobs[j], NoJob}
  BY <1>1, <1>2 DEF TypeOK, Known
<1>6. CASE ~full
  <2>1. Known' = Known \cup {operations}
    BY <1>3, <1>6
  <2>2. Cardinality(Known') = Cardinality(Known) + 1
    BY <2>1, KnownFinite, FS_AddElement
  <2>3. Cardinality(Known') <= MaxJobs
    BY <1>4, <1>6, <2>2, KnownFinite
  <2> QED BY <1>5, <2>1, <2>3
<1>7. CASE full
  <2>1. Cardinality(Known) = MaxJobs /\ Known # {}
    BY <1>4, <1>7, KnownFinite, FS_EmptySet
  <2>2. Oldest(Known) \in Known /\ \A k \in Known : Oldest(Known) <= k
    BY <2>1, KnownFinite, Least
  <2>3. IsFiniteSet(Known \ gone) /\ Cardinality(Known \ gone) = MaxJobs - 1
    BY <1>7, <2>1, <2>2, KnownFinite, FS_RemoveElement
  <2>4. Cardinality(Known') = MaxJobs
    <3>1. operations \notin Known \ gone
      OBVIOUS
    <3>2. Cardinality((Known \ gone) \cup {operations}) = MaxJobs
      BY <1>4, <2>3, <3>1, FS_AddElement
    <3> QED BY <1>3, <3>2
  <2>5. Known \ Known' = {Oldest(Known)}
    BY <1>3, <1>7, <2>2
  <2>6. \A k \in Known' : k > Oldest(Known)
    <3> HIDE DEF gone, full
    <3>1. operations \in Nat /\ Oldest(Known) \in Nat
      <4>1. operations \in Nat
        BY LimitsAssumption DEF Numbers
      <4>2. Oldest(Known) \in Nat
        BY <2>2, KnownFinite
      <4> QED BY <4>1, <4>2
    <3>2. operations > Oldest(Known)
      BY <2>2, <3>1
    <3>3. ASSUME NEW k \in Known, k # Oldest(Known) PROVE k > Oldest(Known)
      BY <2>2, <3>1, <3>3, KnownFinite
    <3> QED BY <1>3, <1>7, <3>2, <3>3 DEF gone, full
  <2>7. {k \in Known' : k > Oldest(Known)} = Known'
    BY <2>6
  <2>8. \A j \in Known \ Known' : j = Oldest(Known)
    BY <2>5
  <2>9. \A j \in Known \ Known' : Cardinality({k \in Known' : k > j}) = MaxJobs
    BY <2>4, <2>7, <2>8
  <2> QED BY <1>4, <1>5, <2>4, <2>9
<1> QED BY <1>6, <1>7

\* What an operation reports about its own job.
LEMMA JobReported ==
  ASSUME TypeOK, Shape, Listed, op.pc \notin {"free", "reading"},
         NEW x \in Job, x # NoJob, Reports(x)
  PROVE  /\ jobs' \in [Numbers -> Job] /\ Known' = Known
         /\ \A j \in Numbers :
              jobs'[j] = IF op.kind = "deploy" /\ j = operations THEN x ELSE jobs[j]
<1>1. operations \in Numbers
  BY DEF Shape, Free
<1>2. CASE op.kind = "deploy"
  <2>1. operations \in Known
    BY <1>2 DEF Listed
  <2> QED BY <1>1, <1>2, <2>1 DEF TypeOK, Reports, Known
<1>3. CASE op.kind # "deploy"
  BY <1>3 DEF TypeOK, Reports, Known
<1> QED BY <1>2, <1>3

\* The job of an operation that fails.
LEMMA FailedListed ==
  ASSUME IInv, op.pc \notin {"free", "reading", "releasing"}, NEW b, Fails(b), operations' = operations
  PROVE  jobs' \in [Numbers -> Job] /\ Known' = Known /\ Listed'
<1> DEFINE failed == [status |-> "failed", topology |-> NoFile]
<1>1. /\ jobs' \in [Numbers -> Job] /\ Known' = Known
      /\ \A j \in Numbers :
           jobs'[j] = IF op.kind = "deploy" /\ j = operations THEN failed ELSE jobs[j]
  <2>1. failed \in Job /\ failed # NoJob
    BY DEF Job, NoJob
  <2> QED BY <2>1, JobReported DEF IInv, Fails
<1>2. op.pc' = "releasing" /\ op.kind' = op.kind
  BY DEF IInv, TypeOK, Fails, Goes, Free
<1>3. ASSUME NEW j \in Numbers, Underway(j)' PROVE FALSE
  BY <1>1, <1>3 DEF IInv, Listed, Underway
<1>4. ASSUME NEW j \in Known, jobs'[j].status = "ready"
      PROVE  jobs'[j] = jobs[j] /\ j # operations
  BY <1>1, <1>4 DEF IInv, Listed, Known
<1>5. Listed'
  BY <1>1, <1>2, <1>3, <1>4 DEF IInv, Listed
<1> QED BY <1>1, <1>5

-----------------------------------------------------------------------------
(* The inductive invariant.                                                 *)

THEOREM Initially == Init => IInv
<1> SUFFICES ASSUME Init PROVE IInv
  OBVIOUS
<1>1. Known = {} /\ Cardinality(Known) <= MaxJobs
  BY FS_EmptySet, LimitsAssumption DEF Init, Known
<1>2. TypeOK
  <2>1. 0 \in 0..MaxOperations
    BY LimitsAssumption
  <2>2. NoJob \in Job
    BY DEF NoJob, Job
  <2> QED BY <1>1, <2>1, <2>2 DEF Init, TypeOK
<1>3. Shape /\ Offered /\ Reported
  BY DEF Init, Shape, Offered, TerminalsRun, Reported, Running, Free, NoNetwork
<1>4. Listed
  BY <1>1 DEF Init, Listed, Underway, Free, NoJob
<1> QED BY <1>2, <1>3, <1>4 DEF IInv

LEMMA BeginKeeps ==
  ASSUME IInv, NEW k \in {"load", "deploy", "clear"}, NEW f \in Files \cup {NoFile},
         k = "clear" <=> f = NoFile, Begin(k, f)
  PROVE  IInv'
<1>1. Known' = Known
  BY DEF Begin, jobVars, Known
<1>2. TypeOK'
  <2>1. operations' \in 0..MaxOperations
    BY LimitsAssumption DEF IInv, TypeOK, Begin
  <2>2. op' \in [kind : {"load", "deploy", "clear"}, file : Files \cup {NoFile},
                 pc : {"reading", "closing"}]
    BY DEF Begin
  <2> QED BY <1>1, <2>1, <2>2 DEF IInv, TypeOK, Begin, runnerVars, cliVars
<1>3. Shape' /\ operations' \in Numbers
  <2>1. operations' \in Numbers
    BY LimitsAssumption DEF IInv, TypeOK, Begin, Numbers
  <2> QED BY <2>1 DEF Begin, Shape
<1>4. Offered'
  BY DEF IInv, Begin, TypeOK, Goes, Network, NoNetwork, Terminal, Free, runnerVars, jobVars, cliVars, Shape, Offered, TerminalsRun, Reported, Gone, Running
<1>5. Reported'
  BY <1>1, NamesAssumption DEF IInv, Begin, TypeOK, Goes, Network, NoNetwork, Terminal, Free, runnerVars, jobVars, cliVars, Shape, Reported, Running, Gone, FileAfter
<1>6. Listed'
  <2>1. \A j \in Known : j <= operations /\ j \in Numbers
    BY DEF IInv, Listed, Known
  <2>2. \A j \in Known : j < operations' /\ j # operations'
    BY <2>1, LimitsAssumption DEF IInv, TypeOK, Begin, Numbers
  <2>3. ASSUME NEW j \in Numbers, Underway(j)' PROVE FALSE
    <3>1. Underway(j) /\ op.kind = "none"
      BY <2>3 DEF Underway, Begin, Free
    <3> QED BY <3>1 DEF IInv, Listed
  <2>4. /\ op.pc' # "thread" /\ (op.kind' = "deploy" => op.pc' = "reading")
        /\ jobs' = jobs
    BY DEF Begin
  <2>5. \A j \in Known' : j <= operations' /\ j # operations'
    BY <1>1, <2>1, <2>2, <1>3, LimitsAssumption DEF Numbers
  <2>6. operations' \notin Known'
    BY <2>5
  <2>7. \A j \in Known' : j <= operations'
    BY <2>5
  <2>8. \A j \in Known' : (jobs[j].status = "ready")' => (jobs[j].topology)' \in Files
    BY <1>1, <2>4 DEF IInv, Listed
  <2> QED BY <2>3, <2>4, <2>5, <2>6, <2>7, <2>8 DEF Listed
<1> QED BY <1>2, <1>3, <1>4, <1>5, <1>6 DEF IInv

LEMMA RefuseKeeps ==
  ASSUME IInv, Refuse
  PROVE  IInv'
<1>1. Known' = Known
  BY DEF Refuse, jobVars, Known
<1>2. TypeOK'
  BY <1>1, NamesAssumption DEF IInv, Refuse, TypeOK, Goes, Network, NoNetwork, Terminal, Free, runnerVars, jobVars, cliVars
<1>3. Shape'
  BY DEF IInv, Refuse, TypeOK, Goes, Network, NoNetwork, Terminal, Free, runnerVars, jobVars, cliVars, Shape
<1>4. Offered'
  BY DEF IInv, Refuse, TypeOK, Goes, Network, NoNetwork, Terminal, Free, runnerVars, jobVars, cliVars, Shape, Offered, TerminalsRun, Reported, Gone, Running
<1>5. Reported'
  BY <1>1, NamesAssumption DEF IInv, Refuse, TypeOK, Goes, Network, NoNetwork, Terminal, Free, runnerVars, jobVars, cliVars, Shape, Reported, Running, Gone, FileAfter
<1>6. Listed'
  BY <1>1 DEF IInv, Refuse, TypeOK, Goes, Network, NoNetwork, Terminal, Free, runnerVars, jobVars, cliVars, Shape, Reported, Running, Gone, Listed, Underway
<1> QED BY <1>2, <1>3, <1>4, <1>5, <1>6 DEF IInv

LEMMA AcceptKeeps ==
  ASSUME IInv, Accept
  PROVE  IInv'
<1>1. Known' = Known
  BY DEF Accept, jobVars, Known
<1>2. TypeOK'
  BY <1>1, NamesAssumption DEF IInv, Accept, TypeOK, Goes, Network, NoNetwork, Terminal, Free, runnerVars, jobVars, cliVars
<1>3. Shape'
  BY DEF IInv, Accept, TypeOK, Goes, Network, NoNetwork, Terminal, Free, runnerVars, jobVars, cliVars, Shape
<1>4. Offered'
  BY DEF IInv, Accept, TypeOK, Goes, Network, NoNetwork, Terminal, Free, runnerVars, jobVars, cliVars, Shape, Offered, TerminalsRun, Reported, Gone, Running
<1>5. Reported'
  BY <1>1, NamesAssumption DEF IInv, Accept, TypeOK, Goes, Network, NoNetwork, Terminal, Free, runnerVars, jobVars, cliVars, Shape, Reported, Running, Gone, FileAfter
<1>6. Listed'
  BY <1>1 DEF IInv, Accept, TypeOK, Goes, Network, NoNetwork, Terminal, Free, runnerVars, jobVars, cliVars, Shape, Reported, Running, Gone, Listed, Underway
<1> QED BY <1>2, <1>3, <1>4, <1>5, <1>6 DEF IInv

LEMMA ClosedKeeps ==
  ASSUME IInv, Closed
  PROVE  IInv'
<1>1. Known' = Known
  BY DEF Closed, jobVars, Known
<1>2. TypeOK'
  BY <1>1, NamesAssumption DEF IInv, Closed, NotOffered, Shape, TypeOK, Goes, Network, NoNetwork, Terminal, Free, runnerVars, jobVars, cliVars
<1>3. Shape'
  BY DEF IInv, Closed, NotOffered, TypeOK, Goes, Network, NoNetwork, Terminal, Free, runnerVars, jobVars, cliVars, Shape
<1>4. Offered'
  BY DEF IInv, Closed, NotOffered, TypeOK, Goes, Network, NoNetwork, Terminal, Free, runnerVars, jobVars, cliVars, Shape, Offered, TerminalsRun, Reported, Gone, Running
<1>5. Reported'
  BY <1>1, NamesAssumption DEF IInv, Closed, NotOffered, Shape, TypeOK, Goes, Network, NoNetwork, Terminal, Free, runnerVars, jobVars, cliVars, Shape, Reported, Running, Gone, FileAfter
<1>6. Listed'
  BY <1>1 DEF IInv, Closed, NotOffered, TypeOK, Goes, Network, NoNetwork, Terminal, Free, runnerVars, jobVars, cliVars, Shape, Reported, Running, Gone, Listed, Underway
<1> QED BY <1>2, <1>3, <1>4, <1>5, <1>6 DEF IInv

LEMMA ParseKeeps ==
  ASSUME IInv, Parse
  PROVE  IInv'
<1>1. Known' = Known
  BY DEF Parse, jobVars, Known
<1>2. TypeOK'
  BY <1>1, NamesAssumption DEF IInv, Parse, TypeOK, Goes, Network, NoNetwork, Terminal, Free, runnerVars, jobVars, cliVars
<1>3. Shape'
  BY DEF IInv, Parse, TypeOK, Goes, Network, NoNetwork, Terminal, Free, runnerVars, jobVars, cliVars, Shape
<1>4. Offered'
  BY DEF IInv, Parse, TypeOK, Goes, Network, NoNetwork, Terminal, Free, runnerVars, jobVars, cliVars, Shape, Offered, TerminalsRun, Reported, Gone, Running
<1>5. Reported'
  BY <1>1, NamesAssumption DEF IInv, Parse, TypeOK, Goes, Network, NoNetwork, Terminal, Free, runnerVars, jobVars, cliVars, Shape, Reported, Running, Gone, FileAfter
<1>6. Listed'
  BY <1>1 DEF IInv, Parse, TypeOK, Goes, Network, NoNetwork, Terminal, Free, runnerVars, jobVars, cliVars, Shape, Reported, Running, Gone, Listed, Underway
<1> QED BY <1>2, <1>3, <1>4, <1>5, <1>6 DEF IInv

LEMMA CreateKeeps ==
  ASSUME IInv, Create
  PROVE  IInv'
<1>1. Known' = Known
  BY DEF Create, jobVars, Known
<1>2. TypeOK'
  BY <1>1, NamesAssumption DEF IInv, Create, TypeOK, Shape, Reported, Gone, Numbers, Goes, Network, NoNetwork, Terminal, Free, runnerVars, jobVars, cliVars
<1>3. Shape'
  BY DEF IInv, Create, TypeOK, Goes, Network, NoNetwork, Terminal, Free, runnerVars, jobVars, cliVars, Shape
<1>4. Offered'
  BY DEF IInv, Create, TypeOK, Goes, Network, NoNetwork, Terminal, Free, runnerVars, jobVars, cliVars, Shape, Offered, TerminalsRun, Reported, Gone, Running
<1>5. Reported'
  BY <1>1, NamesAssumption DEF IInv, Create, TypeOK, Shape, Reported, Gone, Numbers, Goes, Network, NoNetwork, Terminal, Free, runnerVars, jobVars, cliVars, Shape, Reported, Running, Gone, FileAfter
<1>6. Listed'
  BY <1>1 DEF IInv, Create, TypeOK, Goes, Network, NoNetwork, Terminal, Free, runnerVars, jobVars, cliVars, Shape, Reported, Running, Gone, Listed, Underway
<1> QED BY <1>2, <1>3, <1>4, <1>5, <1>6 DEF IInv

LEMMA StartKeeps ==
  ASSUME IInv, Start
  PROVE  IInv'
<1>1. Known' = Known
  BY DEF Start, jobVars, Known
<1>2. TypeOK'
  BY <1>1, NamesAssumption DEF IInv, Start, TypeOK, Goes, Network, NoNetwork, Terminal, Free, runnerVars, jobVars, cliVars
<1>3. Shape'
  BY DEF IInv, Start, TypeOK, Goes, Network, NoNetwork, Terminal, Free, runnerVars, jobVars, cliVars, Shape
<1>4. Offered'
  BY DEF IInv, Start, TypeOK, Goes, Network, NoNetwork, Terminal, Free, runnerVars, jobVars, cliVars, Shape, Offered, TerminalsRun, Reported, Gone, Running
<1>5. Reported'
  BY <1>1, NamesAssumption DEF IInv, Start, TypeOK, Goes, Network, NoNetwork, Terminal, Free, runnerVars, jobVars, cliVars, Shape, Reported, Running, Gone, FileAfter
<1>6. Listed'
  BY <1>1 DEF IInv, Start, TypeOK, Goes, Network, NoNetwork, Terminal, Free, runnerVars, jobVars, cliVars, Shape, Reported, Running, Gone, Listed, Underway
<1> QED BY <1>2, <1>3, <1>4, <1>5, <1>6 DEF IInv

LEMMA InitTerminalsKeeps ==
  ASSUME IInv, InitTerminals
  PROVE  IInv'
<1>1. Known' = Known
  BY DEF InitTerminals, jobVars, Known
<1>2. TypeOK'
  BY <1>1, NamesAssumption DEF IInv, InitTerminals, TypeOK, Shape, Reported, Gone, Numbers, Goes, Network, NoNetwork, Terminal, Free, runnerVars, jobVars, cliVars
<1>3. Shape'
  BY DEF IInv, InitTerminals, TypeOK, Goes, Network, NoNetwork, Terminal, Free, runnerVars, jobVars, cliVars, Shape
<1>4. Offered'
  BY DEF IInv, InitTerminals, TypeOK, Goes, Network, NoNetwork, Terminal, Free, runnerVars, jobVars, cliVars, Shape, Offered, TerminalsRun, Reported, Gone, Running
<1>5. Reported'
  BY <1>1, NamesAssumption DEF IInv, InitTerminals, TypeOK, Shape, Reported, Gone, Numbers, Goes, Network, NoNetwork, Terminal, Free, runnerVars, jobVars, cliVars, Shape, Reported, Running, Gone, FileAfter
<1>6. Listed'
  BY <1>1 DEF IInv, InitTerminals, TypeOK, Goes, Network, NoNetwork, Terminal, Free, runnerVars, jobVars, cliVars, Shape, Reported, Running, Gone, Listed, Underway
<1> QED BY <1>2, <1>3, <1>4, <1>5, <1>6 DEF IInv

LEMMA ReleaseKeeps ==
  ASSUME IInv, Release
  PROVE  IInv'
<1>1. Known' = Known
  BY DEF Release, jobVars, Known
<1>2. TypeOK'
  BY <1>1, NamesAssumption DEF IInv, Release, TypeOK, Goes, Network, NoNetwork, Terminal, Free, runnerVars, jobVars, cliVars
<1>3. Shape'
  BY DEF IInv, Release, TypeOK, Goes, Network, NoNetwork, Terminal, Free, runnerVars, jobVars, cliVars, Shape
<1>4. Offered'
  BY DEF IInv, Release, TypeOK, Goes, Network, NoNetwork, Terminal, Free, runnerVars, jobVars, cliVars, Shape, Offered, TerminalsRun, Reported, Gone, Running
<1>5. Reported'
  BY <1>1, NamesAssumption DEF IInv, Release, TypeOK, Goes, Network, NoNetwork, Terminal, Free, runnerVars, jobVars, cliVars, Shape, Reported, Running, Gone, FileAfter
<1>6. Listed'
  BY <1>1 DEF IInv, Release, TypeOK, Goes, Network, NoNetwork, Terminal, Free, runnerVars, jobVars, cliVars, Shape, Reported, Running, Gone, Listed, Underway
<1> QED BY <1>2, <1>3, <1>4, <1>5, <1>6 DEF IInv

LEMMA CloseNextKeeps ==
  ASSUME IInv, NEW c \in clis, CloseNext(c)
  PROVE  IInv'
<1>1. Known' = Known
  BY DEF CloseNext, jobVars, Known
<1>2. TypeOK'
  BY <1>1, NamesAssumption DEF IInv, CloseNext, TypeOK, Goes, Network, NoNetwork, Terminal, Free, runnerVars, jobVars, cliVars
<1>3. Shape'
  BY DEF IInv, CloseNext, TypeOK, Goes, Network, NoNetwork, Terminal, Free, runnerVars, jobVars, cliVars, Shape
<1>4. Offered'
  BY DEF IInv, CloseNext, TypeOK, Goes, Network, NoNetwork, Terminal, Free, runnerVars, jobVars, cliVars, Shape, Offered, TerminalsRun, Reported, Gone, Running
<1>5. Reported'
  BY <1>1, NamesAssumption DEF IInv, CloseNext, TypeOK, Goes, Network, NoNetwork, Terminal, Free, runnerVars, jobVars, cliVars, Shape, Reported, Running, Gone, FileAfter
<1>6. Listed'
  BY <1>1 DEF IInv, CloseNext, TypeOK, Goes, Network, NoNetwork, Terminal, Free, runnerVars, jobVars, cliVars, Shape, Reported, Running, Gone, Listed, Underway
<1> QED BY <1>2, <1>3, <1>4, <1>5, <1>6 DEF IInv

LEMMA CloseFailsKeeps ==
  ASSUME IInv, NEW c \in clis, CloseFails(c)
  PROVE  IInv'
<1>1. jobs' \in [Numbers -> Job] /\ Known' = Known /\ Listed'
  BY FailedListed DEF CloseFails
<1>2. TypeOK'
  BY <1>1, NamesAssumption DEF IInv, CloseFails, Fails, TypeOK, Goes, Network, NoNetwork, Terminal, Free, runnerVars, jobVars, cliVars, FileAfter
<1>3. Shape'
  BY DEF IInv, CloseFails, Fails, TypeOK, Goes, Network, NoNetwork, Terminal, Free, runnerVars, jobVars, cliVars, Shape
<1>4. Offered'
  BY DEF IInv, CloseFails, Fails, TypeOK, Goes, Network, NoNetwork, Terminal, Free, runnerVars, jobVars, cliVars, Shape, Offered, TerminalsRun, Reported, Gone, Running
<1>5. Reported'
  BY <1>1, NamesAssumption DEF IInv, CloseFails, Fails, TypeOK, Goes, Network, NoNetwork, Terminal, Free, runnerVars, jobVars, cliVars, Shape, Reported, Running, Gone, FileAfter
<1> QED BY <1>1, <1>2, <1>3, <1>4, <1>5 DEF IInv

LEMMA CleanUpKeeps ==
  ASSUME IInv, CleanUp
  PROVE  IInv'
<1>1. jobs' \in [Numbers -> Job] /\ Known' = Known /\ Listed'
  BY FailedListed DEF CleanUp
<1>2. TypeOK'
  <2>1. topoFile' \in Files \cup {NoFile} /\ fields' \in Files \cup {NoFile}
    BY DEF IInv, TypeOK, CleanUp, Fails, FileAfter, Destroyed, DestroyFails, Free
  <2>2. {net', alive'} \subseteq Network \cup {NoNetwork} /\ dirty' \in BOOLEAN
    BY DEF IInv, TypeOK, CleanUp, Destroyed, DestroyFails
  <2>3. op' = [op EXCEPT !.pc = "releasing"] /\ op # Free
    BY DEF CleanUp, Fails, Goes, Free
  <2> QED BY <1>1, <2>1, <2>2, <2>3 DEF IInv, TypeOK, CleanUp, cliVars
<1>3. Shape'
  BY DEF IInv, CleanUp, Fails, Destroyed, DestroyFails, TypeOK, Goes, Network, NoNetwork, Terminal, Free, runnerVars, jobVars, cliVars, Shape
<1>4. Offered'
  BY DEF IInv, CleanUp, Fails, Destroyed, DestroyFails, TypeOK, Goes, Network, NoNetwork, Terminal, Free, runnerVars, jobVars, cliVars, Shape, Offered, TerminalsRun, Reported, Gone, Running
<1>5. Reported'
  BY <1>1, NamesAssumption DEF IInv, CleanUp, Fails, Destroyed, DestroyFails, TypeOK, Goes, Network, NoNetwork, Terminal, Free, runnerVars, jobVars, cliVars, Shape, Reported, Running, Gone, FileAfter
<1> QED BY <1>1, <1>2, <1>3, <1>4, <1>5 DEF IInv

LEMMA FinishKeeps ==
  ASSUME IInv, Finish
  PROVE  IInv'
<1>1. /\ jobs' \in [Numbers -> Job] /\ Known' = Known
      /\ \A j \in Numbers :
           jobs'[j] = IF op.kind = "deploy" /\ j = operations THEN [status |-> "ready", topology |-> fields] ELSE jobs[j]
  <2>1. [status |-> "ready", topology |-> fields] \in Job /\ [status |-> "ready", topology |-> fields] # NoJob
    BY DEF IInv, TypeOK, Job, NoJob, Finish
  <2> QED BY <2>1, JobReported DEF IInv, Finish
<1>2. TypeOK'
  BY <1>1, NamesAssumption DEF IInv, Finish, TypeOK, Goes, Network, NoNetwork, Terminal, Free, runnerVars, jobVars, cliVars
<1>3. Shape'
  BY DEF IInv, Finish, TypeOK, Goes, Network, NoNetwork, Terminal, Free, runnerVars, jobVars, cliVars, Shape
<1>4. Offered'
  BY DEF IInv, Finish, TypeOK, Goes, Network, NoNetwork, Terminal, Free, runnerVars, jobVars, cliVars, Shape, Offered, TerminalsRun, Reported, Gone, Running
<1>5. Reported'
  BY <1>1, NamesAssumption DEF IInv, Finish, TypeOK, Goes, Network, NoNetwork, Terminal, Free, runnerVars, jobVars, cliVars, Shape, Reported, Running, Gone, FileAfter
<1>6. Listed'
  <2>1. op.kind = "deploy" /\ op.pc' = "releasing" /\ op.kind' = op.kind
    BY DEF IInv, TypeOK, Shape, Finish, Goes, Free
  <2>2. /\ alive = [number |-> operations, file |-> fields] /\ fields \in Files
        /\ status = "ready" /\ jobs'[operations] = [status |-> "ready", topology |-> fields]
    BY <1>1, <2>1 DEF IInv, Shape, Reported, Finish, Free
  <2>3. ASSUME NEW j \in Numbers, Underway(j)' PROVE FALSE
    BY <1>1, <2>1, <2>2, <2>3 DEF IInv, Listed, Underway
  <2>4. ASSUME NEW j \in Known, j # operations PROVE jobs'[j] = jobs[j]
    BY <1>1, <2>4 DEF Known
  <2> QED BY <1>1, <2>1, <2>2, <2>3, <2>4 DEF IInv, Listed, Finish, runnerVars
<1> QED BY <1>2, <1>3, <1>4, <1>5, <1>6 DEF IInv

LEMMA DestroyKeeps ==
  ASSUME IInv, Destroy
  PROVE  IInv'
<1>1. jobs' \in [Numbers -> Job] /\ Known' = Known /\ Listed'
  <2>1. CASE jobs' = jobs /\ op.pc' \in {"releasing", "parsing"} /\ op.kind' = op.kind /\ (op.pc' = "releasing" => op.kind = "clear")
    BY <2>1 DEF IInv, TypeOK, Destroy, Shape, Listed, Underway, Known
  <2>2. CASE Fails(TRUE)
    BY <2>2, FailedListed DEF Destroy
  <2> QED BY <2>1, <2>2 DEF IInv, TypeOK, Destroy, Goes, Free
<1>2. /\ op # Free /\ op.kind' = op.kind /\ op.file' = op.file
      /\ \E pc \in {"parsing", "releasing"} : op' = [op EXCEPT !.pc = pc] /\ op.pc' = pc
  <2>1. op # Free /\ \E pc \in {"parsing", "releasing"} : op' = [op EXCEPT !.pc = pc]
    <3>1. op # Free /\ (op' = [op EXCEPT !.pc = "parsing"] \/ op' = [op EXCEPT !.pc = "releasing"])
      <4>1. op # Free
        BY DEF Destroy, Free
      <4>2. Goes("parsing") \/ Goes("releasing")
        BY DEF Destroy, Fails
      <4> QED BY <4>1, <4>2 DEF Goes
    <3> QED BY <3>1
  <2> QED BY <2>1 DEF IInv, TypeOK
<1>3. TypeOK'
  <2>1. topoFile' \in Files \cup {NoFile} /\ fields' \in Files \cup {NoFile}
    BY DEF IInv, TypeOK, Destroy, Fails, FileAfter, Destroyed, DestroyFails, Free
  <2>2. /\ {net', alive'} \subseteq Network \cup {NoNetwork} /\ dirty' \in BOOLEAN
        /\ status' \in {"idle", "starting", "ready", "failed"}
    BY DEF IInv, TypeOK, Destroy, Destroyed, DestroyFails
  <2> QED BY <1>1, <1>2, <2>1, <2>2 DEF IInv, TypeOK, Destroy, cliVars
<1>4. Shape' /\ Offered'
  <2>1. clis = {} /\ clis' = {} /\ operations' = operations
    BY DEF IInv, Offered, Destroy, cliVars
  <2>2. op.pc' = "parsing" => op.kind # "clear"
    BY DEF Destroy, Fails, Goes, IInv, TypeOK, Free
  <2> QED BY <1>2, <2>1, <2>2 DEF IInv, Shape, Offered, TerminalsRun, Free
<1>5. Reported'
  <2>1. CASE Fails(TRUE) /\ DestroyFails
    BY <1>2, <2>1 DEF Reported, Fails, Goes, DestroyFails, TypeOK, IInv
  <2>2. CASE Destroyed /\ status' = "idle" /\ op.pc' = "releasing"
    BY <1>2, <2>2 DEF Reported, Destroyed, Running
  <2>3. CASE Destroyed /\ op.pc' = "parsing" /\ topoFile' = topoFile /\ op.kind # "clear"
    BY <1>2, <2>3 DEF IInv, Reported, Destroyed, Gone, Destroy
  <2> QED BY <1>2, <2>1, <2>2, <2>3 DEF Destroy, Goes, IInv, TypeOK, Free
<1> QED BY <1>1, <1>3, <1>4, <1>5 DEF IInv

\* The job of a deployment that goes on.
LEMMA RunningListed ==
  ASSUME IInv, op.kind = "deploy", op.pc \notin {"free", "reading", "releasing"},
         NEW x \in Job, x.status = "running", Reports(x), operations' = operations,
         op.kind' = "deploy", op.pc' \notin {"free", "reading", "thread", "releasing"}
  PROVE  jobs' \in [Numbers -> Job] /\ Known' = Known /\ Listed'
<1>1. /\ jobs' \in [Numbers -> Job] /\ Known' = Known
      /\ \A j \in Numbers : jobs'[j] = IF j = operations THEN x ELSE jobs[j]
  BY JobReported DEF IInv, NoJob
<1>2. operations \in Known /\ operations \in Numbers
  BY DEF IInv, Listed, Known
<1>3. ASSUME NEW j \in Numbers, Underway(j)' PROVE j = operations
  BY <1>1, <1>3 DEF IInv, Listed, Underway
<1>4. ASSUME NEW j \in Known, jobs'[j].status = "ready"
      PROVE  jobs'[j] = jobs[j] /\ j # operations
  BY <1>1, <1>4 DEF IInv, Listed, Known
<1>5. Listed'
  BY <1>1, <1>2, <1>3, <1>4 DEF IInv, Listed
<1> QED BY <1>1, <1>5

LEMMA ThreadStartsKeeps ==
  ASSUME IInv, ThreadStarts
  PROVE  IInv'
<1>1. jobs' \in [Numbers -> Job] /\ Known' = Known /\ Listed'
  <2> DEFINE x == [jobs[operations] EXCEPT !.status = "running"]
  <2>1. /\ op.kind = "deploy" /\ op.kind' = "deploy" /\ operations \in Known
        /\ op.pc' \in {"closing", "finishing"}
    BY DEF IInv, TypeOK, Shape, Listed, ThreadStarts, Goes, Free
  <2>2. x \in Job /\ x.status = "running"
    BY <2>1 DEF IInv, TypeOK, Shape, Reported, Listed, Known, Job, ThreadStarts
  <2> QED BY <2>1, <2>2, RunningListed DEF ThreadStarts
<1>2. TypeOK'
  BY <1>1, NamesAssumption DEF IInv, ThreadStarts, TypeOK, Goes, Network, NoNetwork, Terminal, Free, runnerVars, jobVars, cliVars
<1>3. Shape'
  BY DEF IInv, ThreadStarts, TypeOK, Goes, Network, NoNetwork, Terminal, Free, runnerVars, jobVars, cliVars, Shape
<1>4. Offered'
  BY DEF IInv, ThreadStarts, TypeOK, Goes, Network, NoNetwork, Terminal, Free, runnerVars, jobVars, cliVars, Shape, Offered, TerminalsRun, Reported, Gone, Running
<1>5. Reported'
  BY <1>1, NamesAssumption DEF IInv, ThreadStarts, TypeOK, Goes, Network, NoNetwork, Terminal, Free, runnerVars, jobVars, cliVars, Shape, Reported, Running, Gone, FileAfter
<1> QED BY <1>1, <1>2, <1>3, <1>4, <1>5 DEF IInv

LEMMA ReportKeeps ==
  ASSUME IInv, Report
  PROVE  IInv'
<1>1. jobs' \in [Numbers -> Job] /\ Known' = Known /\ Listed'
  <2> DEFINE x == [jobs[operations] EXCEPT !.topology = fields]
  <2>1. /\ op.kind = "deploy" /\ op.kind' = "deploy" /\ operations \in Known
        /\ op.pc' \in {"closing", "finishing"}
    BY DEF IInv, TypeOK, Shape, Listed, Report, Goes, Free
  <2>2. x \in Job /\ x.status = "running"
    BY <2>1 DEF IInv, TypeOK, Shape, Reported, Listed, Known, Job, Report
  <2> QED BY <2>1, <2>2, RunningListed DEF Report
<1>2. TypeOK'
  BY <1>1, NamesAssumption DEF IInv, Report, TypeOK, Goes, Network, NoNetwork, Terminal, Free, runnerVars, jobVars, cliVars
<1>3. Shape'
  BY DEF IInv, Report, TypeOK, Goes, Network, NoNetwork, Terminal, Free, runnerVars, jobVars, cliVars, Shape
<1>4. Offered'
  BY DEF IInv, Report, TypeOK, Goes, Network, NoNetwork, Terminal, Free, runnerVars, jobVars, cliVars, Shape, Offered, TerminalsRun, Reported, Gone, Running
<1>5. Reported'
  BY <1>1, NamesAssumption DEF IInv, Report, TypeOK, Goes, Network, NoNetwork, Terminal, Free, runnerVars, jobVars, cliVars, Shape, Reported, Running, Gone, FileAfter
<1> QED BY <1>1, <1>2, <1>3, <1>4, <1>5 DEF IInv

LEMMA ThreadFailsKeeps ==
  ASSUME IInv, ThreadFails
  PROVE  IInv'
<1>1. /\ jobs' = [jobs EXCEPT ![operations] = NoJob] /\ operations \in Known
      /\ Known' = Known \ {operations} /\ Cardinality(Known') <= MaxJobs
  <2>1. jobs' = [jobs EXCEPT ![operations] = NoJob] /\ operations \in Known
    BY DEF IInv, Shape, Listed, ThreadFails, Reports
  <2>2. Known' = Known \ {operations}
    BY <2>1 DEF IInv, TypeOK, Known
  <2>3. Cardinality(Known') <= Cardinality(Known)
    BY <2>2, KnownFinite, FS_Subset
  <2>4. Cardinality(Known) <= MaxJobs /\ MaxJobs \in Nat /\ Cardinality(Known') \in Nat
    BY <2>2, KnownFinite, FS_Subset, FS_CardinalityType, LimitsAssumption DEF IInv, TypeOK
  <2> QED BY <2>1, <2>2, <2>3, <2>4, KnownFinite
<1>2. TypeOK'
  BY <1>1, NamesAssumption DEF IInv, ThreadFails, TypeOK, Goes, Network, NoNetwork, Terminal, Free, runnerVars, jobVars, cliVars, Job, NoJob
<1>3. Shape'
  BY DEF IInv, ThreadFails, TypeOK, Goes, Network, NoNetwork, Terminal, Free, runnerVars, jobVars, cliVars, Shape
<1>4. Offered'
  BY DEF IInv, ThreadFails, TypeOK, Goes, Network, NoNetwork, Terminal, Free, runnerVars, jobVars, cliVars, Shape, Offered, TerminalsRun, Reported, Gone, Running
<1>5. Reported'
  BY <1>1, NamesAssumption DEF IInv, ThreadFails, TypeOK, Goes, Network, NoNetwork, Terminal, Free, runnerVars, jobVars, cliVars, Shape, Reported, Running, Gone, FileAfter
<1>6. Listed'
  BY <1>1 DEF IInv, TypeOK, ThreadFails, Free, runnerVars, Listed, Underway, Known, NoJob
<1> QED BY <1>1, <1>2, <1>3, <1>4, <1>5, <1>6 DEF IInv

LEMMA AcceptJobKeeps ==
  ASSUME IInv, AcceptJob
  PROVE  IInv'
<1>1. /\ jobs' \in [Numbers -> Job] /\ Cardinality(Known') <= MaxJobs
      /\ operations \in Known' /\ jobs'[operations].status = "pending"
      /\ \A j \in Numbers \ {operations} : jobs'[j] \in {jobs[j], NoJob}
  BY Registered DEF IInv, Shape, Listed, AcceptJob, Free
<1>2. TypeOK'
  BY <1>1, NamesAssumption DEF IInv, AcceptJob, TypeOK, Goes, Network, NoNetwork, Terminal, Free, runnerVars, jobVars, cliVars
<1>3. Shape'
  BY DEF IInv, AcceptJob, TypeOK, Goes, Network, NoNetwork, Terminal, Free, runnerVars, jobVars, cliVars, Shape
<1>4. Offered'
  BY DEF IInv, AcceptJob, TypeOK, Goes, Network, NoNetwork, Terminal, Free, runnerVars, jobVars, cliVars, Shape, Offered, TerminalsRun, Reported, Gone, Running
<1>5. Reported'
  BY <1>1, NamesAssumption DEF IInv, AcceptJob, TypeOK, Goes, Network, NoNetwork, Terminal, Free, runnerVars, jobVars, cliVars, Shape, Reported, Running, Gone, FileAfter
<1>6. Listed'
  BY <1>1 DEF IInv, TypeOK, AcceptJob, Goes, Free, runnerVars, Shape, Listed, Underway, Known, NoJob
<1> QED BY <1>1, <1>2, <1>3, <1>4, <1>5, <1>6 DEF IInv

\* Commands change nothing that the invariant speaks of but their own variables.
LEMMA CommandKeeps ==
  ASSUME IInv, NEW u \in Users,
         Command(u) \/ CommandEnds(u) \/ \E c \in clis : Fetch(u, c)
  PROVE  IInv'
<1>1. UNCHANGED <<runnerVars, op, jobVars, clis, stopped>> /\ Known' = Known
  BY DEF Command, Check, Send, LeaveLoop, CommandEnds, Fetch, jobVars, Known
<1>2. waiting' \subseteq Terminal
  BY DEF IInv, TypeOK, Command, Check, Send, LeaveLoop, CommandEnds, Fetch, NoCmd
<1>3. cmd' \in [Users -> [pc : {"fetched", "locked", "waiting"}, cli : Terminal] \cup {NoCmd}]
  BY DEF IInv, TypeOK, Command, Check, Send, LeaveLoop, CommandEnds, Fetch, Goto, NoCmd
<1>4. TypeOK'
  BY <1>1, <1>2, <1>3 DEF IInv, TypeOK, runnerVars, jobVars
<1>5. Shape' /\ Offered' /\ Reported'
  BY <1>1 DEF IInv, Shape, Offered, TerminalsRun, Reported, Running, Gone, runnerVars, jobVars
<1>6. Listed'
  BY <1>1 DEF IInv, Listed, Underway, runnerVars, jobVars
<1> QED BY <1>4, <1>5, <1>6 DEF IInv

THEOREM Stepwise == IInv /\ [Next]_vars => IInv'
<1> SUFFICES ASSUME IInv, [Next]_vars PROVE IInv'
  OBVIOUS
<1>1. CASE UNCHANGED vars
  <2>1. Known' = Known
    BY <1>1 DEF vars, jobVars, Known
  <2>2. TypeOK' /\ Shape' /\ Offered' /\ Reported'
    BY <1>1, <2>1 DEF vars, runnerVars, jobVars, cliVars, IInv, TypeOK, Shape, Offered, TerminalsRun,
                      Reported, Running, Gone
  <2>3. Listed'
    BY <1>1, <2>1 DEF vars, runnerVars, jobVars, IInv, Listed, Underway
  <2> QED BY <2>2, <2>3 DEF IInv
<1>2. ASSUME NEW k \in {"load", "deploy"}, NEW f \in Files, Begin(k, f) PROVE IInv'
  BY <1>2, BeginKeeps, NamesAssumption
<1>3. CASE Begin("clear", NoFile)
  BY <1>3, BeginKeeps
<1>4. CASE Proceed
  BY <1>4, RefuseKeeps, AcceptKeeps, AcceptJobKeeps, ThreadStartsKeeps, ThreadFailsKeeps,
     CloseNextKeeps, CloseFailsKeeps, ClosedKeeps, DestroyKeeps, ParseKeeps, CreateKeeps,
     StartKeeps, CleanUpKeeps, InitTerminalsKeeps, ReportKeeps, FinishKeeps, ReleaseKeeps
  DEF Proceed
<1> QED BY <1>1, <1>2, <1>3, <1>4, CommandKeeps DEF Next

THEOREM Invariance == Spec => []IInv
<1> QED BY Initially, Stepwise, PTL DEF Spec

-----------------------------------------------------------------------------
(* Results.                                                                 *)

\* The types, for any number of operations, topologies, terminals and users:
\* the history of deployments stays within MaxJobs.
THEOREM TypeCorrect == Spec => []TypeOK
<1>1. IInv => TypeOK
  BY DEF IInv
<1> QED BY <1>1, Invariance, PTL

\* No terminal on offer belongs to a network that was destroyed.
THEOREM TerminalsBelong == Spec => []TerminalsRun
<1>1. IInv => TerminalsRun
  BY DEF IInv, Offered
<1> QED BY <1>1, Invariance, PTL

\* Between operations a network runs if and only if the emulator describes it.
THEOREM NothingRunsUnreported == Spec => []NetworkIsReported
<1>1. IInv => NetworkIsReported
  BY DEF IInv, Reported, Running, NetworkIsReported, Free
<1> QED BY <1>1, Invariance, PTL

\* A deployment that reports `ready` has its topology, and its network runs
\* until another operation begins.
THEOREM ReadyRuns == Spec => []ReadyIsRunning
<1>1. IInv => ReadyIsRunning
  BY NamesAssumption DEF IInv, Listed, ReadyIsRunning
<1> QED BY <1>1, Invariance, PTL

\* A deployment is forgotten when MaxJobs later ones were accepted, or when it
\* never began, and its result does not change.
THEOREM AnswersAreKept == Spec => AnswersStay
<1> DEFINE Kept == \A j \in Known :
             /\ jobs'[j] = NoJob =>
                  \/ Cardinality({k \in Known' : k > j}) = MaxJobs
                  \/ op.pc = "thread" /\ j = operations
             /\ jobs[j].status \in {"ready", "failed"} => jobs'[j] \in {jobs[j], NoJob}
<1>1. IInv /\ [Next]_vars => [Kept]_vars
  <2> SUFFICES ASSUME IInv, Next PROVE Kept
    BY DEF vars
  <2>1. CASE AcceptJob
    <3>1. operations \in Numbers /\ operations \notin Known
      BY <2>1 DEF IInv, Shape, Listed, AcceptJob, Free
    <3> QED BY <2>1, <3>1, Registered DEF IInv, Listed, Known
  <2>2. CASE ThreadFails
    BY <2>2 DEF IInv, TypeOK, Listed, Known, ThreadFails, Reports
  <2>3. CASE ThreadStarts \/ Report \/ Finish
    BY <2>3 DEF IInv, TypeOK, Shape, Listed, Known, NoJob, ThreadStarts, Report, Finish, Reports, Free
  <2>4. CASE op.pc \in {"closing", "destroying", "cleaning"} /\ \E b \in BOOLEAN : Fails(b)
    BY <2>4 DEF IInv, TypeOK, Shape, Listed, Known, NoJob, Fails, Reports, Free
  <2>5. CASE jobs' = jobs
    BY <2>5 DEF Known
  <2> QED BY <2>1, <2>2, <2>3, <2>4, <2>5
      DEF Next, Proceed, Begin, Refuse, Accept, CloseNext, CloseFails, Closed, Destroy, Parse, Create,
          Start, CleanUp, InitTerminals, Release, Command, Check, Send, LeaveLoop, CommandEnds, Fetch,
          jobVars
<1> QED BY <1>1, Invariance, PTL DEF Spec, AnswersStay
=============================================================================
