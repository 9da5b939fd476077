------------------------ MODULE NetworkImport_proofs ------------------------
(***************************************************************************)
(* Proofs about NetworkSnapshot and NetworkImport, for any entities that   *)
(* refer to each other as EntitiesAssumption says, and any number of       *)
(* requests, tokens, stages and results.                                   *)
(***************************************************************************)
EXTENDS NetworkImport, SequenceTheorems, TLAPS

\* Until the archive is complete, what stayed on the switch was read as far
\* as the capture has come; then it is all there, and so is what it needs.
Captured ==
  /\ exported => captured = Len(Categories) /\ Valid(rows) /\ (ok => owed \subseteq rows)
  /\ ~exported =>
       /\ owed \subseteq source
       /\ ok => \A i \in 1..captured : Of(owed, Categories[i]) \subseteq rows

\* Requests own what they reserved, each its own token, and only staged ones.
Owned ==
  /\ stages # {} => exported
  /\ \A r \in Requests : request[r] # Idle => request[r].token \in inUse
  /\ \A r, s \in Requests :
        request[r] # Idle /\ request[s] # Idle /\ r # s => request[r].token # request[s].token
  /\ inUse \subseteq stages
  /\ \A t \in stages : t <= tokens

\* A token that can still be deployed has not been.
Early == {"reserved", "starting", "preparing", "refused"}
Counted ==
  /\ \A t \in Tokens : deployed[t] <= 1
  /\ \A t \in stages \ inUse : deployed[t] = 0
  /\ \A t \in Tokens : t > tokens => deployed[t] = 0
  /\ \A r \in Requests : request[r].pc \in Early => deployed[request[r].token] = 0

\* Who works holds _DEPLOY_LOCK.
Alone == \A r \in Requests : request[r].pc \in Working \cup {"starting"} => deployLock = r

\* As long as nothing failed, the categories before the next one are restored.
Restored ==
  \A r \in Requests :
    /\ request[r].pc = "restoring" =>
         /\ request[r].next \in 1..Len(Categories)
         /\ request[r].complete =>
              /\ ConstEntries \subseteq device
              /\ \A i \in 1..(request[r].next - 1) : Of(rows, Categories[i]) \subseteq device
    /\ request[r].pc = "finishing" /\ request[r].complete => ok /\ rows \subseteq device

IInv == TypeOK /\ Captured /\ Owned /\ Counted /\ Alone /\ Restored

\* There are five categories, and their names differ.
LEMMA CategoriesAre ==
  /\ Len(Categories) = 5
  /\ Categories[1] = "members" /\ Categories[2] = "groups" /\ Categories[3] = "tables"
  /\ Categories[4] = "direct" /\ Categories[5] = "other"
  /\ DOMAIN Categories = 1..5
  BY DEF Categories

\* A deployment begins with the lowest numbers.
LEMMA Lowest == Len(Categories) = 5 /\ MaxRetries \in Nat /\ 0 \in 0..MaxRetries /\ {0, 1} \subseteq 0..5
  <1>1. MaxRetries \in Nat
    BY ImportAssumption
  <1> QED  BY <1>1, CategoriesAre

\* Every entity is of one of the categories.
LEMMA HasCategory ==
  ASSUME NEW e \in Entities
  PROVE  \E i \in 1..5 : CategoryOf[e] = Categories[i]
  BY EntitiesAssumption, CategoriesAre

\* What an entity needs is of an earlier category.
LEMMA NeedsAreEarlier ==
  ASSUME NEW i \in 1..5, NEW e \in Of(Entities, Categories[i]), NEW d \in Needs[e]
  PROVE  \E j \in 1..(i - 1) : d \in Of(Entities, Categories[j])
  <1>1. CASE i = 1
    BY <1>1, EntitiesAssumption, CategoriesAre DEF Of
  <1>2. CASE i = 2
    <2>1. d \in Of(Entities, Categories[1])
      BY <1>2, EntitiesAssumption, CategoriesAre
    <2> QED  BY <1>2, <2>1
  <1>3. CASE i = 3
    <2>1. d \in Of(Entities, Categories[1]) \/ d \in Of(Entities, Categories[2])
      BY <1>3, EntitiesAssumption, CategoriesAre
    <2> QED  BY <1>3, <2>1
  <1>4. CASE i = 4
    <2>1. d \in Of(Entities, Categories[3])
      BY <1>4, EntitiesAssumption, CategoriesAre
    <2> QED  BY <1>4, <2>1
  <1>5. CASE i = 5
    BY <1>5, EntitiesAssumption, CategoriesAre DEF Of
  <1> QED  BY <1>1, <1>2, <1>3, <1>4, <1>5

\* sanitize_dependencies leaves a part of what was captured, in which every
\* reference resolves.
LEMMA SanitizedIsValid ==
  ASSUME NEW S \in SUBSET Entities
  PROVE  Sanitized(S) \subseteq S /\ Valid(Sanitized(S))
  <1> DEFINE members == Of(S, "members")
             groups  == {e \in Of(S, "groups") : Needs[e] \subseteq members}
             tables  == {e \in Of(S, "tables") : Needs[e] \subseteq members \cup groups}
             direct  == {e \in Of(S, "direct") : Needs[e] \subseteq tables}
             other   == Of(S, "other")
             all     == members \cup groups \cup tables \cup direct \cup other
  <1>1. Sanitized(S) = all
    BY DEF Sanitized
  <1>2. all \subseteq S
    BY DEF Of
  <1>3. ASSUME NEW e \in all PROVE Needs[e] \subseteq all
    <2>1. CASE e \in members \cup other
      <3>1. e \in Of(Entities, "members") \cup Of(Entities, "other")
        BY <2>1 DEF Of
      <3> QED  BY <3>1, EntitiesAssumption
    <2>2. CASE e \in groups
      BY <2>2
    <2>3. CASE e \in tables
      BY <2>3
    <2>4. CASE e \in direct
      BY <2>4
    <2> QED  BY <1>3, <2>1, <2>2, <2>3, <2>4
  <1> QED  BY <1>1, <1>2, <1>3 DEF Valid

\* The initial states satisfy the invariant.
LEMMA Initially == Init => IInv
  <1> SUFFICES ASSUME Init PROVE IInv  OBVIOUS
  <1>1. source \subseteq Entities
    BY DEF Init, ExportInit, Contents
  <1>2. TypeOK
    <2>1. ExportTypeOK
      <3>1. owed = source /\ edits = 0 /\ captured = 0 /\ rows = {} /\ ok = TRUE /\ exported = FALSE
        BY DEF Init, ExportInit
      <3>2. Len(Categories) = 5
        BY CategoriesAre
      <3>3. edits \in 0..MaxEdits /\ captured \in 0..Len(Categories)
        BY <3>1, <3>2, MaxEditsAssumption
      <3>4. ok \in BOOLEAN /\ exported \in BOOLEAN
        BY <3>1
      <3>5. source \in SUBSET Entities /\ owed \in SUBSET Entities /\ rows \in SUBSET Entities
        BY <1>1, <3>1
      <3> QED  BY <3>3, <3>4, <3>5 DEF ExportTypeOK
    <2>2. results \in Seq(Tokens) /\ Len(results) = 0
      BY DEF Init
    <2>3. request \in [Requests -> {Idle} \cup Deployment]
      BY DEF Init
    <2> QED  BY <2>1, <2>2, <2>3, ImportAssumption DEF Init, TypeOK
  <1>3. Captured
    BY CategoriesAre DEF Init, ExportInit, Captured
  <1>4. Owned /\ Counted /\ Alone /\ Restored
    BY DEF Init, Owned, Counted, Alone, Restored, Idle, At, Early, Working, Tokens
  <1> QED  BY <1>2, <1>3, <1>4 DEF IInv

\* The capture keeps what it was written for: nothing that stayed is missing
\* unless the status says so, and what is left at the end is importable.
LEMMA ExportSteps ==
  ASSUME IInv, Export, UNCHANGED <<stageVars, deployVars>>
  PROVE  IInv'
  <1> USE DEF stageVars, deployVars
  <1>0. ~exported
    <2>1. Edit \/ Sanitize => ~exported
      BY DEF Edit, Sanitize
    <2>2. ReadEntities => captured < 5
      BY CategoriesAre DEF ReadEntities
    <2>3. exported => captured = 5
      BY CategoriesAre DEF IInv, Captured
    <2> QED  BY <2>1, <2>2, <2>3 DEF Export
  <1>1. stages = {} /\ \A r \in Requests : request[r] = Idle
    BY <1>0 DEF IInv, Owned
  <1>2. \A r \in Requests : request[r].pc = "idle"
    BY <1>1 DEF Idle, At
  <1>3. Owned' /\ Counted' /\ Alone' /\ Restored'
    <2>1. Owned'
      BY <1>1 DEF IInv, Owned
    <2>2. Counted' /\ Alone'
      BY DEF IInv, Counted, Alone
    <2>3. Restored'
      BY <1>2 DEF Restored
    <2> QED  BY <2>1, <2>2, <2>3
  <1>4. TypeOK' /\ Captured'
    <2>1. CASE Edit
      <3>1. PICK S \in Contents : source' = S /\ owed' = owed \cap S
        BY <2>1 DEF Edit
      <3>2. S \subseteq Entities
        BY DEF Contents
      <3>3. TypeOK'
        BY <2>1, <3>1, <3>2, MaxEditsAssumption DEF Edit, IInv, TypeOK, ExportTypeOK
      <3>4. Captured'
        BY <1>0, <2>1, <3>1 DEF Edit, IInv, Captured, Of
      <3> QED  BY <3>3, <3>4
    <2>2. CASE ReadEntities
      <3> DEFINE present == Of(source, Categories[captured + 1])
      <3>1. PICK got \in SUBSET present :
              rows' = rows \cup got /\ ok' \in {FALSE} \cup (IF got = present THEN {ok} ELSE {})
        BY <2>2 DEF ReadEntities
      <3>2. captured \in 0..4 /\ captured' = captured + 1
            /\ UNCHANGED <<source, owed, edits, exported>>
        BY <2>2, CategoriesAre DEF ReadEntities, IInv, TypeOK, ExportTypeOK
      <3>3. TypeOK'
        <4>1. got \subseteq Entities
          BY <3>1 DEF Of, IInv, TypeOK, ExportTypeOK
        <4>2. ok' \in BOOLEAN
          BY <3>1 DEF IInv, TypeOK, ExportTypeOK
        <4> QED  BY <3>1, <3>2, <4>1, <4>2, CategoriesAre DEF IInv, TypeOK, ExportTypeOK
      <3>4. ASSUME ok', NEW i \in 1..captured' PROVE Of(owed, Categories[i]) \subseteq rows'
        <4>1. ok /\ got = present
          BY <3>1, <3>4
        <4>2. CASE i = captured + 1
          BY <1>0, <3>1, <4>1, <4>2 DEF IInv, Captured, Of
        <4>3. CASE i \in 1..captured
          BY <1>0, <3>1, <4>1, <4>3 DEF IInv, Captured
        <4> QED  BY <3>2, <3>4, <4>2, <4>3
      <3>5. Captured'
        BY <1>0, <3>2, <3>4 DEF IInv, Captured
      <3> QED  BY <3>3, <3>5
    <2>3. CASE Sanitize
      <3>1. rows \in SUBSET Entities /\ owed \in SUBSET Entities /\ captured = 5 /\ ok \in BOOLEAN
        BY <2>3, CategoriesAre DEF Sanitize, IInv, TypeOK, ExportTypeOK
      <3>2. rows' = Sanitized(rows) /\ exported' = TRUE /\ captured' = captured
            /\ ok' = (ok /\ rows' = rows) /\ owed' = (IF ok' THEN owed \cup rows ELSE {})
            /\ source' = {} /\ edits' = 0
        BY <2>3 DEF Sanitize
      <3>3. rows' \subseteq rows /\ Valid(rows')
        BY <3>1, <3>2, SanitizedIsValid
      <3>4. TypeOK'
        BY <3>1, <3>2, <3>3, CategoriesAre, MaxEditsAssumption DEF IInv, TypeOK, ExportTypeOK
      <3>5. ok => owed \subseteq rows
        <4> SUFFICES ASSUME ok, NEW e \in owed PROVE e \in rows  OBVIOUS
        <4>1. PICK i \in 1..5 : CategoryOf[e] = Categories[i]
          BY <3>1, HasCategory
        <4> QED  BY <1>0, <3>1, <4>1 DEF IInv, Captured, Of
      <3>6. ok' => owed' \subseteq rows'
        BY <3>2, <3>5
      <3>7. Captured'
        BY <3>1, <3>2, <3>3, <3>6, CategoriesAre DEF Captured, Valid
      <3> QED  BY <3>4, <3>7
    <2> QED  BY <2>1, <2>2, <2>3 DEF Export
  <1> QED  BY <1>3, <1>4 DEF IInv

\* Cleaning up the results keeps their type.
LEMMA FreshIsTyped ==
  ASSUME TypeOK
  PROVE  Fresh \in Seq(Tokens) /\ Len(Fresh) <= MaxCompleted
  <1>1. results \in Seq(Tokens) /\ lapsed \in 0..Len(results) /\ Len(results) \in Nat
    BY DEF TypeOK
  <1>2. \A i \in (lapsed + 1)..Len(results) : results[i] \in Tokens
    BY <1>1
  <1>3. Fresh \in Seq(Tokens)
        /\ Len(Fresh) = IF lapsed + 1 <= Len(results) THEN Len(results) - (lapsed + 1) + 1 ELSE 0
    BY <1>1, <1>2, SubSeqProperties DEF Fresh
  <1> QED  BY <1>1, <1>3, ImportAssumption DEF TypeOK

\* Requests that do nothing keep the invariant while stages expire, are
\* cleaned up or added.
LEMMA StageSteps ==
  ASSUME IInv, Tick \/ Stage \/ Status
  PROVE  IInv'
  <1> USE DEF stageVars, deployVars, exportVars
  <1>1. UNCHANGED <<exportVars, deployVars, inUse>>
    BY DEF Tick, Stage, Status
  <1>2. TypeOK'
    <2>1. CASE Tick
      BY <2>1, <1>1 DEF Tick, IInv, TypeOK, ExportTypeOK
    <2>2. CASE Stage
      <3>1. Fresh \in Seq(Tokens) /\ Len(Fresh) <= MaxCompleted
        BY FreshIsTyped DEF IInv
      <3>2. tokens' \in 0..MaxTokens /\ stages' \in SUBSET Tokens
        <4>1. tokens \in 0..MaxTokens /\ tokens < MaxTokens /\ Kept \subseteq Tokens
          BY <2>2 DEF Stage, IInv, TypeOK, Kept
        <4>2. tokens + 1 \in Tokens /\ tokens + 1 \in 0..MaxTokens
          BY <4>1, ImportAssumption DEF Tokens
        <4>3. \/ stages' = Kept \cup {tokens + 1} /\ tokens' = tokens + 1
              \/ stages' = Kept /\ tokens' = tokens
          BY <2>2 DEF Stage
        <4> QED  BY <4>1, <4>2, <4>3
      <3>3. results' = Fresh /\ lapsed' = 0 /\ expired' \in SUBSET Tokens
        BY <2>2 DEF Stage, CleanUpStages, IInv, TypeOK
      <3> QED  BY <1>1, <3>1, <3>2, <3>3 DEF IInv, TypeOK, ExportTypeOK
    <2>3. CASE Status
      <3>1. Fresh \in Seq(Tokens) /\ Len(Fresh) <= MaxCompleted
        BY FreshIsTyped DEF IInv
      <3>2. tokens' = tokens /\ stages' \in SUBSET Tokens
        BY <2>3 DEF Status, IInv, TypeOK, Kept
      <3>3. results' = Fresh /\ lapsed' = 0 /\ expired' \in SUBSET Tokens
        BY <2>3 DEF Status, CleanUpStages, IInv, TypeOK
      <3> QED  BY <1>1, <3>1, <3>2, <3>3 DEF IInv, TypeOK, ExportTypeOK
    <2> QED  BY <2>1, <2>2, <2>3
  <1>3. /\ tokens' \in {tokens, tokens + 1} /\ (tokens' # tokens => tokens < MaxTokens /\ exported)
        /\ stages' \subseteq stages \cup (IF tokens' = tokens THEN {} ELSE {tokens + 1})
        /\ stages \cap inUse \subseteq stages'
    <2>1. Kept \subseteq stages /\ stages \cap inUse \subseteq Kept
      BY DEF Kept
    <2>2. tokens \in Nat
      BY DEF IInv, TypeOK
    <2>3. CASE Tick
      BY <2>3 DEF Tick
    <2>4. CASE Stage
      <3>1. exported /\ tokens < MaxTokens
        BY <2>4 DEF Stage
      <3>2. \/ stages' = Kept \cup {tokens + 1} /\ tokens' = tokens + 1
            \/ stages' = Kept /\ tokens' = tokens
        BY <2>4 DEF Stage
      <3> QED  BY <2>1, <2>2, <3>1, <3>2
    <2>5. CASE Status
      BY <2>1, <2>5 DEF Status
    <2> QED  BY <2>3, <2>4, <2>5
  <1>4. tokens \in Nat /\ stages \subseteq Nat
    BY DEF IInv, TypeOK, Tokens
  <1>5. Owned'
    <2>1. \A t \in stages' : t <= tokens'
      BY <1>3, <1>4 DEF IInv, Owned
    <2>2. stages' # {} => exported
      BY <1>3 DEF IInv, Owned
    <2>3. inUse \subseteq stages'
      BY <1>3 DEF IInv, Owned
    <2> QED  BY <1>1, <2>1, <2>2, <2>3 DEF IInv, Owned
  <1>6. Counted'
    <2>1. \A t \in Tokens : t > tokens' => deployed[t] = 0
      BY <1>3, <1>4 DEF IInv, Counted, Tokens
    <2>2. \A t \in stages' \ inUse : deployed[t] = 0
      <3> SUFFICES ASSUME NEW t \in stages' \ inUse, t \notin stages PROVE deployed[t] = 0
        BY DEF IInv, Counted
      <3>1. t = tokens + 1 /\ tokens < MaxTokens
        BY <1>3
      <3> QED  BY <1>4, <3>1, ImportAssumption DEF IInv, Counted, Tokens
    <2> QED  BY <1>1, <2>1, <2>2 DEF IInv, Counted
  <1>7. Captured' /\ Alone' /\ Restored'
    BY <1>1 DEF IInv, Captured, Alone, Restored, Valid, Of, Entries
  <1> QED  BY <1>2, <1>5, <1>6, <1>7 DEF IInv

\* A reservation takes a staged token that nobody deploys or has deployed.
LEMMA ReserveStep ==
  ASSUME IInv, NEW r \in Requests, Reserve(r)
  PROVE  IInv'
  <1>1. PICK t \in Kept \ (ToSet(Fresh) \cup inUse) :
          /\ inUse' = inUse \cup {t}
          /\ request' = [request EXCEPT ![r] = At("reserved", t)]
    BY DEF Reserve
  <1>2. /\ results' = Fresh /\ lapsed' = 0 /\ expired' = expired \cap Kept /\ stages' = Kept
        /\ UNCHANGED <<exportVars, tokens, deployLock, device, deployed>>
    BY DEF Reserve, CleanUpStages
  <1>3. Kept \subseteq stages /\ stages \cap inUse \subseteq Kept /\ t \in stages \ inUse /\ t \in Tokens
    BY <1>1 DEF Kept, IInv, TypeOK
  <1> DEFINE new == [pc |-> "reserved", token |-> t, retries |-> 0, next |-> 0, complete |-> FALSE]
  <1>4. request' = [request EXCEPT ![r] = new] /\ request[r] = Idle
    BY <1>1 DEF Reserve, Idle, At
  <1>5. new \in Deployment
    BY <1>3, ImportAssumption, CategoriesAre DEF Deployment
  <1> HIDE DEF new
  <1>6. TypeOK'
    <2>1. Fresh \in Seq(Tokens) /\ Len(Fresh) <= MaxCompleted
      BY FreshIsTyped DEF IInv
    <2>2. request' \in [Requests -> {Idle} \cup Deployment]
      BY <1>4, <1>5 DEF IInv, TypeOK
    <2>3. inUse' \in SUBSET Tokens /\ stages' \in SUBSET Tokens /\ expired' \in SUBSET Tokens
      BY <1>1, <1>2, <1>3 DEF IInv, TypeOK
    <2> QED  BY <1>2, <2>1, <2>2, <2>3 DEF IInv, TypeOK, ExportTypeOK, exportVars
  <1>7. /\ \A s \in Requests : request'[s] = IF s = r THEN new ELSE request[s]
        /\ new.pc = "reserved" /\ new.token = t
    BY <1>4 DEF IInv, TypeOK, new
  <1>8. Owned'
    BY <1>1, <1>2, <1>3, <1>7 DEF IInv, Owned, exportVars
  <1>9. Counted'
    BY <1>1, <1>2, <1>3, <1>7 DEF IInv, Counted, Early
  <1>10. Captured' /\ Alone' /\ Restored'
    <2>1. Captured'
      BY <1>2 DEF IInv, Captured, exportVars, Valid, Of
    <2>2. Alone'
      BY <1>2, <1>7 DEF IInv, Alone, Working
    <2>3. Restored'
      BY <1>2, <1>7 DEF IInv, Restored, exportVars, Of
    <2> QED  BY <2>1, <2>2, <2>3
  <1> QED  BY <1>6, <1>8, <1>9, <1>10 DEF IInv

\* A request whose program counter is not "idle" is deploying.
LEMMA IsDeploying ==
  ASSUME TypeOK, NEW r \in Requests, request[r].pc # "idle"
  PROVE  request[r] \in Deployment /\ request[r] # Idle
  BY DEF TypeOK, Idle, At

\* A deployment that goes on with its token keeps the invariant, if it holds
\* _DEPLOY_LOCK whenever it works or touches the network, and if what it says
\* of the device is so.
LEMMA MovesOn ==
  ASSUME IInv, NEW r \in Requests, NEW new \in Deployment,
         request[r] \in Deployment, request[r] # Idle,
         request' = [request EXCEPT ![r] = new], new.token = request[r].token,
         UNCHANGED <<exportVars, stageVars>>,
         new.pc \in Early => request[r].pc \in Early,
         \/ deployed' = deployed
         \/ /\ request[r].pc \in Early /\ new.pc \notin Early
            /\ deployed' = [deployed EXCEPT ![request[r].token] = @ + 1],
         deployLock' \in Requests \cup {NoRequest}, device' \in SUBSET Entities,
         deployLock' = deployLock \/ deployLock \in {NoRequest, r},
         new.pc \in Working \cup {"starting"} => deployLock' = r,
         device' = device \/ deployLock = r,
         new.pc = "restoring" =>
           /\ new.next \in 1..Len(Categories)
           /\ new.complete =>
                /\ ConstEntries \subseteq device'
                /\ \A i \in 1..(new.next - 1) : Of(rows, Categories[i]) \subseteq device',
         new.pc = "finishing" /\ new.complete => ok /\ rows \subseteq device'
  PROVE  IInv'
  <1> USE DEF stageVars, exportVars
  <1>1. \A s \in Requests : request'[s] = IF s = r THEN new ELSE request[s]
    BY DEF IInv, TypeOK
  <1>2. new # Idle
    BY DEF Deployment, Idle, At, Working
  <1>3. TypeOK'
    <2>1. request' \in [Requests -> {Idle} \cup Deployment]
      BY DEF IInv, TypeOK
    <2>2. deployed' \in [Tokens -> Nat]
      BY DEF IInv, TypeOK, Deployment
    <2> QED  BY <2>1, <2>2 DEF IInv, TypeOK, ExportTypeOK
  <1>4. Captured'
    BY DEF IInv, Captured, Valid, Of
  <1>5. Owned'
    BY <1>1, <1>2 DEF IInv, Owned
  <1>6. Counted'
    <2>1. request[r].token \in inUse /\ request[r].token \in Tokens
      BY DEF IInv, Owned, Deployment
    <2>2. CASE deployed' = deployed
      BY <1>1, <2>2 DEF IInv, Counted
    <2>3. CASE /\ request[r].pc \in Early /\ new.pc \notin Early
               /\ deployed' = [deployed EXCEPT ![request[r].token] = @ + 1]
      <3>1. deployed[request[r].token] = 0 /\ request[r].token <= tokens
        BY <2>1, <2>3 DEF IInv, Counted, Owned
      <3>2. \A t \in Tokens : deployed'[t] = IF t = request[r].token THEN 1 ELSE deployed[t]
        BY <2>3, <3>1 DEF IInv, TypeOK
      <3>3. tokens \in Nat /\ Tokens \subseteq Nat
        BY DEF IInv, TypeOK, Tokens
      <3>4. \A s \in Requests : request'[s].pc \in Early => deployed'[request'[s].token] = 0
        <4> SUFFICES ASSUME NEW s \in Requests, request'[s].pc \in Early
                     PROVE  deployed'[request'[s].token] = 0
          OBVIOUS
        <4>1. s # r /\ request'[s] = request[s]
          BY <1>1, <2>3
        <4>2. request[s] \in Deployment /\ request[s] # Idle
          BY <4>1, IsDeploying DEF IInv, Early
        <4>3. request[s].token # request[r].token /\ request[s].token \in Tokens
          BY <4>1, <4>2 DEF IInv, Owned, Deployment
        <4> QED  BY <3>2, <4>1, <4>3 DEF IInv, Counted
      <3>5. \A t \in stages \ inUse : deployed'[t] = 0
        BY <2>1, <3>2 DEF IInv, Counted, TypeOK
      <3>6. \A t \in Tokens : deployed'[t] <= 1 /\ (t > tokens => deployed'[t] = 0)
        BY <3>1, <3>2, <3>3 DEF IInv, Counted
      <3> QED  BY <3>4, <3>5, <3>6 DEF Counted
    <2> QED  BY <2>2, <2>3
  <1>7. Alone'
    BY <1>1, ImportAssumption DEF IInv, Alone
  <1>8. Restored'
    <2> SUFFICES ASSUME NEW s \in Requests
                 PROVE  /\ request'[s].pc = "restoring" =>
                             /\ request'[s].next \in 1..Len(Categories)
                             /\ request'[s].complete =>
                                  /\ ConstEntries \subseteq device'
                                  /\ \A i \in 1..(request'[s].next - 1) : Of(rows, Categories[i]) \subseteq device'
                        /\ request'[s].pc = "finishing" /\ request'[s].complete => ok /\ rows \subseteq device'
      BY DEF Restored, Of
    <2>1. CASE s = r
      BY <1>1, <2>1
    <2>2. CASE s # r /\ device' = device
      BY <1>1, <2>2 DEF IInv, Restored
    <2>3. CASE s # r /\ deployLock = r
      <3>1. request[s].pc \notin Working
        BY <2>3 DEF IInv, Alone
      <3> QED  BY <1>1, <2>3, <3>1 DEF Working
    <2> QED  BY <2>1, <2>2, <2>3
  <1> QED  BY <1>3, <1>4, <1>5, <1>6, <1>7, <1>8 DEF IInv

\* Taking _DEPLOY_LOCK, and starting the thread.
LEMMA LockSteps ==
  ASSUME IInv, NEW r \in Requests, Acquire(r) \/ StartThread(r)
  PROVE  IInv'
  <1>1. request[r] \in Deployment /\ request[r] # Idle /\ request[r].pc \in Early
    <2>1. request[r].pc \in {"reserved", "starting"}
      BY DEF Acquire, StartThread
    <2> QED  BY <2>1, IsDeploying DEF IInv, Early
  <1>2. PICK pc \in {"preparing", "starting", "refused"} :
          /\ request' = [request EXCEPT ![r].pc = pc]
          /\ \/ pc = "refused" /\ deployLock' \in {deployLock, NoRequest}
                /\ (deployLock' = deployLock \/ request[r].pc = "starting")
             \/ deployLock' = r /\ deployLock \in {NoRequest, r}
    <2>1. CASE Acquire(r)
      BY <2>1 DEF Acquire, Goes
    <2>2. CASE StartThread(r)
      <3>1. deployLock = r
        BY <2>2 DEF StartThread, IInv, Alone
      <3> QED  BY <2>2, <3>1 DEF StartThread, Goes
    <2> QED  BY <2>1, <2>2
  <1>3. UNCHANGED <<exportVars, stageVars, device, deployed>>
    BY DEF Acquire, StartThread
  <1> DEFINE new == [request[r] EXCEPT !.pc = pc]
  <1>4. new \in Deployment /\ new.pc = pc /\ new.token = request[r].token
    BY <1>1 DEF Deployment, Working
  <1>5. request' = [request EXCEPT ![r] = new]
    BY <1>2
  <1> HIDE DEF new
  <1>6. request[r].pc = "starting" => deployLock = r
    BY DEF IInv, Alone
  <1>7. deployLock' \in Requests \cup {NoRequest} /\ device' \in SUBSET Entities
    BY <1>2, <1>3 DEF IInv, TypeOK
  <1> QED
    <2>1. new.pc \in Working \cup {"starting"} => deployLock' = r
      BY <1>2, <1>4 DEF Working
    <2>2. deployLock' = deployLock \/ deployLock \in {NoRequest, r}
      BY <1>2, <1>6
    <2>3. new.pc # "restoring" /\ new.pc # "finishing" /\ (new.pc \in Early => request[r].pc \in Early)
      BY <1>1, <1>4
    <2> QED  BY <1>1, <1>3, <1>4, <1>5, <1>7, <2>1, <2>2, <2>3, MovesOn

\* Preparation, the replacement of the network and its failure.
LEMMA LoadSteps ==
  ASSUME IInv, NEW r \in Requests, Prepare(r) \/ Load(r) \/ Poll(r) \/ Deadline(r)
  PROVE  IInv'
  <1>1. request[r].pc \in {"preparing", "loading", "polling"}
    BY DEF Prepare, Load, Poll, Deadline
  <1>2. request[r] \in Deployment /\ request[r] # Idle
    BY <1>1, IsDeploying DEF IInv
  <1>3. deployLock = r
    BY <1>1 DEF IInv, Alone, Working
  <1>4. UNCHANGED <<exportVars, stageVars, deployLock, device>>
        /\ \/ deployed' = deployed
           \/ /\ request[r].pc \in Early
              /\ deployed' = [deployed EXCEPT ![request[r].token] = @ + 1]
    BY DEF Prepare, Load, Poll, Deadline, Early
  <1>5. PICK pc \in {"loading", "polling", "connecting", "finishing"}, k \in 0..MaxRetries :
          \/ pc # "finishing" /\ request' = [request EXCEPT ![r] = [request[r] EXCEPT !.pc = pc, !.retries = k]]
          \/ pc = "finishing"
             /\ request' = [request EXCEPT ![r] = [request[r] EXCEPT !.pc = pc, !.complete = FALSE, !.retries = k]]
    <2>1. request[r].retries \in 0..MaxRetries /\ 0 \in 0..MaxRetries /\ MaxRetries \in Nat
      BY <1>2, ImportAssumption DEF Deployment
    <2>2. request[r] = [pc |-> request[r].pc, token |-> request[r].token, retries |-> request[r].retries,
                        next |-> request[r].next, complete |-> request[r].complete]
      BY <1>2 DEF Deployment
    <2>3. CASE Fails(r)
      <3>1. request' = [request EXCEPT ![r] =
                 [request[r] EXCEPT !.pc = "finishing", !.complete = FALSE, !.retries = 0]]
        BY <2>3 DEF Fails
      <3> QED  BY <2>1, <3>1
    <2>4. CASE \E pc \in {"loading", "polling", "connecting"} : Goes(r, pc)
      <3>1. PICK pc \in {"loading", "polling", "connecting"} : Goes(r, pc)
        BY <2>4
      <3>2. request' = [request EXCEPT ![r] =
                 [request[r] EXCEPT !.pc = pc, !.retries = request[r].retries]]
        BY <2>2, <3>1 DEF Goes
      <3> QED  BY <2>1, <3>2
    <2>5. CASE Poll(r) /\ ~Fails(r)
      <3>1. request[r].pc = "polling"
        BY <2>5 DEF Poll
      <3>2. CASE request[r].retries < MaxRetries /\ request' = [request EXCEPT ![r].retries = @ + 1]
        <4>1. request[r].retries + 1 \in 0..MaxRetries
          BY <2>1, <3>2
        <4>2. request' = [request EXCEPT ![r] =
                   [request[r] EXCEPT !.pc = "polling", !.retries = request[r].retries + 1]]
          BY <2>2, <3>1, <3>2
        <4> QED  BY <4>1, <4>2
      <3>3. CASE request' = [request EXCEPT ![r].retries = 0]
        <4>1. request' = [request EXCEPT ![r] = [request[r] EXCEPT !.pc = "polling", !.retries = 0]]
          BY <2>2, <3>1, <3>3
        <4> QED  BY <2>1, <4>1
      <3>4. CASE request' = [request EXCEPT ![r].pc = "connecting", ![r].retries = 0]
        <4>1. request' = [request EXCEPT ![r] = [request[r] EXCEPT !.pc = "connecting", !.retries = 0]]
          BY <3>4
        <4> QED  BY <2>1, <4>1
      <3> QED  BY <2>5, <3>2, <3>3, <3>4 DEF Poll
    <2> QED  BY <2>3, <2>4, <2>5 DEF Prepare, Load, Deadline
  <1> DEFINE new == IF pc = "finishing"
                    THEN [request[r] EXCEPT !.pc = pc, !.complete = FALSE, !.retries = k]
                    ELSE [request[r] EXCEPT !.pc = pc, !.retries = k]
  <1>6. /\ new \in Deployment /\ new.pc = pc /\ new.token = request[r].token
        /\ pc = "finishing" => ~new.complete
    BY <1>2 DEF Deployment, Working
  <1>7. request' = [request EXCEPT ![r] = new]
    BY <1>5
  <1> HIDE DEF new
  <1> QED
    <2>1. new.pc \notin Early /\ new.pc # "restoring" /\ ~(new.pc = "finishing" /\ new.complete)
      BY <1>6 DEF Early
    <2>2. deployLock' \in Requests \cup {NoRequest} /\ device' \in SUBSET Entities
      BY <1>4 DEF IInv, TypeOK
    <2> QED  BY <1>2, <1>3, <1>4, <1>6, <1>7, <2>1, <2>2, MovesOn

\* While a request restores, the next category refers to restored ones only.
LEMMA NextIsRestorable ==
  ASSUME IInv, NEW r \in Requests, request[r].pc = "restoring", request[r].complete
  PROVE  \A e \in Entries(r) : Needs[e] \subseteq device
  <1>1. request[r].next \in 1..5
    BY CategoriesAre DEF IInv, Restored
  <1>2. rows \subseteq Entities /\ Valid(rows)
    <2>1. stages # {}
      BY IsDeploying DEF IInv, Owned
    <2> QED  BY <2>1 DEF IInv, Owned, Captured, TypeOK, ExportTypeOK
  <1> SUFFICES ASSUME NEW e \in Entries(r), NEW d \in Needs[e] PROVE d \in device
    OBVIOUS
  <1>3. e \in Of(Entities, Categories[request[r].next]) /\ e \in rows
    BY <1>2 DEF Entries, Of
  <1>4. PICK j \in 1..(request[r].next - 1) : d \in Of(Entities, Categories[j])
    BY <1>1, <1>3, NeedsAreEarlier
  <1>5. d \in Of(rows, Categories[j])
    BY <1>2, <1>3, <1>4 DEF Valid, Of
  <1> QED  BY <1>4, <1>5 DEF IInv, Restored

\* The pipeline brings the constant entries.
LEMMA ConnectStep ==
  ASSUME IInv, NEW r \in Requests, Connect(r)
  PROVE  IInv'
  <1>1. request[r] \in Deployment /\ request[r] # Idle /\ deployLock = r
    <2>1. request[r].pc = "connecting"
      BY DEF Connect
    <2> QED  BY <2>1, IsDeploying DEF IInv, Alone, Working
  <1>2. UNCHANGED <<exportVars, stageVars, deployLock, deployed>>
    BY DEF Connect
  <1>3. ConstEntries \subseteq Entities
    BY EntitiesAssumption DEF Of
  <1>4. CASE /\ request' = [request EXCEPT ![r].pc = "restoring", ![r].next = 1, ![r].complete = TRUE]
             /\ device' = ConstEntries
    <2> DEFINE new == [request[r] EXCEPT !.pc = "restoring", !.next = 1, !.complete = TRUE]
    <2>1. new \in Deployment /\ new.pc = "restoring" /\ new.next = 1 /\ new.token = request[r].token
      <3>1. new.complete = TRUE /\ TRUE \in BOOLEAN
        BY <1>1 DEF Deployment
      <3> QED  BY <1>1, <3>1, Lowest DEF Deployment, Working
    <2>2. request' = [request EXCEPT ![r] = new]
      BY <1>4
    <2> HIDE DEF new
    <2>3. /\ new.pc \notin Early /\ new.next \in 1..Len(Categories)
          /\ \A i \in 1..(new.next - 1) : Of(rows, Categories[i]) \subseteq device'
      BY <2>1, CategoriesAre DEF Early
    <2>4. deployLock' \in Requests \cup {NoRequest} /\ device' \in SUBSET Entities
          /\ ConstEntries \subseteq device'
      BY <1>2, <1>3, <1>4 DEF IInv, TypeOK
    <2> QED  BY <1>1, <1>2, <2>1, <2>2, <2>3, <2>4, MovesOn
  <1>5. CASE Fails(r) /\ UNCHANGED device
    <2> DEFINE new == [request[r] EXCEPT !.pc = "finishing", !.complete = FALSE, !.retries = 0]
    <2>1. new \in Deployment /\ new.pc = "finishing" /\ ~new.complete /\ new.token = request[r].token
      BY <1>1, Lowest DEF Deployment, Working
    <2>2. request' = [request EXCEPT ![r] = new]
      BY <1>5 DEF Fails
    <2> HIDE DEF new
    <2>3. deployLock' \in Requests \cup {NoRequest} /\ device' \in SUBSET Entities
      BY <1>2, <1>5 DEF IInv, TypeOK
    <2> QED  BY <1>1, <1>2, <2>1, <2>2, <2>3, MovesOn DEF Early
  <1> QED  BY <1>4, <1>5 DEF Connect

\* A category is restored after those it refers to.
LEMMA WriteStep ==
  ASSUME IInv, NEW r \in Requests, WriteCategory(r)
  PROVE  IInv'
  <1>1. request[r] \in Deployment /\ request[r] # Idle /\ deployLock = r /\ request[r].pc = "restoring"
    <2>1. request[r].pc = "restoring"
      BY DEF WriteCategory
    <2> QED  BY <2>1, IsDeploying DEF IInv, Alone, Working
  <1>2. UNCHANGED <<exportVars, stageVars, deployLock, deployed>>
    BY DEF WriteCategory
  <1>3. rows \subseteq Entities /\ device \subseteq Entities /\ request[r].next \in 1..5
    BY <1>1, CategoriesAre DEF IInv, Restored, TypeOK, ExportTypeOK
  <1> DEFINE next == request[r].next
             last == next = 5
  <1>4. PICK written \in SUBSET Entries(r), complete \in BOOLEAN :
          /\ device' = device \cup written
          /\ complete => written = Entries(r) /\ request[r].complete
          /\ request' = [request EXCEPT ![r].pc = IF last THEN "finishing" ELSE @,
                                        ![r].next = IF last THEN @ ELSE @ + 1,
                                        ![r].complete = complete /\ (last => ok)]
    <2>1. request[r].complete \in BOOLEAN
      BY <1>1 DEF Deployment
    <2>2. PICK written \in SUBSET {e \in Entries(r) : Needs[e] \subseteq device} :
            /\ device' = device \cup written
            /\ \E complete \in {FALSE} \cup (IF written = Entries(r) THEN {request[r].complete} ELSE {}),
                   l \in {request[r].next = Len(Categories)} :
                   request' = [request EXCEPT
                     ![r].pc = IF l THEN "finishing" ELSE @,
                     ![r].next = IF l THEN @ ELSE @ + 1,
                     ![r].complete = complete /\ (l => ok)]
      BY DEF WriteCategory
    <2>3. PICK complete \in {FALSE} \cup (IF written = Entries(r) THEN {request[r].complete} ELSE {}) :
            request' = [request EXCEPT ![r].pc = IF last THEN "finishing" ELSE @,
                                       ![r].next = IF last THEN @ ELSE @ + 1,
                                       ![r].complete = complete /\ (last => ok)]
      <3>1. (request[r].next = Len(Categories)) = last
        BY Lowest
      <3>2. PICK complete \in {FALSE} \cup (IF written = Entries(r) THEN {request[r].complete} ELSE {}),
                 l \in {request[r].next = Len(Categories)} :
              request' = [request EXCEPT ![r].pc = IF l THEN "finishing" ELSE @,
                                         ![r].next = IF l THEN @ ELSE @ + 1,
                                         ![r].complete = complete /\ (l => ok)]
        BY <2>2
      <3>3. l = last
        BY <3>1, <3>2
      <3> QED  BY <3>2, <3>3
    <2>4. complete \in BOOLEAN /\ (complete => written = Entries(r) /\ request[r].complete)
      BY <2>1, <2>3
    <2> QED  BY <2>2, <2>3, <2>4
  <1> DEFINE new == [request[r] EXCEPT !.pc = IF last THEN "finishing" ELSE request[r].pc,
                                       !.next = IF last THEN request[r].next ELSE request[r].next + 1,
                                       !.complete = complete /\ (last => ok)]
  <1>5. request' = [request EXCEPT ![r] = new]
    BY <1>4
  <1>6. /\ new \in Deployment /\ new.token = request[r].token
        /\ new.pc = IF last THEN "finishing" ELSE "restoring"
        /\ new.next = IF last THEN next ELSE next + 1
        /\ new.complete = (complete /\ (last => ok))
    <2>1. ok \in BOOLEAN /\ (complete /\ (last => ok)) \in BOOLEAN
      BY DEF IInv, TypeOK, ExportTypeOK
    <2>2. (IF last THEN request[r].next ELSE request[r].next + 1) \in 0..5
      BY <1>3
    <2>3. (IF last THEN "finishing" ELSE request[r].pc) = IF last THEN "finishing" ELSE "restoring"
      BY <1>1
    <2> HIDE DEF last
    <2> QED  BY <1>1, <2>1, <2>2, <2>3, Lowest DEF Deployment, Working
  <1> HIDE DEF new
  <1>7. ASSUME complete
        PROVE  /\ ConstEntries \subseteq device'
               /\ \A i \in 1..next : Of(rows, Categories[i]) \subseteq device'
    <2>1. /\ ConstEntries \subseteq device
          /\ \A i \in 1..(next - 1) : Of(rows, Categories[i]) \subseteq device
          /\ device' = device \cup Entries(r)
      BY <1>1, <1>4, <1>7 DEF IInv, Restored
    <2>2. Of(rows, Categories[next]) \subseteq device'
      BY <2>1 DEF Entries
    <2>3. \A i \in 1..next : i \in 1..(next - 1) \/ i = next
      BY <1>3
    <2> QED  BY <2>1, <2>2, <2>3
  <1>8. device' \in SUBSET Entities /\ deployLock' \in Requests \cup {NoRequest}
    BY <1>2, <1>3, <1>4 DEF Entries, Of, IInv, TypeOK
  <1>9. new.pc = "restoring" =>
          /\ new.next \in 1..Len(Categories)
          /\ new.complete =>
               /\ ConstEntries \subseteq device'
               /\ \A i \in 1..(new.next - 1) : Of(rows, Categories[i]) \subseteq device'
    <2> SUFFICES ASSUME new.pc = "restoring"
                 PROVE  /\ new.next \in 1..5 /\ new.next - 1 = next
                        /\ new.complete => complete
      BY <1>7, CategoriesAre
    <2> QED  BY <1>3, <1>6
  <1>10. new.pc = "finishing" /\ new.complete => ok /\ rows \subseteq device'
    <2> SUFFICES ASSUME new.pc = "finishing", new.complete PROVE ok /\ rows \subseteq device'
      OBVIOUS
    <2>1. last /\ complete /\ ok
      BY <1>6
    <2>2. ASSUME NEW e \in rows PROVE e \in device'
      <3>1. PICK i \in 1..5 : CategoryOf[e] = Categories[i]
        BY <1>3, HasCategory
      <3> QED  BY <1>7, <2>1, <3>1 DEF Of
    <2> QED  BY <2>1, <2>2
  <1> QED
    <2>1. new.pc \notin Early /\ new.pc \notin {"starting"}
      BY <1>6 DEF Early
    <2> QED  BY <1>1, <1>2, <1>5, <1>6, <1>8, <1>9, <1>10, <2>1, MovesOn

\* _DEPLOY_LOCK is released by its holder.
LEMMA FinishStep ==
  ASSUME IInv, NEW r \in Requests, Finish(r)
  PROVE  IInv'
  <1>1. request[r] \in Deployment /\ request[r] # Idle /\ deployLock = r
    <2>1. request[r].pc = "finishing"
      BY DEF Finish
    <2> QED  BY <2>1, IsDeploying DEF IInv, Alone, Working
  <1>2. /\ UNCHANGED <<exportVars, stageVars, deployed>> /\ deployLock' = NoRequest /\ device' = {}
        /\ request' = [request EXCEPT ![r] = At("caching", request[r].token)]
    BY DEF Finish
  <1> DEFINE new == At("caching", request[r].token)
  <1>3. new \in Deployment /\ new.pc = "caching" /\ new.token = request[r].token
    BY <1>1, Lowest DEF Deployment, At
  <1> HIDE DEF new
  <1>4. request' = [request EXCEPT ![r] = new]
    BY <1>2 DEF new
  <1> QED  BY <1>1, <1>2, <1>3, <1>4, MovesOn DEF Early, Working

\* A deployment that ends, one way or the other, leaves its token to nobody,
\* or not deployed.
LEMMA EndSteps ==
  ASSUME IInv, NEW r \in Requests, Unreserve(r) \/ Cache(r)
  PROVE  IInv'
  <1>1. request[r] \in Deployment /\ request[r] # Idle /\ request[r].token \in Tokens
    <2>1. request[r].pc \in {"refused", "caching"}
      BY DEF Unreserve, Cache
    <2>2. request[r] \in Deployment /\ request[r] # Idle
      BY <2>1, IsDeploying DEF IInv
    <2> QED  BY <2>2 DEF Deployment
  <1> DEFINE token == request[r].token
  <1>2. /\ inUse' = inUse \ {token} /\ request' = [request EXCEPT ![r] = Idle]
        /\ stages' \subseteq stages /\ stages \ {token} \subseteq stages'
        /\ token \in stages' => request[r].pc = "refused"
        /\ expired' \subseteq expired
        /\ UNCHANGED <<exportVars, tokens, deployLock, device, deployed>>
    BY DEF Unreserve, Cache
  <1>3. /\ \A s \in Requests : request'[s] = IF s = r THEN Idle ELSE request[s]
        /\ Idle.pc = "idle"
    BY <1>2 DEF IInv, TypeOK, Idle, At
  <1>4. TypeOK'
    <2>1. results' \in Seq(Tokens) /\ Len(results') <= MaxCompleted /\ lapsed' \in 0..Len(results')
      <3>1. /\ results \in Seq(Tokens) /\ Len(results) \in Nat /\ Len(results) <= MaxCompleted
            /\ lapsed \in 0..Len(results) /\ MaxCompleted \in Nat \ {0}
        BY ImportAssumption DEF IInv, TypeOK
      <3>2. CASE Unreserve(r)
        BY <3>1, <3>2 DEF Unreserve
      <3>3. CASE Cache(r)
        <4> DEFINE all == Append(results, token)
                   evicted == Len(all) - MaxCompleted
        <4>1. all \in Seq(Tokens) /\ Len(all) = Len(results) + 1
          BY <1>1, <3>1
        <4>2. CASE evicted > 0
          <5>1. results' = SubSeq(all, evicted + 1, Len(all))
                /\ lapsed' = IF lapsed > evicted THEN lapsed - evicted ELSE 0
            BY <3>3, <4>2 DEF Cache
          <5>2. evicted = 1 /\ Len(results) = MaxCompleted
            BY <3>1, <4>1, <4>2
          <5>3. \A i \in 2..Len(all) : all[i] \in Tokens
            BY <4>1
          <5>4. results' \in Seq(Tokens) /\ Len(results') = Len(results)
            <6> HIDE DEF all
            <6>1. SubSeq(all, 2, Len(all)) \in Seq(Tokens)
                  /\ Len(SubSeq(all, 2, Len(all))) = IF 2 <= Len(all) THEN Len(all) - 2 + 1 ELSE 0
              BY <3>1, <4>1, <5>3, SubSeqProperties
            <6> QED  BY <3>1, <4>1, <5>1, <5>2, <6>1
          <5> QED  BY <3>1, <5>1, <5>2, <5>4
        <4>3. CASE ~(evicted > 0)
          <5>1. results' = all /\ lapsed' = lapsed
            BY <3>3, <4>3 DEF Cache
          <5> QED  BY <3>1, <4>1, <4>3, <5>1
        <4> QED  BY <4>2, <4>3
      <3> QED  BY <3>2, <3>3
    <2>2. request' \in [Requests -> {Idle} \cup Deployment]
      BY <1>2 DEF IInv, TypeOK
    <2> QED  BY <1>2, <2>1, <2>2 DEF IInv, TypeOK, ExportTypeOK, exportVars
  <1>5. Captured'
    BY <1>2 DEF IInv, Captured, Valid, Of, exportVars
  <1>6. Owned'
    BY <1>1, <1>2, <1>3 DEF IInv, Owned, exportVars
  <1>7. Counted'
    <2>1. token \in stages' => deployed[token] = 0
      BY <1>2 DEF IInv, Counted, Early
    <2>2. \A t \in stages' \ inUse' : deployed[t] = 0
      BY <1>2, <2>1 DEF IInv, Counted
    <2> QED  BY <1>2, <1>3, <2>2 DEF IInv, Counted, Early
  <1>8. Alone' /\ Restored'
    <2>1. Alone'
      BY <1>2, <1>3 DEF IInv, Alone, Working
    <2>2. Restored'
      BY <1>2, <1>3 DEF IInv, Restored, exportVars, Of
    <2> QED  BY <2>1, <2>2
  <1> QED  BY <1>4, <1>5, <1>6, <1>7, <1>8 DEF IInv

\* The invariant is inductive.
LEMMA Stepwise == IInv /\ [Next]_vars => IInv'
  <1> SUFFICES ASSUME IInv, [Next]_vars PROVE IInv'
    OBVIOUS
  <1>1. CASE Export /\ UNCHANGED <<stageVars, deployVars>>
    BY <1>1, ExportSteps
  <1>2. CASE Tick \/ Stage \/ Status
    BY <1>2, StageSteps
  <1>3. ASSUME NEW r \in Requests, Reserve(r) \/ Continue(r) \/ Deadline(r)
        PROVE  IInv'
    BY <1>3, ReserveStep, LockSteps, LoadSteps, ConnectStep, WriteStep, FinishStep, EndSteps DEF Continue
  <1>4. CASE UNCHANGED vars
    BY <1>4 DEF vars, exportVars, stageVars, deployVars, IInv, TypeOK, ExportTypeOK, Captured, Valid,
                Of, Owned, Counted, Alone, Restored
  <1> QED  BY <1>1, <1>2, <1>3, <1>4 DEF Next

\* At each point of an export, and of any number of imports of what it
\* wrote: what was captured and restored so far, and who owns which token.
THEOREM Invariance == Spec => []IInv
  BY Initially, Stepwise, PTL DEF Spec

\* Every variable keeps its type; at most MaxCompleted results are kept.
THEOREM TypeCorrect == Spec => []TypeOK
  <1>1. IInv => TypeOK
    BY DEF IInv
  <1> QED  BY <1>1, Invariance, PTL

\* The references of the entries in an export all resolve, whatever reads
\* failed and whatever other clients changed meanwhile.
THEOREM ExportsAreImportable == Spec => []ExportedIsImportable
  <1>1. IInv => ExportedIsImportable
    BY DEF IInv, Captured, ExportedIsImportable
  <1> QED  BY <1>1, Invariance, PTL

\* A report of `complete` hides nothing that the export owed or read.
THEOREM CompleteMeansRestored == Spec => []CompleteIsFaithful
  <1>1. IInv => CompleteIsFaithful
    <2> SUFFICES ASSUME IInv, NEW r \in Requests, request[r].pc = "finishing", request[r].complete
                 PROVE  owed \subseteq device
      BY DEF CompleteIsFaithful
    <2>1. ok /\ rows \subseteq device
      BY DEF IInv, Restored
    <2>2. exported
      BY IsDeploying DEF IInv, Owned
    <2> QED  BY <2>1, <2>2 DEF IInv, Captured
  <1> QED  BY <1>1, Invariance, PTL

\* Whatever is restored refers to what has been restored.
THEOREM ReferencesComeFirst == Spec => []ReferencesRestored
  <1>1. IInv => ReferencesRestored
    BY NextIsRestorable DEF ReferencesRestored
  <1> QED  BY <1>1, Invariance, PTL

\* A token is deployed at most once, and has its files while it is deployed.
THEOREM TokensDeployOnce == Spec => []DeployedOnce
  <1>1. IInv => DeployedOnce
    BY DEF IInv, Counted, Owned, DeployedOnce
  <1> QED  BY <1>1, Invariance, PTL
=============================================================================
