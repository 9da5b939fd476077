----------------------- MODULE LanguageClient_proofs -----------------------
(***************************************************************************)
(* Proofs about LanguageSession and LanguageClient, for any finite set of  *)
(* documents and any numbers of sessions, edits, diagnostics and faults.   *)
(***************************************************************************)
EXTENDS LanguageClient, SequenceTheorems, FiniteSetTheorems, TLAPS

Documented == [Documents -> 0..MaxVersion]
Updating   == [kind : {"open", "change", "close"}, doc : Documents, version : 0..MaxVersion]
Messages   == Updating \cup [kind : {"ask"}, doc : Documents]
Notices    == [doc : Documents, version : 0..MaxVersion]

SessionState ==
  [running : BOOLEAN, operation : Posts \cup {"free"}, left : Seq(Messages), next : Documented,
   documents : Documented, open : Documented, events : Seq(Notices)]

CallState ==
  {NoCall} \cup [stage : {"sent"}, heard : BOOLEAN, messages : Seq(Messages)]
           \cup [stage : {"inside"}, heard : BOOLEAN]
           \cup [stage : {"answered"}, result : {"ok", "error", "gone", "lost"}, notices : Seq(Notices)]

\* No two messages change the same document.
Different(ms) ==
  \A i, j \in DOMAIN ms : Updates(ms[i]) /\ Updates(ms[j]) /\ ms[i].doc = ms[j].doc => i = j

\* No message changes a document.
Asks(ms) == \A i \in DOMAIN ms : ~Updates(ms[i])

\* What the server has, once it took what it has not taken yet, is what the
\* session will remember.
SessionAgrees(x) ==
  /\ x \in SessionState
  /\ Different(x.left)
  /\ ~x.running => x = Ended(x)
  /\ x.operation = "free" => x.left = <<>> /\ x.documents = x.open
  /\ x.operation # "free" => Updated(x.open, x.left) = x.next
  /\ x.operation = "ask" => x.next = x.documents

CallFits(k, c) ==
  /\ c \in CallState
  /\ c.stage = "sent" /\ k = "flush" => Different(c.messages)
  /\ c.stage = "sent" /\ k = "ask" => Asks(c.messages)

-----------------------------------------------------------------------------
(* Sequences and sets.                                                      *)

\* The greatest of some indices: what is left above cannot shrink for ever.
LEMMA GreatestIndex ==
  ASSUME NEW n \in Nat, NEW S \in SUBSET (1..n), S # {}
  PROVE  \E m \in S : \A k \in S : k <= m
  <1> DEFINE T == {n - k : k \in S}
  <1>1. T \subseteq Nat /\ T # {}
    <2>1. \A k \in S : n - k \in Nat
      OBVIOUS
    <2> QED  BY <2>1
  <1>2. PICK t \in T : \A u \in T : ~ (<<u, t>> \in OpToRel(<, Nat))
    BY <1>1, NatLessThanWellFounded, WFMin
  <1>3. \A u \in T : ~(u < t)
    BY <1>1, <1>2 DEF OpToRel
  <1>4. PICK m \in S : t = n - m
    OBVIOUS
  <1>5. ASSUME NEW k \in S PROVE k <= m
    <2>1. ~(n - k < n - m)
      BY <1>3, <1>4
    <2> QED  BY <2>1
  <1> QED  BY <1>5

\* SetToSeq lists every element of a finite set once.
LEMMA Listed ==
  ASSUME NEW S, IsFiniteSet(S)
  PROVE  /\ SetToSeq(S) \in Seq(S)
         /\ \A i, j \in DOMAIN SetToSeq(S) : SetToSeq(S)[i] = SetToSeq(S)[j] => i = j
         /\ \A x \in S : \E i \in DOMAIN SetToSeq(S) : SetToSeq(S)[i] = x
  <1> DEFINE n == Cardinality(S)
  <1>1. n \in Nat /\ ExistsBijection(1..n, S)
    BY FS_CardinalityType
  <1>2. \E f \in [1..n -> S] : IsInjective(f)
    BY <1>1 DEF ExistsBijection, Bijection, Injection
  <1>3. SetToSeq(S) \in [1..n -> S] /\ IsInjective(SetToSeq(S))
    BY <1>2 DEF SetToSeq
  <1>4. SetToSeq(S) \in Injection(1..n, S)
    BY <1>3 DEF Injection
  <1>5. IsFiniteSet(1..n) /\ Cardinality(1..n) = n
    BY <1>1, FS_Interval
  <1>6. SetToSeq(S) \in Surjection(1..n, S)
    BY <1>4, <1>5, FS_Injection
  <1> HIDE DEF n
  <1> QED
    BY <1>1, <1>3, <1>6 DEF IsInjective, Surjection

-----------------------------------------------------------------------------
(* What messages do to documents.                                           *)

LEMMA NoneDocumented == MaxVersion \in Nat /\ 0 \in 0..MaxVersion /\ NoDocument \in Documented
  <1>1. MaxVersion \in Nat
    BY ClientAssumption
  <1> QED  BY <1>1 DEF NoDocument, Documented

LEMMA UpdatingMessage ==
  ASSUME NEW m \in Messages
  PROVE  Updates(m) <=> m \in Updating
  BY DEF Messages, Updating, Updates

\* A document has the version of the message about it, if there is one.
LEMMA UpdatedAt ==
  ASSUME NEW d \in Documented, NEW ms \in Seq(Messages), NEW u \in Documents
  PROVE  /\ Updated(d, ms)[u] \in 0..MaxVersion
         /\ (\A i \in DOMAIN ms : ~(ms[i].doc = u /\ Updates(ms[i]))) => Updated(d, ms)[u] = d[u]
         /\ Different(ms) => \A i \in DOMAIN ms :
              ms[i].doc = u /\ Updates(ms[i]) => Updated(d, ms)[u] = ms[i].version
  <1> DEFINE about == {i \in DOMAIN ms : ms[i].doc = u /\ Updates(ms[i])}
             chosen == CHOOSE i \in about : TRUE
  <1>1. Updated(d, ms)[u] = IF about = {} THEN d[u] ELSE ms[chosen].version
    BY DEF Updated
  <1>2. about # {} => chosen \in about
    OBVIOUS
  <1>3. \A i \in about : ms[i].version \in 0..MaxVersion
    <2> SUFFICES ASSUME NEW i \in about PROVE ms[i].version \in 0..MaxVersion
      OBVIOUS
    <2>1. ms[i] \in Messages
      BY LenProperties, ElementOfSeq
    <2>2. ms[i] \in Updating
      BY <2>1, UpdatingMessage
    <2> QED  BY <2>2 DEF Updating
  <1>4. d[u] \in 0..MaxVersion
    BY DEF Documented
  <1>5. Different(ms) => \A i \in about : about # {} /\ i = chosen
    BY <1>2 DEF Different
  <1> HIDE DEF chosen
  <1> QED  BY <1>1, <1>2, <1>3, <1>4, <1>5

LEMMA UpdatedDocumented ==
  ASSUME NEW d \in Documented, NEW ms \in Seq(Messages)
  PROVE  Updated(d, ms) \in Documented
  <1>1. \A u \in Documents : Updated(d, ms)[u] \in 0..MaxVersion
    BY UpdatedAt
  <1>2. Updated(d, ms) = [u \in Documents |-> Updated(d, ms)[u]]
    BY DEF Updated
  <1> QED  BY <1>1, <1>2 DEF Documented

\* Two ways to the same documents.
LEMMA SameDocuments ==
  ASSUME NEW d \in Documented, NEW e \in Documented, \A u \in Documents : d[u] = e[u]
  PROVE  d = e
  BY DEF Documented

LEMMA AsksChangeNothing ==
  ASSUME NEW d \in Documented, NEW ms \in Seq(Messages), Asks(ms)
  PROVE  Updated(d, ms) = d /\ Different(ms)
  <1>1. \A u \in Documents : Updated(d, ms)[u] = d[u]
    BY UpdatedAt DEF Asks
  <1>2. Updated(d, ms) = d
    BY <1>1, UpdatedDocumented, SameDocuments
  <1> QED  BY <1>2 DEF Asks, Different

LEMMA NoMessages == <<>> \in Seq(Messages) /\ Asks(<<>>) /\ Different(<<>>)
  BY DEF Asks, Different

\* Taking the first message, and the others after it, is taking all.
LEMMA HeadThenTail ==
  ASSUME NEW d \in Documented, NEW ms \in Seq(Messages), ms # <<>>, Different(ms)
  PROVE  LET m == Head(ms)
             e == IF Updates(m) THEN [d EXCEPT ![m.doc] = m.version] ELSE d
         IN  /\ m \in Messages /\ Tail(ms) \in Seq(Messages) /\ Different(Tail(ms))
             /\ e \in Documented
             /\ Updated(e, Tail(ms)) = Updated(d, ms)
  <1> DEFINE m == Head(ms)
             e == IF Updates(m) THEN [d EXCEPT ![m.doc] = m.version] ELSE d
             rest == Tail(ms)
  <1>1. /\ m \in Messages /\ m = ms[1]
        /\ rest \in Seq(Messages) /\ Len(ms) \in Nat \ {0} /\ Len(rest) = Len(ms) - 1
        /\ DOMAIN ms = 1..Len(ms) /\ DOMAIN rest = 1..Len(rest)
    BY HeadTailProperties, LenProperties, EmptySeq
  <1>2. \A i \in DOMAIN rest : i + 1 \in DOMAIN ms /\ i + 1 # 1 /\ rest[i] = ms[i + 1]
    BY <1>1, HeadTailProperties
  <1>3. \A j \in DOMAIN ms : j # 1 => j - 1 \in DOMAIN rest /\ rest[j - 1] = ms[j]
    <2> SUFFICES ASSUME NEW j \in DOMAIN ms, j # 1 PROVE j - 1 \in DOMAIN rest /\ rest[j - 1] = ms[j]
      OBVIOUS
    <2>1. j \in Nat /\ j - 1 \in DOMAIN rest /\ (j - 1) + 1 = j
      BY <1>1
    <2> QED  BY <1>2, <2>1
  <1>4. Different(rest)
    <2> SUFFICES ASSUME NEW i \in DOMAIN rest, NEW j \in DOMAIN rest,
                        Updates(rest[i]), Updates(rest[j]), rest[i].doc = rest[j].doc
                 PROVE  i = j
      BY DEF Different
    <2>1. i + 1 = j + 1
      BY <1>2 DEF Different
    <2> QED  BY <1>1, <2>1
  <1>5. e \in Documented
    BY <1>1, UpdatingMessage DEF Updating, Documented
  <1>6. ASSUME NEW u \in Documents PROVE Updated(e, rest)[u] = Updated(d, ms)[u]
    <2>1. CASE Updates(m) /\ m.doc = u
      <3>1. e[u] = m.version
        BY <2>1 DEF Documented
      <3>2. Updated(d, ms)[u] = m.version
        BY <1>1, <2>1, UpdatedAt
      <3>3. \A i \in DOMAIN rest : ~(rest[i].doc = u /\ Updates(rest[i]))
        BY <1>1, <1>2, <2>1 DEF Different
      <3> HIDE DEF e
      <3> QED  BY <1>1, <1>5, <3>1, <3>2, <3>3, UpdatedAt
    <2>2. CASE ~(Updates(m) /\ m.doc = u)
      <3>1. e[u] = d[u]
        BY <2>2 DEF Documented
      <3>2. CASE \E i \in DOMAIN rest : rest[i].doc = u /\ Updates(rest[i])
        <4>1. PICK i \in DOMAIN rest : rest[i].doc = u /\ Updates(rest[i])
          BY <3>2
        <4>2. Updated(d, ms)[u] = rest[i].version
          BY <1>2, <4>1, UpdatedAt
        <4> HIDE DEF e
        <4>3. Updated(e, rest)[u] = rest[i].version
          BY <1>1, <1>4, <1>5, <4>1, UpdatedAt
        <4> QED  BY <4>2, <4>3
      <3>3. CASE \A i \in DOMAIN rest : ~(rest[i].doc = u /\ Updates(rest[i]))
        <4>1. \A j \in DOMAIN ms : ~(ms[j].doc = u /\ Updates(ms[j]))
          BY <1>1, <1>3, <2>2, <3>3
        <4> HIDE DEF e
        <4> QED  BY <1>1, <1>5, <3>1, <3>3, <4>1, UpdatedAt
      <3> QED  BY <3>2, <3>3
    <2> QED  BY <2>1, <2>2
  <1> HIDE DEF e, rest
  <1>7. Updated(e, rest) = Updated(d, ms)
    BY <1>1, <1>5, <1>6, UpdatedDocumented, SameDocuments
  <1> QED  BY <1>1, <1>4, <1>5, <1>7 DEF e, rest

\* A flush is of valid messages about different documents, and what it makes
\* of the documents that were sent is the documents of the editor.
LEMMA DifferenceFlushes ==
  ASSUME documents \in Documented, sent \in Documented
  PROVE  /\ Difference \in Seq(Messages) /\ Different(Difference)
         /\ Updated(sent, Difference) = documents
  <1> DEFINE changed == {u \in Documents : documents[u] # sent[u]}
             closed  == {u \in changed : documents[u] = 0}
             s1      == SetToSeq(closed)
             s2      == SetToSeq(changed \ closed)
             us      == s1 \o s2
  <1>1. IsFiniteSet(closed) /\ IsFiniteSet(changed \ closed)
    BY SessionAssumption, FS_Subset
  <1>2. s1 \in Seq(Documents) /\ s2 \in Seq(Documents)
    <2>1. s1 \in Seq(closed) /\ s2 \in Seq(changed \ closed)
      BY <1>1, Listed
    <2>2. closed \subseteq Documents /\ changed \ closed \subseteq Documents
      OBVIOUS
    <2> HIDE DEF s1, s2, closed, changed
    <2> QED  BY <2>1, <2>2, SeqMonotonic
  <1>3. /\ \A i \in DOMAIN s1 : s1[i] \in closed
        /\ \A i \in DOMAIN s2 : s2[i] \in changed \ closed
    <2>1. s1 \in Seq(closed) /\ s2 \in Seq(changed \ closed)
      BY <1>1, Listed
    <2> HIDE DEF s1, s2, closed, changed
    <2> QED  BY <2>1, LenProperties, ElementOfSeq
  <1>4. /\ \A i, j \in DOMAIN s1 : s1[i] = s1[j] => i = j
        /\ \A i, j \in DOMAIN s2 : s2[i] = s2[j] => i = j
        /\ \A u \in closed : \E i \in DOMAIN s1 : s1[i] = u
        /\ \A u \in changed \ closed : \E i \in DOMAIN s2 : s2[i] = u
    <2> HIDE DEF closed, changed
    <2> QED  BY <1>1, Listed
  <1> DEFINE n1 == Len(s1)
             n2 == Len(s2)
  <1>5. /\ n1 \in Nat /\ n2 \in Nat /\ DOMAIN s1 = 1..n1 /\ DOMAIN s2 = 1..n2
        /\ us \in Seq(Documents) /\ DOMAIN us = 1..(n1 + n2)
        /\ \A i \in 1..(n1 + n2) : us[i] = IF i <= n1 THEN s1[i] ELSE s2[i - n1]
    <2> HIDE DEF s1, s2
    <2> QED  BY <1>2, ConcatProperties, LenProperties
  <1> HIDE DEF s1, s2, n1, n2
  <1>6. \A i \in DOMAIN us : us[i] \in changed
    <2> SUFFICES ASSUME NEW i \in 1..(n1 + n2) PROVE us[i] \in changed
      BY <1>5
    <2>1. CASE i <= n1
      BY <1>3, <1>5, <2>1
    <2>2. CASE ~(i <= n1)
      <3>1. i - n1 \in 1..n2
        BY <1>5, <2>2
      <3> QED  BY <1>3, <1>5, <2>2, <3>1
    <2> QED  BY <2>1, <2>2
  <1>7. \A i, j \in DOMAIN us : us[i] = us[j] => i = j
    <2> SUFFICES ASSUME NEW i \in 1..(n1 + n2), NEW j \in 1..(n1 + n2), us[i] = us[j] PROVE i = j
      BY <1>5
    <2>1. \A k \in 1..(n1 + n2) : k <= n1 => k \in 1..n1 /\ us[k] = s1[k] /\ us[k] \in closed
      BY <1>3, <1>5
    <2>2. \A k \in 1..(n1 + n2) : ~(k <= n1) =>
            k - n1 \in 1..n2 /\ us[k] = s2[k - n1] /\ us[k] \notin closed
      <3> SUFFICES ASSUME NEW k \in 1..(n1 + n2), ~(k <= n1)
                   PROVE  k - n1 \in 1..n2 /\ us[k] = s2[k - n1] /\ us[k] \notin closed
        OBVIOUS
      <3>1. k - n1 \in 1..n2
        BY <1>5
      <3> QED  BY <1>3, <1>5, <3>1
    <2>3. CASE i <= n1 /\ j <= n1
      BY <1>4, <1>5, <2>1, <2>3
    <2>4. CASE ~(i <= n1) /\ ~(j <= n1)
      <3> HIDE DEF us, closed, changed
      <3>1. i - n1 \in DOMAIN s2 /\ j - n1 \in DOMAIN s2 /\ s2[i - n1] = s2[j - n1]
        BY <1>5, <2>2, <2>4
      <3>2. i - n1 = j - n1
        BY <1>4, <3>1
      <3> QED  BY <1>5, <3>2
    <2> HIDE DEF us, closed
    <2> QED  BY <2>1, <2>2, <2>3, <2>4
  <1>8. \A u \in changed : \E i \in DOMAIN us : us[i] = u
    <2> SUFFICES ASSUME NEW u \in changed PROVE \E i \in 1..(n1 + n2) : us[i] = u
      BY <1>5
    <2>1. CASE u \in closed
      <3>1. PICK i \in 1..n1 : s1[i] = u
        BY <1>4, <1>5, <2>1
      <3>2. i \in 1..(n1 + n2) /\ i <= n1
        BY <1>5
      <3> QED  BY <1>5, <3>1, <3>2
    <2>2. CASE u \in changed \ closed
      <3>1. PICK i \in 1..n2 : s2[i] = u
        BY <1>4, <1>5, <2>2
      <3>2. i + n1 \in 1..(n1 + n2) /\ ~(i + n1 <= n1) /\ (i + n1) - n1 = i
        BY <1>5
      <3> QED  BY <1>5, <3>1, <3>2
    <2> QED  BY <2>1, <2>2
  <1>9. \A u \in Documents : /\ Message(u) \in Updating /\ Updates(Message(u))
                             /\ Message(u).doc = u /\ Message(u).version = documents[u]
    <2> SUFFICES ASSUME NEW u \in Documents
                 PROVE  /\ Message(u) \in Updating /\ Updates(Message(u))
                        /\ Message(u).doc = u /\ Message(u).version = documents[u]
      OBVIOUS
    <2>1. documents[u] \in 0..MaxVersion
      BY DEF Documented
    <2>2. \E k \in {"open", "change", "close"} :
            Message(u) = [kind |-> k, doc |-> u, version |-> documents[u]]
      BY DEF Message
    <2> QED  BY <2>1, <2>2 DEF Updating, Updates
  <1>10. Difference = [i \in DOMAIN us |-> Message(us[i])]
    BY DEF Difference, s1, s2
  <1>11. changed \subseteq Documents
    OBVIOUS
  <1> HIDE DEF us
  <1>12. DOMAIN Difference = DOMAIN us /\ \A i \in DOMAIN us : Difference[i] = Message(us[i])
    BY <1>10
  <1>13. Difference \in Seq(Messages)
    <2>1. \A i \in 1..(n1 + n2) : Message(us[i]) \in Messages
      BY <1>5, <1>6, <1>9 DEF Messages
    <2>2. n1 + n2 \in Nat
      BY <1>5
    <2>3. [i \in 1..(n1 + n2) |-> Message(us[i])] \in Seq(Messages)
      BY <2>1, <2>2, IsASeq
    <2> QED  BY <1>5, <1>10, <2>3
  <1>14. Different(Difference)
    BY <1>6, <1>7, <1>9, <1>11, <1>12 DEF Different
  <1>15. ASSUME NEW u \in Documents PROVE Updated(sent, Difference)[u] = documents[u]
    <2>1. CASE u \in changed
      <3>1. PICK i \in DOMAIN us : us[i] = u
        BY <1>8, <2>1
      <3> QED  BY <1>9, <1>12, <1>13, <1>14, <3>1, UpdatedAt
    <2>2. CASE u \notin changed
      <3>1. \A i \in DOMAIN Difference : Difference[i].doc # u
        BY <1>6, <1>9, <1>12, <2>2
      <3> QED  BY <1>13, <2>2, <3>1, UpdatedAt
    <2> QED  BY <2>1, <2>2
  <1> QED  BY <1>13, <1>14, <1>15, UpdatedDocumented, SameDocuments

-----------------------------------------------------------------------------
(* What happens to one session, and to one request.                         *)

LEMMA NewAgrees == NewSession \in SessionState /\ SessionAgrees(NewSession)
  <1>1. NewSession \in SessionState
    BY NoneDocumented DEF NewSession, SessionState
  <1>2. NewSession = Ended(NewSession)
    BY DEF NewSession, Ended
  <1> QED  BY <1>1, <1>2, NoMessages DEF NewSession, SessionAgrees

LEMMA EndedAgrees ==
  ASSUME NEW x, SessionAgrees(x)
  PROVE  /\ Ended(x) \in SessionState /\ SessionAgrees(Ended(x))
         /\ Ended(x).operation = x.operation /\ ~Ended(x).running
         /\ Ended(x).documents = NoDocument
  <1>1. x.operation \in Posts \cup {"free"}
    BY DEF SessionAgrees, SessionState
  <1>2. /\ NewSession.running = FALSE /\ NewSession.left = <<>> /\ NewSession.next = NoDocument
        /\ NewSession.documents = NoDocument /\ NewSession.open = NoDocument
    BY DEF NewSession
  <1>3. /\ Ended(x) \in SessionState /\ Ended(x).operation = x.operation
        /\ Ended(x).running = FALSE /\ Ended(x).left = <<>> /\ Ended(x).next = NoDocument
        /\ Ended(x).documents = NoDocument /\ Ended(x).open = NoDocument
    BY <1>1, <1>2, NewAgrees DEF Ended, SessionState
  <1>4. Ended(Ended(x)) = Ended(x)
    BY <1>3 DEF Ended
  <1>5. Updated(NoDocument, <<>>) = NoDocument /\ Different(<<>>)
    BY NoneDocumented, NoMessages, AsksChangeNothing
  <1> QED  BY <1>3, <1>4, <1>5 DEF SessionAgrees

\* A session that does not run begins to.
LEMMA StartedAgrees ==
  ASSUME NEW x, SessionAgrees(x), ~x.running
  PROVE  LET y == [x EXCEPT !.running = TRUE]
         IN  /\ y \in SessionState /\ SessionAgrees(y)
             /\ y.operation = x.operation /\ y.documents = NoDocument
  <1> DEFINE y == [x EXCEPT !.running = TRUE]
  <1>1. /\ x \in SessionState /\ x = Ended(x) /\ x.left = <<>>
        /\ x.next = NoDocument /\ x.documents = NoDocument /\ x.open = NoDocument
    BY DEF SessionAgrees, Ended, NewSession
  <1>2. /\ y \in SessionState /\ y.running = TRUE /\ y.operation = x.operation /\ y.left = x.left
        /\ y.next = x.next /\ y.documents = x.documents /\ y.open = x.open
    BY <1>1 DEF SessionState
  <1>3. Updated(NoDocument, <<>>) = NoDocument /\ Different(<<>>)
    BY NoneDocumented, NoMessages, AsksChangeNothing
  <1> HIDE DEF y
  <1>4. SessionAgrees(y)
    BY <1>1, <1>2, <1>3 DEF SessionAgrees
  <1> QED  BY <1>1, <1>2, <1>4 DEF y

LEMMA DrainedAgrees ==
  ASSUME NEW x, SessionAgrees(x), x.running
  PROVE  LET y == [x EXCEPT !.events = <<>>]
         IN  /\ y \in SessionState /\ SessionAgrees(y) /\ y.running = TRUE
             /\ y.operation = x.operation /\ y.documents = x.documents /\ y.next = x.next
  <1> DEFINE y == [x EXCEPT !.events = <<>>]
  <1>1. x \in SessionState /\ x.running = TRUE
    BY DEF SessionAgrees, SessionState
  <1>2. <<>> \in Seq(Notices)
    OBVIOUS
  <1>3. /\ y \in SessionState /\ y.running = x.running /\ y.operation = x.operation
        /\ y.left = x.left /\ y.next = x.next /\ y.documents = x.documents /\ y.open = x.open
    BY <1>1, <1>2 DEF SessionState
  <1> HIDE DEF y
  <1>4. SessionAgrees(y)
    BY <1>1, <1>3 DEF SessionAgrees
  <1> QED  BY <1>1, <1>3, <1>4 DEF y

\* An exchange begins: the server has what the session remembers.
Begun(x, k, ms) == [x EXCEPT !.operation = k, !.left = ms, !.next = Updated(x.documents, ms)]

LEMMA BegunAgrees ==
  ASSUME NEW x, NEW k \in Posts, NEW ms \in Seq(Messages),
         SessionAgrees(x), x.running, x.operation = "free",
         k = "flush" => Different(ms), k = "ask" => Asks(ms)
  PROVE  /\ Begun(x, k, ms) \in SessionState /\ SessionAgrees(Begun(x, k, ms))
         /\ Begun(x, k, ms).running = TRUE /\ Begun(x, k, ms).operation = k
         /\ Begun(x, k, ms).documents = x.documents
         /\ Begun(x, k, ms).next = Updated(x.documents, ms)
  <1> DEFINE y == Begun(x, k, ms)
  <1>1. x \in SessionState /\ x.documents \in Documented /\ x.documents = x.open
    BY DEF SessionAgrees, SessionState
  <1>2. Updated(x.documents, ms) \in Documented
    BY <1>1, UpdatedDocumented
  <1>3. /\ y \in SessionState /\ y.running = TRUE /\ y.operation = k /\ y.left = ms
        /\ y.next = Updated(x.documents, ms) /\ y.documents = x.documents /\ y.open = x.open
    BY <1>1, <1>2 DEF SessionState, Begun
  <1>4. Different(ms) /\ (k = "ask" => Updated(x.documents, ms) = x.documents)
    BY <1>1, AsksChangeNothing DEF Posts
  <1>5. k # "free"
    BY DEF Posts
  <1> HIDE DEF y
  <1>6. SessionAgrees(y)
    BY <1>1, <1>3, <1>4, <1>5 DEF SessionAgrees
  <1> QED  BY <1>3, <1>6 DEF y

\* An exchange ends: what the session remembers is what the server has.
LEMMA AnsweredAgrees ==
  ASSUME NEW x, SessionAgrees(x), x.running, x.operation # "free", x.left = <<>>
  PROVE  LET y == [x EXCEPT !.operation = "free", !.events = <<>>, !.left = <<>>,
                            !.documents = x.next, !.next = NoDocument]
         IN  /\ y \in SessionState /\ SessionAgrees(y) /\ y.running = TRUE
             /\ y.operation = "free" /\ y.documents = x.next
  <1> DEFINE y == [x EXCEPT !.operation = "free", !.events = <<>>, !.left = <<>>,
                            !.documents = x.next, !.next = NoDocument]
  <1>1. x \in SessionState /\ x.open \in Documented /\ x.next \in Documented
    BY DEF SessionAgrees, SessionState
  <1>2. x.next = x.open
    BY <1>1, NoMessages, AsksChangeNothing DEF SessionAgrees
  <1>3. <<>> \in Seq(Notices) /\ x.running = TRUE
    BY <1>1 DEF SessionState
  <1>4. /\ y \in SessionState /\ y.running = x.running /\ y.operation = "free" /\ y.left = <<>>
        /\ y.documents = x.next /\ y.open = x.open
    BY <1>1, <1>3, NoneDocumented, NoMessages DEF SessionState
  <1> HIDE DEF y
  <1>5. SessionAgrees(y)
    BY <1>2, <1>3, <1>4, NoMessages DEF SessionAgrees
  <1> QED  BY <1>3, <1>4, <1>5 DEF y

\* The diagnostics of the server are of documents, in their versions, and a
\* full queue of them stays a queue.
LEMMA PublishedNotices ==
  ASSUME NEW m \in Updating, NEW before \in Documented, NEW open \in Documented
  PROVE  Published(m, before, open) \in Seq(Notices)
  <1> DEFINE touched == SetToSeq({u \in Documents : open[u] # 0 \/ before[u] # 0})
  <1>1. \A u \in Documents : Notice(open, u) \in Notices
    BY DEF Notice, Notices, Documented
  <1>2. touched \in Seq(Documents)
    <2> DEFINE S == {u \in Documents : open[u] # 0 \/ before[u] # 0}
    <2>1. IsFiniteSet(S) /\ S \subseteq Documents
      BY SessionAssumption, FS_Subset
    <2> HIDE DEF S
    <2>2. SetToSeq(S) \in Seq(Documents)
      BY <2>1, Listed, SeqMonotonic
    <2> QED  BY <2>2 DEF S
  <1>3. Analysis(before, open) = [i \in DOMAIN touched |-> Notice(open, touched[i])]
    BY DEF Analysis
  <1> HIDE DEF touched
  <1>4. Len(touched) \in Nat /\ DOMAIN touched = 1..Len(touched)
    BY <1>2, LenProperties
  <1>5. \A i \in 1..Len(touched) : Notice(open, touched[i]) \in Notices
    BY <1>1, <1>2, ElementOfSeq
  <1>6. [i \in 1..Len(touched) |-> Notice(open, touched[i])] \in Seq(Notices)
    BY <1>4, <1>5, IsASeq
  <1>7. Analysis(before, open) \in Seq(Notices)
    BY <1>3, <1>4, <1>6
  <1>8. Notice(open, m.doc) \in Notices
    BY <1>1 DEF Updating
  <1>9. <<Notice(open, m.doc)>> \in Seq(Notices) /\ <<>> \in Seq(Notices)
    BY <1>8
  <1> QED  BY <1>7, <1>9, ConcatProperties DEF Published

LEMMA NewestKept ==
  ASSUME NEW es \in Seq(Notices)
  PROVE  KeepNewest(es) \in Seq(Notices)
  <1>1. MaxEvents \in Nat \ {0} /\ Len(es) \in Nat
    BY SessionAssumption, LenProperties
  <1>2. CASE Len(es) <= MaxEvents
    BY <1>2 DEF KeepNewest
  <1>3. CASE ~(Len(es) <= MaxEvents)
    <2>1. \A i \in (Len(es) - MaxEvents + 1)..Len(es) : es[i] \in Notices
      BY <1>1, <1>3, ElementOfSeq
    <2>2. Len(es) - MaxEvents + 1 \in Int /\ Len(es) \in Int
      BY <1>1
    <2>3. SubSeq(es, Len(es) - MaxEvents + 1, Len(es)) \in Seq(Notices)
      BY <2>1, <2>2, SubSeqProperties
    <2> QED  BY <1>3, <2>3 DEF KeepNewest
  <1> QED  BY <1>2, <1>3

\* The server takes a message.
LEMMA ServedAgrees ==
  ASSUME NEW x, SessionAgrees(x), x.running, x.left # <<>>
  PROVE  LET m == Head(x.left)
             open == [x.open EXCEPT ![m.doc] = m.version]
             y == IF Updates(m)
                  THEN [x EXCEPT !.left = Tail(@), !.open = open,
                                 !.events = KeepNewest(@ \o Published(m, x.open, open))]
                  ELSE [x EXCEPT !.left = Tail(@)]
         IN  /\ x.operation # "free"
             /\ y \in SessionState /\ SessionAgrees(y) /\ y.running = TRUE
             /\ y.operation = x.operation /\ y.documents = x.documents /\ y.next = x.next
  <1> DEFINE m == Head(x.left)
             open == [x.open EXCEPT ![m.doc] = m.version]
             events == KeepNewest(x.events \o Published(m, x.open, open))
             y == IF Updates(m)
                  THEN [x EXCEPT !.left = Tail(@), !.open = open,
                                 !.events = KeepNewest(@ \o Published(m, x.open, open))]
                  ELSE [x EXCEPT !.left = Tail(@)]
  <1>1. x \in SessionState /\ x.open \in Documented /\ x.left \in Seq(Messages) /\ Different(x.left)
    BY DEF SessionAgrees, SessionState
  <1>2. /\ m \in Messages /\ Tail(x.left) \in Seq(Messages) /\ Different(Tail(x.left))
        /\ Updates(m) => open \in Documented /\ Updated(open, Tail(x.left)) = Updated(x.open, x.left)
        /\ ~Updates(m) => Updated(x.open, Tail(x.left)) = Updated(x.open, x.left)
    BY <1>1, HeadThenTail
  <1> x.operation # "free" /\ x.running = TRUE
    BY <1>1 DEF SessionAgrees, SessionState
  <1>3. Updates(m) => events \in Seq(Notices)
    <2> SUFFICES ASSUME Updates(m) PROVE events \in Seq(Notices)
      OBVIOUS
    <2>1. m \in Updating /\ open \in Documented
      BY <1>2, UpdatingMessage
    <2> HIDE DEF m, open
    <2>2. Published(m, x.open, open) \in Seq(Notices)
      BY <1>1, <2>1, PublishedNotices
    <2>3. x.events \in Seq(Notices)
      BY <1>1 DEF SessionState
    <2>4. x.events \o Published(m, x.open, open) \in Seq(Notices)
      BY <2>2, <2>3, ConcatProperties
    <2> QED  BY <2>4, NewestKept
  <1> HIDE DEF m, open
  <1>4. /\ y \in SessionState /\ y.running = x.running /\ y.operation = x.operation
        /\ y.left = Tail(x.left) /\ y.next = x.next /\ y.documents = x.documents
        /\ y.open = IF Updates(m) THEN open ELSE x.open
    <2>1. CASE Updates(m)
      <3>1. y = [x EXCEPT !.left = Tail(x.left), !.open = open, !.events = events]
        BY <1>1, <2>1 DEF SessionState
      <3> HIDE DEF events, y
      <3> QED  BY <1>1, <1>2, <1>3, <2>1, <3>1 DEF SessionState
    <2>2. CASE ~Updates(m)
      <3>1. y = [x EXCEPT !.left = Tail(x.left)]
        BY <1>1, <2>2 DEF SessionState
      <3> HIDE DEF y
      <3> QED  BY <1>1, <1>2, <2>2, <3>1 DEF SessionState
    <2> QED  BY <2>1, <2>2
  <1> HIDE DEF y
  <1>5. SessionAgrees(y)
    BY <1>2, <1>4 DEF SessionAgrees
  <1> QED  BY <1>4, <1>5 DEF y, m, open
-----------------------------------------------------------------------------
(* The invariant.                                                           *)

SessionsAgree ==
  session \in [Sessions -> SessionState] /\ \A s \in Sessions : SessionAgrees(session[s])

CallsFit ==
  /\ call \in [Kinds -> [Sessions -> CallState]]
  /\ \A k \in Kinds, s \in Sessions : CallFits(k, call[k][s])

\* A request is in an exchange if and only if it holds the session's lock.
LocksHeld ==
  /\ \A k \in Posts, s \in Sessions : session[s].operation = k <=> Stage(k, s) = "inside"
  /\ creating \in Sessions => Stage("create", creating) = "inside"

\* The client listens to the requests of its session, and to no others.
Listening ==
  \A k \in Posts \cup {"poll"}, s \in Sessions :
    /\ Stage(k, s) \in {"sent", "inside"} => (call[k][s].heard <=> Current(s))
    /\ Stage(k, s) = "answered" => Current(s)

NotYetAsked ==
  \A s \in Sessions : s > generation =>
    session[s] = NewSession /\ \A k \in Kinds : call[k][s] = NoCall

\* Nothing is sent before the session is there.
Connecting ==
  ~disposed =>
    /\ Stage("create", generation) # "none" => ready = "pending"
    /\ ready = "pending" =>
         /\ status # "ready" /\ ~polling /\ sent = NoDocument
         /\ session[generation].documents = NoDocument
         /\ \A k \in Posts \cup {"poll"} : Stage(k, generation) = "none"

\* A client that is gone asks for nothing.
Quiet == disposed => ready = "no" /\ ~polling

\* What the session remembers, or will after the flush, and what the client
\* takes for sent, or will after it.
SentAgrees ==
  (~disposed /\ status = "ready") =>
    LET x == session[generation]
        c == call["flush"][generation]
    IN /\ c.stage = "none"   => (x.running => x.documents = sent)
       /\ c.stage = "sent"   => /\ Updated(sent, c.messages) = snapshot
                                /\ x.running => x.documents = sent
       /\ c.stage = "inside" => (x.running => x.next = snapshot)
       /\ c.stage = "answered" /\ c.result = "ok" => (x.running => x.documents = snapshot)

Linked == LocksHeld /\ Listening /\ NotYetAsked /\ Connecting /\ Quiet /\ SentAgrees

-----------------------------------------------------------------------------
(* One request, and one session, of many.                                   *)

Results == {"ok", "error", "gone", "lost"}

LEMMA NoCallFits ==
  ASSUME NEW k
  PROVE  NoCall \in CallState /\ NoCall.stage = "none" /\ CallFits(k, NoCall)
  <1>1. NoCall \in CallState /\ NoCall.stage = "none"
    BY DEF NoCall, CallState
  <1> QED  BY <1>1 DEF CallFits

LEMMA AnswerFits ==
  ASSUME NEW k, NEW r \in Results, NEW n \in Seq(Notices)
  PROVE  /\ Answered(r, n) \in CallState /\ CallFits(k, Answered(r, n))
         /\ Answered(r, n).stage = "answered" /\ Answered(r, n).result = r
  <1>1. Answered(r, n) \in CallState /\ Answered(r, n).stage = "answered" /\ Answered(r, n).result = r
    BY DEF Answered, CallState, Results
  <1> QED  BY <1>1 DEF CallFits

LEMMA SentIs ==
  ASSUME NEW ms \in Seq(Messages)
  PROVE  /\ Sent(ms) \in CallState /\ Sent(ms).stage = "sent"
         /\ Sent(ms).heard = TRUE /\ Sent(ms).messages = ms
  BY DEF Sent, CallState

LEMMA NoNotices == <<>> \in Seq(Notices) /\ {"ok", "error", "gone", "lost"} \subseteq Results
  BY DEF Results

LEMMA CallShapes ==
  ASSUME NEW c \in CallState
  PROVE  /\ c.stage \in {"none", "sent", "inside", "answered"}
         /\ c.stage = "none" => c = NoCall
         /\ c.stage \in {"sent", "inside"} => c.heard \in BOOLEAN
         /\ c.stage = "sent" => c.messages \in Seq(Messages)
         /\ c.stage = "answered" => c.notices \in Seq(Notices) /\ c.result \in Results
  BY DEF CallState, NoCall, Results

\* One request goes on.
Only(k, s) == \A j \in Kinds, t \in Sessions : j # k \/ t # s => call'[j][t] = call[j][t]

LEMMA OneCall ==
  ASSUME CallsFit, NEW k \in Kinds, NEW s \in Sessions, NEW c \in CallState, CallFits(k, c),
         call' = [call EXCEPT ![k][s] = c]
  PROVE  CallsFit' /\ call'[k][s] = c /\ Only(k, s)
  <1>1. call \in [Kinds -> [Sessions -> CallState]]
    BY DEF CallsFit
  <1>2. call' \in [Kinds -> [Sessions -> CallState]] /\ call'[k][s] = c /\ Only(k, s)
    BY <1>1 DEF Only
  <1> QED  BY <1>1, <1>2 DEF CallsFit, Only

\* A request is answered, if somebody listens.
Ends(k, s, r) ==
  \/ call[k][s].heard /\ Stage(k, s)' = "answered" /\ (call[k][s].result)' = r
  \/ ~call[k][s].heard /\ Stage(k, s)' = "none"

LEMMA OneReply ==
  ASSUME CallsFit, NEW k \in Kinds, NEW s \in Sessions, NEW r \in Results, NEW n \in Seq(Notices),
         Reply(k, s, r, n)
  PROVE  CallsFit' /\ Only(k, s) /\ Ends(k, s, r)
  <1> DEFINE c == IF call[k][s].heard THEN Answered(r, n) ELSE NoCall
  <1>1. c \in CallState /\ CallFits(k, c)
    BY NoCallFits, AnswerFits
  <1>2. call' = [call EXCEPT ![k][s] = c]
    BY DEF Reply
  <1> HIDE DEF c
  <1>3. CallsFit' /\ call'[k][s] = c /\ Only(k, s)
    BY <1>1, <1>2, OneCall
  <1>4. Ends(k, s, r)
    BY <1>3, NoCallFits, AnswerFits DEF Ends, Stage, c
  <1> QED  BY <1>3, <1>4

\* A request is let in.
LEMMA OneEntry ==
  ASSUME CallsFit, NEW k \in Kinds, NEW s \in Sessions, Stage(k, s) = "sent",
         call' = [call EXCEPT ![k][s] = Inside(@)]
  PROVE  /\ CallsFit' /\ Only(k, s)
         /\ Stage(k, s)' = "inside" /\ (call[k][s].heard)' = call[k][s].heard
  <1> DEFINE c == Inside(call[k][s])
  <1>1. call[k][s] \in CallState /\ call[k][s].heard \in BOOLEAN
    BY CallShapes DEF CallsFit, Stage
  <1>2. c \in CallState /\ c.stage = "inside" /\ c.heard = call[k][s].heard
    BY <1>1 DEF Inside, CallState
  <1>3. CallFits(k, c)
    BY <1>2 DEF CallFits
  <1>4. call' = [call EXCEPT ![k][s] = c]
    OBVIOUS
  <1> HIDE DEF c
  <1> QED  BY <1>2, <1>3, <1>4, OneCall DEF Stage

\* Sessions are closed, and one of the others changes.
LEMMA ManySessions ==
  ASSUME SessionsAgree, NEW S \in SUBSET Sessions
  PROVE  /\ Closed(S) \in [Sessions -> SessionState]
         /\ \A t \in Sessions : SessionAgrees(Closed(S)[t])
         /\ \A t \in Sessions : Closed(S)[t] = IF t \in S THEN Ended(session[t]) ELSE session[t]
  <1>1. \A t \in Sessions : Closed(S)[t] = IF t \in S THEN Ended(session[t]) ELSE session[t]
    BY DEF Closed
  <1>2. \A t \in Sessions : SessionAgrees(Closed(S)[t]) /\ Closed(S)[t] \in SessionState
    BY <1>1, EndedAgrees DEF SessionsAgree
  <1>3. Closed(S) = [t \in Sessions |-> Closed(S)[t]]
    BY DEF Closed
  <1> QED  BY <1>1, <1>2, <1>3

LEMMA OneSession ==
  ASSUME NEW f \in [Sessions -> SessionState], \A t \in Sessions : SessionAgrees(f[t]),
         NEW s \in Sessions, NEW y \in SessionState, SessionAgrees(y),
         session' = [f EXCEPT ![s] = y]
  PROVE  SessionsAgree' /\ session'[s] = y /\ \A t \in Sessions \ {s} : session'[t] = f[t]
  BY DEF SessionsAgree

-----------------------------------------------------------------------------
(* What a step of the service may do to a session and its requests.         *)

Unchanged(k, s) == call'[k][s] = call[k][s]
Refused(k, s)   == Stage(k, s) = "sent" /\ \E r \in Results \ {"ok"} : Ends(k, s, r)
Polled(s)       == Stage("poll", s) = "sent" /\ \E r \in Results : Ends("poll", s, r)

\* No exchange begins or ends: the session goes on, or is closed.
Rests(s) ==
  /\ session'[s].operation = session[s].operation
  /\ session'[s].running =>
       /\ session[s].running /\ session'[s].documents = session[s].documents
       /\ session'[s].next = session[s].next
  /\ session'[s].documents \in {session[s].documents, NoDocument}
  /\ session[s] = NewSession => session'[s] = NewSession
  /\ \A k \in Posts : Unchanged(k, s) \/ Refused(k, s)

Starts(s) ==
  /\ Stage("create", s) = "sent"
  /\ session'[s].operation = session[s].operation /\ session'[s].documents = NoDocument
  /\ \A k \in Posts : Unchanged(k, s)

Begins(k, s) ==
  /\ Stage(k, s) = "sent" /\ session[s].running /\ session[s].operation = "free"
  /\ session'[s].operation = k /\ session'[s].running
  /\ session'[s].documents = session[s].documents
  /\ session'[s].next = Updated(session[s].documents, call[k][s].messages)
  /\ Stage(k, s)' = "inside" /\ (call[k][s].heard)' = call[k][s].heard
  /\ \A j \in Posts \ {k} : Unchanged(j, s)

Completes(k, s) ==
  /\ session[s].operation = k /\ session[s].running
  /\ session'[s].operation = "free" /\ session'[s].documents = session[s].next
  /\ Ends(k, s, "ok")
  /\ \A j \in Posts \ {k} : Unchanged(j, s)

GivesUp(k, s) ==
  /\ session[s].operation = k /\ session'[s] = NewSession
  /\ Ends(k, s, "error")
  /\ \A j \in Posts \ {k} : Unchanged(j, s)

SessionStep(s) ==
  Rests(s) \/ Starts(s) \/ \E k \in Posts : Begins(k, s) \/ Completes(k, s) \/ GivesUp(k, s)

ServiceStep ==
  /\ SessionsAgree' /\ CallsFit'
  /\ \A s \in Sessions :
       /\ SessionStep(s)
       /\ Unchanged("poll", s) \/ Polled(s)
       /\ \A k \in {"create", "delete"} : Stage(k, s) = "none" => Unchanged(k, s)
  /\ registered' \subseteq Sessions /\ idle' \subseteq registered'
  /\ creating' \in Sessions \cup {NoSession}
  /\ (creating \in Sessions => Stage("create", creating) = "inside")'

ClientKept == UNCHANGED <<generation, disposed, status, ready, sent, snapshot, polling>>

\* Such steps keep what links the client to its session.
LEMMA ServiceKeepsLinks ==
  ASSUME SessionsAgree, CallsFit, Linked, generation \in Sessions, disposed \in BOOLEAN,
         ServiceStep, ClientKept
  PROVE  Linked'
  <1>1. /\ session \in [Sessions -> SessionState] /\ session' \in [Sessions -> SessionState]
        /\ \A k \in Kinds, s \in Sessions : call[k][s] \in CallState /\ call'[k][s] \in CallState
    BY DEF ServiceStep, SessionsAgree, CallsFit
  <1>2. \A s \in Sessions : /\ session[s].operation \in Posts \cup {"free"}
                            /\ session'[s].operation \in Posts \cup {"free"}
                            /\ session[s].running \in BOOLEAN /\ session'[s].running \in BOOLEAN
    BY <1>1 DEF SessionState
  <1>3. LocksHeld'
    <2>1. ASSUME NEW s \in Sessions, NEW k \in Posts
          PROVE  session'[s].operation = k <=> Stage(k, s)' = "inside"
      <3>1. session[s].operation = k <=> Stage(k, s) = "inside"
        BY DEF Linked, LocksHeld
      <3>2. CASE Rests(s)
        BY <3>1, <3>2 DEF Rests, Unchanged, Refused, Ends, Stage
      <3>3. CASE Starts(s)
        BY <3>1, <3>3 DEF Starts, Unchanged, Stage
      <3>4. ASSUME NEW j \in Posts, Begins(j, s)
            PROVE  session'[s].operation = k <=> Stage(k, s)' = "inside"
        BY <3>1, <3>4 DEF Begins, Unchanged, Stage, Posts
      <3>5. ASSUME NEW j \in Posts, Completes(j, s)
            PROVE  session'[s].operation = k <=> Stage(k, s)' = "inside"
        BY <3>1, <3>5 DEF Completes, Unchanged, Stage, Posts, Ends
      <3>6. ASSUME NEW j \in Posts, GivesUp(j, s)
            PROVE  session'[s].operation = k <=> Stage(k, s)' = "inside"
        BY <3>1, <3>6 DEF GivesUp, Unchanged, Stage, Posts, Ends, NewSession
      <3> QED  BY <3>2, <3>3, <3>4, <3>5, <3>6 DEF ServiceStep, SessionStep
    <2> QED  BY <2>1 DEF ServiceStep, LocksHeld
  <1>4. Listening'
    <2>1. \A s \in Sessions : Current(s)' <=> Current(s)
      BY DEF Current, ClientKept
    <2>2. ASSUME NEW s \in Sessions, NEW k \in Posts \cup {"poll"}
          PROVE  \/ Unchanged(k, s)
                 \/ /\ Stage(k, s) \in {"sent", "inside"}
                    /\ \/ Stage(k, s)' = "inside" /\ (call[k][s].heard)' = call[k][s].heard
                       \/ \E r \in Results : Ends(k, s, r)
      <3>1. CASE k = "poll"
        BY <3>1 DEF ServiceStep, Polled
      <3>2. CASE k \in Posts
        <4>1. CASE Rests(s)
          BY <3>2, <4>1 DEF Rests, Refused
        <4>2. CASE Starts(s)
          BY <3>2, <4>2 DEF Starts
        <4>3. ASSUME NEW j \in Posts, Begins(j, s) \/ Completes(j, s) \/ GivesUp(j, s)
              PROVE  \/ Unchanged(k, s)
                     \/ /\ Stage(k, s) \in {"sent", "inside"}
                        /\ \/ Stage(k, s)' = "inside" /\ (call[k][s].heard)' = call[k][s].heard
                           \/ \E r \in Results : Ends(k, s, r)
          <5>1. CASE j # k
            BY <3>2, <4>3, <5>1 DEF Begins, Completes, GivesUp
          <5>2. CASE j = k
            <6>1. session[s].operation = k => Stage(k, s) = "inside"
              BY <3>2 DEF Linked, LocksHeld
            <6> QED  BY <4>3, <5>2, <6>1 DEF Begins, Completes, GivesUp, Results
          <5> QED  BY <5>1, <5>2
        <4> QED  BY <3>2, <4>1, <4>2, <4>3 DEF ServiceStep, SessionStep
      <3> QED  BY <3>1, <3>2
    <2>3. ASSUME NEW s \in Sessions, NEW k \in Posts \cup {"poll"}
          PROVE  /\ Stage(k, s)' \in {"sent", "inside"} => ((call[k][s].heard)' <=> Current(s))
                 /\ Stage(k, s)' = "answered" => Current(s)
      <3>1. /\ Stage(k, s) \in {"sent", "inside"} => (call[k][s].heard <=> Current(s))
            /\ Stage(k, s) = "answered" => Current(s)
        BY DEF Linked, Listening
      <3>2. CASE Unchanged(k, s)
        BY <3>1, <3>2 DEF Unchanged, Stage
      <3>3. CASE /\ Stage(k, s) \in {"sent", "inside"}
                 /\ Stage(k, s)' = "inside" /\ (call[k][s].heard)' = call[k][s].heard
        BY <3>1, <3>3
      <3>4. ASSUME Stage(k, s) \in {"sent", "inside"}, NEW r \in Results, Ends(k, s, r)
            PROVE  /\ Stage(k, s)' \in {"sent", "inside"} => ((call[k][s].heard)' <=> Current(s))
                   /\ Stage(k, s)' = "answered" => Current(s)
        BY <3>1, <3>4 DEF Ends
      <3> QED  BY <2>2, <3>2, <3>3, <3>4
    <2> QED  BY <2>1, <2>3 DEF Listening
  <1>5. NotYetAsked'
    <2> SUFFICES ASSUME NEW s \in Sessions, s > generation
                 PROVE  session'[s] = NewSession /\ \A k \in Kinds : call'[k][s] = NoCall
      BY DEF NotYetAsked, ClientKept
    <2>1. session[s] = NewSession /\ \A k \in Kinds : call[k][s] = NoCall
      BY DEF Linked, NotYetAsked
    <2>2. \A k \in Kinds : Stage(k, s) = "none"
      BY <2>1 DEF Stage, NoCall
    <2>3. Rests(s)
      <3>1. \A k \in Kinds : Stage(k, s) # "sent"
        BY <2>2
      <3>2. session[s].operation = "free" /\ ~session[s].running
        BY <2>1 DEF NewSession
      <3> QED  BY <3>1, <3>2 DEF ServiceStep, SessionStep, Starts, Begins, Completes, GivesUp, Posts, Kinds
    <2>4. \A k \in Kinds : Unchanged(k, s)
      BY <2>2, <2>3 DEF Rests, Refused, Polled, ServiceStep, Kinds, Posts
    <2> QED  BY <2>1, <2>3, <2>4 DEF Rests, Unchanged
  <1>6. Connecting'
    <2> SUFFICES ASSUME ~disposed PROVE Connecting'
      BY DEF Connecting, ClientKept
    <2>0. PICK g \in Sessions : g = generation /\ g = generation'
      BY DEF ClientKept
    <2>1. Stage("create", generation)' # "none" => Stage("create", generation) # "none"
      BY <2>0 DEF ServiceStep, Unchanged, Stage, ClientKept
    <2>2. ASSUME ready = "pending"
          PROVE  /\ session'[g].documents = NoDocument
                 /\ \A k \in Posts \cup {"poll"} : Stage(k, g)' = "none"
      <3>1. /\ session[g].documents = NoDocument
            /\ \A k \in Posts \cup {"poll"} : Stage(k, g) = "none"
        BY <2>0, <2>2 DEF Linked, Connecting
      <3>2. \A k \in Posts : session[g].operation # k
        BY <3>1 DEF Linked, LocksHeld
      <3>3. Rests(g) \/ Starts(g)
        BY <3>1, <3>2 DEF ServiceStep, SessionStep, Begins, Completes, GivesUp
      <3>4. \A k \in Posts \cup {"poll"} : Unchanged(k, g)
        BY <3>1, <3>3 DEF Rests, Starts, Refused, ServiceStep, Polled
      <3> QED  BY <3>1, <3>3, <3>4 DEF Rests, Starts, Unchanged, Stage, ClientKept
    <2> QED  BY <2>0, <2>1, <2>2 DEF Linked, Connecting, ClientKept, Stage
  <1>7. SentAgrees'
    <2> SUFFICES ASSUME ~disposed, status = "ready" PROVE SentAgrees'
      BY DEF SentAgrees, ClientKept
    <2>0. PICK g \in Sessions : g = generation /\ g = generation'
      BY DEF ClientKept
    <2> DEFINE x == session[g]
               y == session'[g]
               c == call["flush"][g]
               d == call'["flush"][g]
    <2>1. /\ c.stage = "none"   => (x.running => x.documents = sent)
          /\ c.stage = "sent"   => /\ Updated(sent, c.messages) = snapshot
                                   /\ x.running => x.documents = sent
          /\ c.stage = "inside" => (x.running => x.next = snapshot)
          /\ c.stage = "answered" /\ c.result = "ok" => (x.running => x.documents = snapshot)
      BY <2>0 DEF Linked, SentAgrees
    <2>2. Stage("create", g) = "none"
      BY <2>0 DEF Linked, Connecting
    <2>3. /\ "flush" \in Posts /\ "ask" \in Posts /\ Posts = {"flush", "ask"}
          /\ "flush" \in Kinds /\ "ask" \in Kinds
      BY DEF Posts, Kinds
    <2>4. \A k \in Posts : x.operation = k <=> Stage(k, g) = "inside"
      BY <2>0 DEF Linked, LocksHeld
    <2>5. \A k \in Posts : Stage(k, g) \in {"sent", "inside"} => call[k][g].heard
      BY <2>0 DEF Linked, Listening, Current
    <2>6. c.stage = Stage("flush", g) /\ d.stage = Stage("flush", g)'
      BY DEF Stage, ClientKept
    <2> SUFFICES /\ d.stage = "none"   => (y.running => y.documents = sent)
                 /\ d.stage = "sent"   => /\ Updated(sent, d.messages) = snapshot
                                          /\ y.running => y.documents = sent
                 /\ d.stage = "inside" => (y.running => y.next = snapshot)
                 /\ d.stage = "answered" /\ d.result = "ok" => (y.running => y.documents = snapshot)
      BY <2>0 DEF SentAgrees, ClientKept
    <2>7. CASE Rests(g)
      <3>1. CASE Unchanged("flush", g)
        BY <2>1, <2>7, <3>1 DEF Rests, Unchanged
      <3>2. CASE Refused("flush", g)
        BY <2>1, <2>3, <2>5, <2>6, <2>7, <3>2 DEF Rests, Refused, Ends
      <3> QED  BY <2>3, <2>7, <3>1, <3>2 DEF Rests
    <2>8. CASE Starts(g)
      BY <2>2, <2>8 DEF Starts
    <2>9. CASE Begins("flush", g)
      <3>1. c.stage = "sent" /\ d.stage = "inside"
        BY <2>6, <2>9 DEF Begins
      <3>2. x.documents = sent /\ y.next = Updated(x.documents, c.messages)
        BY <2>1, <2>9, <3>1 DEF Begins
      <3> QED  BY <2>1, <3>1, <3>2
    <2>10. CASE Begins("ask", g)
      <3>1. d = c
        BY <2>3, <2>10 DEF Begins, Unchanged
      <3>2. c.stage # "inside"
        BY <2>3, <2>4, <2>6, <2>10 DEF Begins
      <3>3. x.running /\ y.documents = x.documents
        BY <2>10 DEF Begins
      <3> QED  BY <2>1, <3>1, <3>2, <3>3
    <2>11. CASE Completes("flush", g)
      <3>1. c.stage = "inside" /\ x.running /\ y.documents = x.next
        BY <2>3, <2>4, <2>6, <2>11 DEF Completes
      <3>2. d.stage = "answered"
        BY <2>3, <2>4, <2>5, <2>6, <2>11 DEF Completes, Ends
      <3> QED  BY <2>1, <3>1, <3>2
    <2>12. CASE Completes("ask", g)
      <3>1. d = c
        BY <2>3, <2>12 DEF Completes, Unchanged
      <3>2. c.stage # "inside" /\ x.running
        BY <2>3, <2>4, <2>6, <2>12 DEF Completes
      <3>3. y.documents = x.documents
        <4>1. SessionAgrees(x) /\ x.operation = "ask"
          BY <2>12 DEF SessionsAgree, Completes
        <4>2. x.next = x.documents
          BY <4>1 DEF SessionAgrees
        <4> QED  BY <2>12, <4>2 DEF Completes
      <3> QED  BY <2>1, <3>1, <3>2, <3>3
    <2>13. ASSUME NEW k \in Posts, GivesUp(k, g)
           PROVE  /\ ~y.running
                  /\ d.stage \in {"inside", "answered"} => d = c \/ d.result = "error"
                  /\ d.stage = "sent" => d = c
                  /\ d.stage = "none" => ~y.running
      <3>1. ~y.running
        BY <2>13 DEF GivesUp, NewSession
      <3>2. CASE k = "flush"
        BY <2>6, <2>13, <3>1, <3>2 DEF GivesUp, Ends, ClientKept
      <3>3. CASE k # "flush"
        BY <2>3, <2>13, <3>1, <3>3 DEF GivesUp, Unchanged
      <3> QED  BY <3>2, <3>3
    <2>14. SessionStep(g)
      BY DEF ServiceStep
    <2> HIDE DEF x, y, c, d
    <2>15. \A k \in Posts : k = "flush" \/ k = "ask"
      BY <2>3
    <2> QED
      BY <2>1, <2>7, <2>8, <2>9, <2>10, <2>11, <2>12, <2>13, <2>14, <2>15 DEF SessionStep
  <1>8. Quiet'
    BY DEF Linked, Quiet, ClientKept
  <1> QED  BY <1>3, <1>4, <1>5, <1>6, <1>7, <1>8 DEF Linked
-----------------------------------------------------------------------------
(* The steps of the service are such steps.                                 *)

RegistryOK ==
  /\ registered \subseteq Sessions /\ idle \subseteq registered
  /\ creating \in Sessions \cup {NoSession}

LEMMA ClosedRests ==
  ASSUME SessionsAgree, NEW s \in Sessions, session'[s] \in {session[s], Ended(session[s])},
         \A k \in Posts : Unchanged(k, s) \/ Refused(k, s)
  PROVE  Rests(s)
  <1>1. SessionAgrees(session[s])
    BY DEF SessionsAgree
  <1>2. NewSession = Ended(NewSession)
    BY DEF NewSession, Ended
  <1> QED  BY <1>1, <1>2, EndedAgrees DEF Rests

LEMMA OnlyOthers ==
  ASSUME NEW k \in Kinds, NEW s \in Sessions, Only(k, s)
  PROVE  \A j \in Kinds, t \in Sessions : j # k \/ t # s => Unchanged(j, t)
  BY DEF Only, Unchanged

LEMMA CreatingKept ==
  ASSUME LocksHeld, creating' = creating, \A s \in Sessions : Unchanged("create", s)
  PROVE  (creating \in Sessions => Stage("create", creating) = "inside")'
  BY DEF LocksHeld, Unchanged, Stage

LEMMA NoneIsCreating ==
  ASSUME creating' = NoSession
  PROVE  /\ creating' \in Sessions \cup {NoSession}
         /\ (creating \in Sessions => Stage("create", creating) = "inside")'
  BY SessionAssumption

LEMMA ExpiredRegistered == RegistryOK => Expired \in SUBSET Sessions
  BY DEF RegistryOK, Expired

LEMMA KindsAre == /\ Posts = {"flush", "ask"} /\ Posts \subseteq Kinds
                  /\ {"create", "poll", "delete"} \subseteq Kinds \ Posts
  BY DEF Posts, Kinds

\* Only sessions change: they are closed, or one of them goes on as it was.
LEMMA CallsRest ==
  ASSUME SessionsAgree, CallsFit, LocksHeld, SessionsAgree', call' = call,
         \A t \in Sessions : session'[t] \in {session[t], Ended(session[t])} \/ Rests(t),
         registered' \subseteq Sessions, idle' \subseteq registered',
         creating \in Sessions \cup {NoSession}, creating' = creating
  PROVE  ServiceStep
  <1>1. \A k \in Kinds, t \in Sessions : Unchanged(k, t)
    BY DEF Unchanged
  <1>2. CallsFit'
    BY DEF CallsFit
  <1>3. \A t \in Sessions : SessionStep(t)
    BY <1>1, KindsAre, ClosedRests DEF SessionStep
  <1> QED  BY <1>1, <1>2, <1>3, CreatingKept, KindsAre DEF ServiceStep

LEMMA ReapSteps ==
  ASSUME SessionsAgree, CallsFit, LocksHeld, RegistryOK, Reap
  PROVE  ServiceStep
  <1>1. SessionsAgree' /\ \A t \in Sessions : session'[t] \in {session[t], Ended(session[t])}
    BY ExpiredRegistered, ManySessions DEF Reap, SessionsAgree
  <1> QED  BY <1>1, CallsRest DEF Reap, RegistryOK

LEMMA AgeSteps ==
  ASSUME SessionsAgree, CallsFit, LocksHeld, RegistryOK, NEW s \in Sessions, Age(s)
  PROVE  ServiceStep
  <1>1. SessionsAgree' /\ \A t \in Sessions : session'[t] \in {session[t], Ended(session[t])}
    BY DEF Age, SessionsAgree
  <1>2. /\ call' = call /\ creating' = creating
        /\ registered' \subseteq Sessions /\ idle' \subseteq registered'
    BY DEF Age, RegistryOK
  <1> QED  BY <1>1, <1>2, CallsRest DEF RegistryOK

LEMMA ServerEndsSteps ==
  ASSUME SessionsAgree, CallsFit, LocksHeld, RegistryOK, NEW s \in Sessions, ServerEnds(s)
  PROVE  ServiceStep
  <1>1. SessionAgrees(session[s]) /\ session \in [Sessions -> SessionState]
    BY DEF SessionsAgree
  <1>2. session' = [session EXCEPT ![s] = Ended(session[s])]
    BY DEF ServerEnds
  <1>3. SessionsAgree' /\ \A t \in Sessions : session'[t] \in {session[t], Ended(session[t])}
    BY <1>1, <1>2, EndedAgrees, OneSession DEF SessionsAgree
  <1>4. /\ call' = call /\ creating' = creating
        /\ registered' \subseteq Sessions /\ idle' \subseteq registered'
    BY DEF ServerEnds, RegistryOK, registryVars
  <1> QED  BY <1>3, <1>4, CallsRest DEF RegistryOK

LEMMA ServeSteps ==
  ASSUME SessionsAgree, CallsFit, LocksHeld, RegistryOK, NEW s \in Sessions, Serve(s)
  PROVE  ServiceStep
  <1> DEFINE x == session[s]
             m == Head(x.left)
             open == [x.open EXCEPT ![m.doc] = m.version]
             y == IF Updates(m)
                  THEN [x EXCEPT !.left = Tail(@), !.open = open,
                                 !.events = KeepNewest(@ \o Published(m, x.open, open))]
                  ELSE [x EXCEPT !.left = Tail(@)]
  <1>1. SessionAgrees(x) /\ session \in [Sessions -> SessionState] /\ x.running /\ x.left # <<>>
    BY DEF SessionsAgree, Serve
  <1>2. session' = [session EXCEPT ![s] = y]
    <2>1. x \in SessionState
      BY <1>1
    <2> HIDE DEF m, open
    <2> QED  BY <1>1, <2>1 DEF Serve, m, open, SessionState
  <1>3. /\ x.operation # "free" /\ y \in SessionState /\ SessionAgrees(y) /\ y.running = TRUE
        /\ y.operation = x.operation /\ y.documents = x.documents /\ y.next = x.next
    <2> HIDE DEF x
    <2> QED  BY <1>1, ServedAgrees
  <1> HIDE DEF y
  <1>4. SessionsAgree' /\ session'[s] = y /\ \A t \in Sessions \ {s} : session'[t] = session[t]
    BY <1>1, <1>2, <1>3, OneSession DEF SessionsAgree
  <1>5. /\ call' = call /\ creating' = creating
        /\ registered' \subseteq Sessions /\ idle' \subseteq registered'
    BY DEF Serve, RegistryOK, registryVars
  <1>6. Rests(s)
    <2>1. \A k \in Posts : Unchanged(k, s)
      BY <1>5 DEF Unchanged
    <2>2. x # NewSession
      BY <1>1 DEF NewSession
    <2> QED  BY <1>1, <1>3, <1>4, <2>1, <2>2 DEF Rests
  <1>7. \A t \in Sessions : session'[t] \in {session[t], Ended(session[t])} \/ Rests(t)
    BY <1>4, <1>6
  <1> QED  BY <1>4, <1>5, <1>7, CallsRest DEF RegistryOK

LEMMA CreateBeginSteps ==
  ASSUME SessionsAgree, CallsFit, LocksHeld, RegistryOK, NEW s \in Sessions, CreateBegin(s)
  PROVE  ServiceStep
  <1>1. /\ Stage("create", s) = "sent" /\ creating = NoSession
        /\ registered' \subseteq Sessions /\ idle' \subseteq registered'
    BY DEF CreateBegin, RegistryOK
  <1> DEFINE f == Closed(Expired)
  <1>2. /\ f \in [Sessions -> SessionState] /\ \A t \in Sessions : SessionAgrees(f[t])
        /\ \A t \in Sessions : f[t] \in {session[t], Ended(session[t])}
    BY ExpiredRegistered, ManySessions
  <1> HIDE DEF f
  <1>3. CASE Cardinality(registered') < MaxSessions
    <2>1. /\ creating' = s /\ session' = [f EXCEPT ![s].running = TRUE]
          /\ call' = [call EXCEPT !["create"][s] = Inside(@)]
      BY <1>3 DEF CreateBegin, f
    <2>2. CallsFit' /\ Only("create", s) /\ Stage("create", s)' = "inside"
      BY <1>1, <2>1, OneEntry, KindsAre
    <2> DEFINE y == [f[s] EXCEPT !.running = TRUE]
    <2>3. SessionAgrees(session[s]) /\ f[s] \in SessionState /\ SessionAgrees(f[s])
      BY <1>2 DEF SessionsAgree
    <2>4. session' = [f EXCEPT ![s] = y]
      BY <1>2, <2>1, <2>3
    <2>5. \A t \in Sessions, k \in Kinds \ {"create"} : Unchanged(k, t)
      BY <2>2, OnlyOthers, KindsAre
    <2>6. \A t \in Sessions : Stage("create", t) = "none" => Unchanged("create", t)
      BY <1>1, <2>2, OnlyOthers, KindsAre
    <2>7. (creating \in Sessions => Stage("create", creating) = "inside")'
      BY <2>1, <2>2 DEF Stage
    <2>8. y \in SessionState /\ SessionAgrees(y) /\ (Rests(s) \/ Starts(s))
      <3>1. CASE f[s].running
        <4>1. y = f[s]
          BY <2>3, <3>1 DEF SessionState
        <4>2. session' = f
          BY <1>2, <2>4, <4>1
        <4>3. Rests(s)
          BY <1>2, <2>5, <4>2, ClosedRests, KindsAre
        <4> QED  BY <2>3, <4>1, <4>3
      <3>2. CASE ~f[s].running
        <4>1. y \in SessionState /\ SessionAgrees(y) /\ y.operation = f[s].operation /\ y.documents = NoDocument
          BY <2>3, <3>2, StartedAgrees
        <4> HIDE DEF y
        <4>2. session'[s] = y
          BY <1>2, <2>4
        <4>3. f[s].operation = session[s].operation
          BY <1>2, <2>3, EndedAgrees
        <4>4. Starts(s)
          BY <1>1, <2>5, <4>1, <4>2, <4>3, KindsAre DEF Starts
        <4> QED  BY <4>1, <4>4
      <3> QED  BY <3>1, <3>2
    <2> HIDE DEF y
    <2>9. SessionsAgree' /\ \A t \in Sessions \ {s} : session'[t] = f[t]
      BY <1>2, <2>4, <2>8, OneSession
    <2>10. \A t \in Sessions : SessionStep(t)
      <3>1. \A t \in Sessions \ {s} : Rests(t)
        BY <1>2, <2>5, <2>9, ClosedRests, KindsAre
      <3> QED  BY <2>8, <3>1 DEF SessionStep
    <2> QED  BY <1>1, <2>1, <2>2, <2>5, <2>6, <2>7, <2>9, <2>10, KindsAre DEF ServiceStep
  <1>4. CASE ~(Cardinality(registered') < MaxSessions)
    <2>1. Reply("create", s, "error", <<>>) /\ session' = f /\ creating' = creating
      BY <1>4 DEF CreateBegin, f
    <2>2. CallsFit' /\ Only("create", s)
      BY <2>1, OneReply, KindsAre, NoNotices
    <2>3. SessionsAgree'
      BY <1>2, <2>1 DEF SessionsAgree
    <2>4. \A t \in Sessions, k \in Kinds \ {"create"} : Unchanged(k, t)
      BY <2>2, OnlyOthers, KindsAre
    <2>5. \A t \in Sessions : Stage("create", t) = "none" => Unchanged("create", t)
      BY <1>1, <2>2, OnlyOthers, KindsAre
    <2>6. \A t \in Sessions : SessionStep(t)
      BY <1>2, <2>1, <2>4, ClosedRests, KindsAre DEF SessionStep
    <2> QED  BY <1>1, <2>1, <2>2, <2>3, <2>4, <2>5, <2>6, NoneIsCreating, KindsAre DEF ServiceStep
  <1> QED  BY <1>3, <1>4

LEMMA CreateEndSteps ==
  ASSUME SessionsAgree, CallsFit, LocksHeld, RegistryOK, NEW s \in Sessions, CreateEnd(s)
  PROVE  ServiceStep
  <1>1. Stage("create", s) = "inside"
    BY DEF CreateEnd, LocksHeld
  <1>2. creating' = NoSession /\ registered' \subseteq Sessions /\ idle' \subseteq registered'
    BY DEF CreateEnd, RegistryOK
  <1>3. CallsFit' /\ Only("create", s)
    <2>1. Reply("create", s, "ok", <<>>) \/ Reply("create", s, "error", <<>>)
      BY DEF CreateEnd
    <2> QED  BY <2>1, OneReply, KindsAre, NoNotices
  <1>4. SessionsAgree' /\ \A t \in Sessions : session'[t] \in {session[t], Ended(session[t])}
    <2>1. CASE session' = session
      BY <2>1 DEF SessionsAgree
    <2>2. CASE session' = Closed({s})
      BY <2>2, ManySessions DEF SessionsAgree
    <2> QED  BY <2>1, <2>2 DEF CreateEnd
  <1>5. \A t \in Sessions, k \in Kinds \ {"create"} : Unchanged(k, t)
    BY <1>3, OnlyOthers, KindsAre
  <1>6. \A t \in Sessions : Stage("create", t) = "none" => Unchanged("create", t)
    BY <1>1, <1>3, OnlyOthers, KindsAre
  <1>7. \A t \in Sessions : SessionStep(t)
    BY <1>4, <1>5, ClosedRests, KindsAre DEF SessionStep
  <1> QED  BY <1>2, <1>3, <1>4, <1>5, <1>6, <1>7, NoneIsCreating, KindsAre DEF ServiceStep

LEMMA DeleteSteps ==
  ASSUME SessionsAgree, CallsFit, LocksHeld, RegistryOK, NEW s \in Sessions, Delete(s)
  PROVE  ServiceStep
  <1>1. Stage("delete", s) = "sent"
    BY DEF Delete
  <1>2. creating' = NoSession /\ registered' \subseteq Sessions /\ idle' \subseteq registered'
    BY DEF Delete, RegistryOK
  <1>3. CallsFit' /\ Only("delete", s)
    <2>1. call' = [call EXCEPT !["delete"][s] = NoCall]
      BY DEF Delete
    <2> QED  BY <2>1, OneCall, NoCallFits, KindsAre
  <1>4. SessionsAgree' /\ \A t \in Sessions : session'[t] \in {session[t], Ended(session[t])}
    <2>1. session' = Closed({s} \cap registered) /\ {s} \cap registered \in SUBSET Sessions
      BY DEF Delete
    <2> QED  BY <2>1, ManySessions DEF SessionsAgree
  <1>5. \A t \in Sessions, k \in Kinds \ {"delete"} : Unchanged(k, t)
    BY <1>3, OnlyOthers, KindsAre
  <1>6. \A t \in Sessions : Stage("delete", t) = "none" => Unchanged("delete", t)
    BY <1>1, <1>3, OnlyOthers, KindsAre
  <1>7. \A t \in Sessions : SessionStep(t)
    BY <1>4, <1>5, ClosedRests, KindsAre DEF SessionStep
  <1> QED  BY <1>2, <1>3, <1>4, <1>5, <1>6, <1>7, NoneIsCreating, KindsAre DEF ServiceStep

\* The session is looked up, and what has expired is closed.
LEMMA Looked ==
  ASSUME SessionsAgree, RegistryOK, NEW k \in Posts \cup {"poll"}, NEW s \in Sessions, Lookup(k, s)
  PROVE  /\ creating' = NoSession /\ registered' \subseteq Sessions /\ idle' \subseteq registered'
         /\ Stage(k, s) = "sent"
         /\ s \in registered' => session[s].running /\ Closed(Expired)[s] = session[s]
  <1>1. /\ creating' = NoSession /\ registered' \subseteq Sessions /\ idle' \subseteq registered'
        /\ Stage(k, s) = "sent"
    BY DEF Lookup, RegistryOK
  <1>2. s \in registered' => s \notin Expired /\ session[s].running
    BY DEF Lookup, Expired
  <1>3. Closed(Expired)[s] = IF s \in Expired THEN Ended(session[s]) ELSE session[s]
    BY ExpiredRegistered, ManySessions
  <1> QED  BY <1>1, <1>2, <1>3

\* What is refused changes nothing else.
LEMMA RefusedSteps ==
  ASSUME SessionsAgree, CallsFit, LocksHeld, RegistryOK,
         NEW k \in Posts \cup {"poll"}, NEW s \in Sessions, Lookup(k, s),
         NEW r \in {"error", "gone"}, Reply(k, s, r, <<>>), session' = Closed(Expired)
  PROVE  ServiceStep
  <1>1. CallsFit' /\ Only(k, s) /\ Ends(k, s, r)
    BY OneReply, KindsAre, NoNotices
  <1>2. SessionsAgree' /\ \A t \in Sessions : session'[t] \in {session[t], Ended(session[t])}
    BY ExpiredRegistered, ManySessions DEF SessionsAgree
  <1>3. \A t \in Sessions, j \in Kinds : Unchanged(j, t) \/ (j = k /\ t = s)
    BY <1>1, OnlyOthers, KindsAre
  <1>4. Refused(k, s) /\ (k = "poll" => Polled(s))
    BY <1>1, Looked DEF Refused, Polled, Results
  <1>5. \A t \in Sessions : Unchanged("poll", t) \/ Polled(t)
    BY <1>3, <1>4, KindsAre
  <1>6. \A t \in Sessions : SessionStep(t)
    BY <1>2, <1>3, <1>4, ClosedRests, KindsAre DEF SessionStep
  <1>7. \A t \in Sessions, j \in {"create", "delete"} : Unchanged(j, t)
    BY <1>3, KindsAre
  <1> QED  BY <1>1, <1>2, <1>5, <1>6, <1>7, Looked, NoneIsCreating DEF ServiceStep

LEMMA NotFoundSteps ==
  ASSUME SessionsAgree, CallsFit, LocksHeld, RegistryOK,
         NEW k \in Posts \cup {"poll"}, NEW s \in Sessions, NotFound(k, s)
  PROVE  ServiceStep
  BY RefusedSteps DEF NotFound

LEMMA DrainSteps ==
  ASSUME SessionsAgree, CallsFit, LocksHeld, RegistryOK, NEW s \in Sessions, Drain(s)
  PROVE  ServiceStep
  <1> DEFINE f == Closed(Expired)
             y == [session[s] EXCEPT !.events = <<>>]
  <1>1. /\ f \in [Sessions -> SessionState] /\ \A t \in Sessions : SessionAgrees(f[t])
        /\ \A t \in Sessions : f[t] \in {session[t], Ended(session[t])}
    BY ExpiredRegistered, ManySessions
  <1>2. /\ creating' = NoSession /\ registered' \subseteq Sessions /\ idle' \subseteq registered'
        /\ Stage("poll", s) = "sent" /\ session[s].running /\ f[s] = session[s]
    BY Looked DEF Drain
  <1>3. session' = [f EXCEPT ![s] = y]
    <2>1. session' = [f EXCEPT ![s].events = <<>>]
      BY DEF Drain
    <2> HIDE DEF f
    <2> QED  BY <1>1, <1>2, <2>1
  <1> HIDE DEF f
  <1>4. SessionAgrees(session[s]) /\ session[s].events \in Seq(Notices)
    <2>1. SessionAgrees(session[s]) /\ session[s] \in SessionState
      BY DEF SessionsAgree
    <2> QED  BY <2>1 DEF SessionState
  <1>5. /\ y \in SessionState /\ SessionAgrees(y) /\ y.running = TRUE
        /\ y.operation = session[s].operation /\ y.documents = session[s].documents
        /\ y.next = session[s].next
    BY <1>2, <1>4, DrainedAgrees
  <1> HIDE DEF y
  <1>6. SessionsAgree' /\ session'[s] = y /\ \A t \in Sessions \ {s} : session'[t] = f[t]
    BY <1>1, <1>3, <1>5, OneSession
  <1>7. CallsFit' /\ Only("poll", s) /\ Ends("poll", s, "ok")
    <2>1. Reply("poll", s, "ok", session[s].events)
      BY DEF Drain
    <2> QED  BY <1>4, <2>1, OneReply, KindsAre, NoNotices
  <1>8. \A t \in Sessions, j \in Kinds : Unchanged(j, t) \/ (j = "poll" /\ t = s)
    BY <1>7, OnlyOthers, KindsAre
  <1>9. \A t \in Sessions : Unchanged("poll", t) \/ Polled(t)
    BY <1>2, <1>7, <1>8, KindsAre DEF Polled, Results
  <1>10. \A t \in Sessions : SessionStep(t)
    <2>1. \A t \in Sessions \ {s} : Rests(t)
      BY <1>1, <1>6, <1>8, ClosedRests, KindsAre
    <2>2. Rests(s)
      <3>1. session[s] # NewSession
        BY <1>2 DEF NewSession
      <3>2. \A k \in Posts : Unchanged(k, s)
        BY <1>8, KindsAre
      <3> QED  BY <1>2, <1>5, <1>6, <3>1, <3>2 DEF Rests
    <2> QED  BY <2>1, <2>2 DEF SessionStep
  <1>11. \A t \in Sessions, j \in {"create", "delete"} : Unchanged(j, t)
    BY <1>8, KindsAre
  <1> QED  BY <1>2, <1>6, <1>7, <1>9, <1>10, <1>11, NoneIsCreating DEF ServiceStep

LEMMA BeginSteps ==
  ASSUME SessionsAgree, CallsFit, LocksHeld, RegistryOK,
         NEW k \in Posts, NEW s \in Sessions, Begin(k, s)
  PROVE  ServiceStep
  <1> DEFINE f == Closed(Expired)
             x == session[s]
             ms == call[k][s].messages
             y == Begun(x, k, ms)
  <1>1. /\ f \in [Sessions -> SessionState] /\ \A t \in Sessions : SessionAgrees(f[t])
        /\ \A t \in Sessions : f[t] \in {session[t], Ended(session[t])}
    BY ExpiredRegistered, ManySessions
  <1>2. /\ creating' = NoSession /\ registered' \subseteq Sessions /\ idle' \subseteq registered'
        /\ Stage(k, s) = "sent" /\ x.running /\ f[s] = x /\ x.operation = "free"
    BY Looked DEF Begin
  <1>3. CASE Reply(k, s, "error", <<>>) /\ session' = Closed(Expired)
    BY <1>3, RefusedSteps DEF Begin
  <1>4. CASE /\ call' = [call EXCEPT ![k][s] = Inside(@)]
             /\ session' = [Closed(Expired) EXCEPT ![s].operation = k, ![s].left = ms,
                                                   ![s].next = Updated(x.documents, ms)]
    <2>1. session' = [f EXCEPT ![s] = y]
      <3> HIDE DEF f, x, ms
      <3>1. session' = [f EXCEPT ![s].operation = k, ![s].left = ms,
                                 ![s].next = Updated(x.documents, ms)]
        BY <1>4 DEF f
      <3> QED  BY <1>1, <1>2, <3>1 DEF Begun
    <2> HIDE DEF f
    <2>2. SessionAgrees(x) /\ ms \in Seq(Messages) /\ (k = "flush" => Different(ms)) /\ (k = "ask" => Asks(ms))
      <3>1. call[k][s] \in CallState /\ CallFits(k, call[k][s])
        BY KindsAre DEF CallsFit
      <3> QED  BY <1>2, <3>1, CallShapes, KindsAre DEF SessionsAgree, CallFits, Stage
    <2>3. /\ y \in SessionState /\ SessionAgrees(y) /\ y.running = TRUE
          /\ y.operation = k /\ y.documents = x.documents /\ y.next = Updated(x.documents, ms)
      <3>1. /\ x.running /\ x.operation = "free" /\ SessionAgrees(x) /\ ms \in Seq(Messages)
            /\ (k = "flush" => Different(ms)) /\ (k = "ask" => Asks(ms))
        BY <1>2, <2>2
      <3> HIDE DEF x, ms
      <3> QED  BY <3>1, BegunAgrees
    <2> HIDE DEF y
    <2>4. SessionsAgree' /\ session'[s] = y /\ \A t \in Sessions \ {s} : session'[t] = f[t]
      BY <1>1, <2>1, <2>3, OneSession
    <2>5. /\ CallsFit' /\ Only(k, s)
          /\ Stage(k, s)' = "inside" /\ (call[k][s].heard)' = call[k][s].heard
      BY <1>2, <1>4, OneEntry, KindsAre
    <2>6. \A t \in Sessions, j \in Kinds : Unchanged(j, t) \/ (j = k /\ t = s)
      BY <2>5, OnlyOthers, KindsAre
    <2>7. \A t \in Sessions : SessionStep(t)
      <3>1. \A t \in Sessions \ {s} : Rests(t)
        BY <1>1, <2>4, <2>6, ClosedRests, KindsAre
      <3>2. \A j \in Posts \ {k} : Unchanged(j, s)
        BY <2>6, KindsAre
      <3>3. Begins(k, s)
        BY <1>2, <2>3, <2>4, <2>5, <3>2 DEF Begins
      <3> QED  BY <3>1, <3>3 DEF SessionStep
    <2>8. \A t \in Sessions, j \in {"create", "delete", "poll"} : Unchanged(j, t)
      BY <2>6, KindsAre
    <2> QED  BY <1>2, <2>4, <2>5, <2>7, <2>8, NoneIsCreating DEF ServiceStep
  <1> QED  BY <1>3, <1>4 DEF Begin

\* An exchange ends, either way.
LEMMA ExchangeSteps ==
  ASSUME SessionsAgree, CallsFit, LocksHeld, RegistryOK, NEW s \in Sessions, Exchange(s)
  PROVE  ServiceStep
  <1> DEFINE x == session[s]
             k == x.operation
             z == [x EXCEPT !.operation = "free", !.events = <<>>, !.left = <<>>,
                            !.documents = x.next, !.next = NoDocument]
  <1>1. /\ x \in SessionState /\ SessionAgrees(x) /\ session \in [Sessions -> SessionState]
        /\ x.events \in Seq(Notices)
    <2>1. x \in SessionState /\ SessionAgrees(x) /\ session \in [Sessions -> SessionState]
      BY DEF SessionsAgree
    <2> QED  BY <2>1 DEF SessionState
  <1>2. /\ k # "free" /\ creating' = creating
        /\ registered' \subseteq Sessions /\ idle' \subseteq registered'
    BY DEF Exchange, Answer, GiveUp, RegistryOK, registryVars
  <1>3. k \in Posts
    BY <1>1, <1>2 DEF SessionState
  <1>4. PICK p \in Posts : p = k
    BY <1>3
  <1>5. ASSUME CallsFit', Only(p, s), SessionsAgree', Completes(p, s) \/ GivesUp(p, s),
               \A t \in Sessions \ {s} : session'[t] = session[t]
        PROVE  ServiceStep
    <2>1. \A t \in Sessions, j \in Kinds : Unchanged(j, t) \/ (j = p /\ t = s)
      BY <1>5, OnlyOthers, KindsAre
    <2>2. \A t \in Sessions : SessionStep(t)
      <3>1. \A t \in Sessions \ {s} : Rests(t)
        BY <1>5, <2>1, ClosedRests, KindsAre
      <3> QED  BY <1>5, <3>1 DEF SessionStep
    <2>3. \A t \in Sessions, j \in {"create", "delete", "poll"} : Unchanged(j, t)
      BY <2>1, KindsAre
    <2> QED  BY <1>2, <1>5, <2>2, <2>3, CreatingKept DEF ServiceStep, RegistryOK
  <1>6. CASE Answer(s)
    <2>1. /\ Reply(p, s, "ok", x.events) /\ x.left = <<>> /\ x.running
      BY <1>4, <1>6 DEF Answer, Analysed
    <2>2. session' = [session EXCEPT ![s] = z]
      <3>1. session' = [session EXCEPT ![s].operation = "free", ![s].events = <<>>, ![s].left = <<>>,
                                       ![s].documents = x.next, ![s].next = NoDocument]
        BY <1>6 DEF Answer
      <3> HIDE DEF x
      <3>2. session[s] = x
        BY DEF x
      <3> QED  BY <1>1, <3>1, <3>2
    <2>3. z \in SessionState /\ SessionAgrees(z) /\ z.running = TRUE
          /\ z.operation = "free" /\ z.documents = x.next
      <3> HIDE DEF x
      <3> QED  BY <1>1, <1>2, <2>1, AnsweredAgrees
    <2> HIDE DEF z
    <2>4. SessionsAgree' /\ session'[s] = z /\ \A t \in Sessions \ {s} : session'[t] = session[t]
      BY <1>1, <2>2, <2>3, OneSession DEF SessionsAgree
    <2>5. CallsFit' /\ Only(p, s) /\ Ends(p, s, "ok")
      BY <1>1, <2>1, OneReply, KindsAre, NoNotices
    <2>6. \A j \in Posts \ {p} : Unchanged(j, s)
      BY <2>5, OnlyOthers, KindsAre
    <2>7. Completes(p, s)
      BY <1>4, <2>1, <2>3, <2>4, <2>5, <2>6 DEF Completes
    <2> QED  BY <1>5, <2>4, <2>5, <2>7
  <1>7. CASE GiveUp(s)
    <2>1. Reply(p, s, "error", <<>>) /\ session' = [session EXCEPT ![s] = NewSession]
      BY <1>4, <1>7 DEF GiveUp
    <2>2. SessionsAgree' /\ session'[s] = NewSession /\ \A t \in Sessions \ {s} : session'[t] = session[t]
      BY <1>1, <2>1, NewAgrees, OneSession DEF SessionsAgree
    <2>3. CallsFit' /\ Only(p, s) /\ Ends(p, s, "error")
      BY <2>1, OneReply, KindsAre, NoNotices
    <2>4. \A j \in Posts \ {p} : Unchanged(j, s)
      BY <2>3, OnlyOthers, KindsAre
    <2>5. GivesUp(p, s)
      BY <1>4, <2>2, <2>3, <2>4 DEF GivesUp
    <2> QED  BY <1>5, <2>2, <2>3, <2>5
  <1> QED  BY <1>6, <1>7 DEF Exchange

LEMMA ServiceSteps ==
  ASSUME SessionsAgree, CallsFit, LocksHeld, RegistryOK, NEW s \in Sessions, Service(s)
  PROVE  ServiceStep
  <1>1. CASE Create(s)
    BY <1>1, CreateBeginSteps, CreateEndSteps DEF Create
  <1>2. CASE Delete(s)
    BY <1>2, DeleteSteps
  <1>3. ASSUME NEW k \in Posts \cup {"poll"}, Handle(k, s) PROVE ServiceStep
    BY <1>3, NotFoundSteps, DrainSteps, BeginSteps DEF Handle
  <1> QED  BY <1>1, <1>2, <1>3, ExchangeSteps, ServeSteps DEF Service

-----------------------------------------------------------------------------
(* The steps of the client.                                                 *)

ClientOK ==
  /\ generation \in Sessions /\ disposed \in BOOLEAN
  /\ status \in {"connecting", "ready", "unavailable"} /\ ready \in {"pending", "yes", "no"}
  /\ documents \in Documented /\ sent \in Documented /\ snapshot \in Documented
  /\ nextVersion \in 1..(MaxVersion + 1)
  /\ wanted \in BOOLEAN /\ polling \in BOOLEAN
  /\ shown \in [Documents -> Versions \cup {Nothing, Unversioned}]
  /\ faults \in 0..MaxFaults

LEMMA TypeParts == TypeOK <=> RegistryOK /\ ClientOK
  BY DEF TypeOK, RegistryOK, ClientOK, Documented

\* What is received is shown for the current version, or without one.
LEMMA Received ==
  ASSUME ClientOK, ShownIsCurrent, NEW notices \in Seq(Notices), Receive(notices),
         documents' = documents
  PROVE  shown' \in [Documents -> Versions \cup {Nothing, Unversioned}] /\ ShownIsCurrent'
  <1> DEFINE about(u) == {i \in DOMAIN notices : notices[i].doc = u /\ Accepts(notices[i])}
             last(u)  == CHOOSE i \in about(u) : \A j \in about(u) : j <= i
  <1>1. shown' = [u \in Documents |-> IF about(u) = {} THEN shown[u] ELSE notices[last(u)].version]
    BY DEF Receive
  <1>2. ASSUME NEW u \in Documents, about(u) # {}
        PROVE  notices[last(u)].version \in {Unversioned, documents[u]} /\ documents[u] # 0
    <2>1. Len(notices) \in Nat /\ about(u) \in SUBSET (1..Len(notices))
      BY LenProperties
    <2>2. \E i \in about(u) : \A j \in about(u) : j <= i
      <3> HIDE DEF about
      <3> QED  BY <1>2, <2>1, GreatestIndex
    <2>3. last(u) \in about(u)
      BY <2>2
    <2> HIDE DEF last
    <2> QED  BY <2>3 DEF Accepts
  <1>3. ASSUME NEW u \in Documents
        PROVE  /\ shown'[u] \in Versions \cup {Nothing, Unversioned}
               /\ shown'[u] \in Versions => shown'[u] = documents[u]
    <2>1. documents[u] \in 0..MaxVersion /\ shown[u] \in Versions \cup {Nothing, Unversioned}
      BY DEF ClientOK, Documented
    <2>2. CASE about(u) = {}
      BY <1>1, <2>1, <2>2 DEF ShownIsCurrent
    <2>3. CASE about(u) # {}
      <3> HIDE DEF about, last
      <3>1. shown'[u] \in {Unversioned, documents[u]} /\ documents[u] # 0
        BY <1>1, <1>2, <2>3
      <3>2. MaxVersion \in Nat
        BY NoneDocumented
      <3> QED  BY <2>1, <3>1, <3>2 DEF Versions, Unversioned
    <2> QED  BY <2>2, <2>3
  <1> HIDE DEF about, last
  <1> QED  BY <1>1, <1>3 DEF ShownIsCurrent

\* Nothing of what links the client to its session changes.
LEMMA LinksKept ==
  ASSUME SessionsAgree, CallsFit, Linked,
         UNCHANGED <<serviceVars, call, linkVars, status, sent, snapshot, polling>>
  PROVE  SessionsAgree' /\ CallsFit' /\ Linked'
  <1>1. SessionsAgree'
    BY DEF SessionsAgree, serviceVars
  <1>2. CallsFit'
    BY DEF CallsFit
  <1>3. LocksHeld' /\ Listening' /\ NotYetAsked'
    BY DEF Linked, LocksHeld, Listening, NotYetAsked, serviceVars, registryVars, linkVars, Stage, Current
  <1>4. Connecting' /\ Quiet' /\ SentAgrees'
    BY DEF Linked, Connecting, Quiet, SentAgrees, serviceVars, linkVars, Stage
  <1> QED  BY <1>1, <1>2, <1>3, <1>4 DEF Linked

\* The inductive invariant.
IInv == RegistryOK /\ ClientOK /\ SessionsAgree /\ CallsFit /\ Linked /\ ShownIsCurrent

LEMMA EditSteps ==
  ASSUME IInv, NEW u \in Documents, Edit(u) \/ CloseDocument(u)
  PROVE  IInv'
  <1>1. UNCHANGED <<serviceVars, call, linkVars, status, sent, snapshot, polling, faults>>
    BY DEF Edit, CloseDocument
  <1>2. SessionsAgree' /\ CallsFit' /\ Linked'
    BY <1>1, LinksKept DEF IInv
  <1>3. MaxVersion \in Nat /\ documents \in Documented /\ nextVersion \in 1..(MaxVersion + 1)
    BY NoneDocumented DEF IInv, ClientOK
  <1>4. PICK v \in 0..MaxVersion : documents' = [documents EXCEPT ![u] = v]
    BY <1>3 DEF Edit, CloseDocument
  <1>5. documents' \in Documented
    BY <1>3, <1>4 DEF Documented
  <1>6. /\ nextVersion' \in 1..(MaxVersion + 1) /\ shown' = [shown EXCEPT ![u] = Nothing]
        /\ wanted' = TRUE
    BY <1>3 DEF Edit, CloseDocument
  <1>7. ClientOK'
    BY <1>1, <1>5, <1>6 DEF IInv, ClientOK, linkVars
  <1>8. ShownIsCurrent'
    <2> SUFFICES ASSUME NEW w \in Documents, shown'[w] \in Versions PROVE shown'[w] = documents'[w]
      BY DEF ShownIsCurrent
    <2>1. w # u
      BY <1>3, <1>6 DEF IInv, ClientOK, Versions, Nothing
    <2> QED  BY <1>3, <1>4, <1>6, <2>1 DEF IInv, ClientOK, ShownIsCurrent, Documented
  <1>9. RegistryOK'
    BY <1>1 DEF IInv, RegistryOK, serviceVars, registryVars
  <1> QED  BY <1>2, <1>7, <1>8, <1>9 DEF IInv

\* Nothing that is not about calls, the flush and what is shown changes.
LEMMA SessionsKept ==
  ASSUME IInv, UNCHANGED serviceVars
  PROVE  RegistryOK' /\ SessionsAgree' /\ session' = session /\ creating' = creating
  BY DEF IInv, RegistryOK, SessionsAgree, serviceVars, registryVars

\* A client that is there asks its session for something.
LEMMA Asked ==
  ASSUME IInv, NEW k \in Posts \cup {"poll"}, NEW ms \in Seq(Messages),
         ~disposed, ready # "pending", Stage(k, generation) = "none", Ask(k, generation, ms),
         k = "flush" => Different(ms) /\ Updated(sent, ms) = snapshot',
         k = "ask" => Asks(ms), k # "flush" => snapshot' = snapshot,
         UNCHANGED <<serviceVars, linkVars, status, sent, polling>>
  PROVE  CallsFit' /\ Linked'
  <1>1. PICK g \in Sessions : g = generation /\ g = generation'
    BY DEF IInv, ClientOK, linkVars
  <1>2. CallFits(k, Sent(ms)) /\ k \in Kinds
    BY SentIs, KindsAre DEF CallFits
  <1>3. /\ CallsFit' /\ Only(k, g) /\ call'[k][g] = Sent(ms)
        /\ Stage(k, g)' = "sent" /\ (call[k][g].heard)' = TRUE /\ (call[k][g].messages)' = ms
    <2>1. call' = [call EXCEPT ![k][g] = Sent(ms)]
      BY <1>1 DEF Ask
    <2>2. CallsFit' /\ Only(k, g) /\ call'[k][g] = Sent(ms)
      BY <1>2, <2>1, SentIs, OneCall DEF IInv
    <2> QED  BY <2>2, SentIs DEF Stage
  <1>4. /\ \A j \in Kinds, t \in Sessions : Unchanged(j, t) \/ (j = k /\ t = g)
        /\ \A t \in Sessions : Unchanged("create", t)
    BY <1>2, <1>3, OnlyOthers, KindsAre
  <1>5. /\ session' = session /\ creating' = creating
        /\ UNCHANGED <<generation, disposed, ready, status, sent, polling>>
    BY DEF serviceVars, registryVars, linkVars
  <1>6. Linked
    BY DEF IInv
  <1>7. LocksHeld'
    <2>1. \A j \in Posts, t \in Sessions : session'[t].operation = j <=> Stage(j, t)' = "inside"
      BY <1>1, <1>3, <1>4, <1>5, <1>6, KindsAre DEF Linked, LocksHeld, Unchanged, Stage
    <2> QED  BY <1>4, <1>5, <1>6, <2>1, CreatingKept DEF Linked, LocksHeld
  <1>8. Listening'
    BY <1>1, <1>3, <1>4, <1>5, <1>6, KindsAre DEF Linked, Listening, Current, Unchanged, Stage
  <1>9. NotYetAsked'
    <2> SUFFICES ASSUME NEW t \in Sessions, t > g PROVE session'[t] = NewSession /\ \A j \in Kinds : call'[j][t] = NoCall
      BY <1>1 DEF NotYetAsked
    <2>1. t # g /\ t > generation
      BY <1>1, ClientAssumption
    <2> QED  BY <1>4, <1>5, <1>6, <2>1 DEF Linked, NotYetAsked, Unchanged
  <1>10. Connecting' /\ Quiet'
    BY <1>1, <1>4, <1>5, <1>6 DEF Linked, Connecting, Quiet, Unchanged, Stage
  <1>11. SentAgrees'
    <2> SUFFICES ASSUME status = "ready" PROVE SentAgrees'
      BY <1>5 DEF SentAgrees
    <2>1. CASE k = "flush"
      <3>1. session[g].running => session[g].documents = sent
        BY <1>1, <1>6, <2>1 DEF Linked, SentAgrees, Stage
      <3> QED  BY <1>1, <1>3, <1>5, <2>1, <3>1 DEF SentAgrees, Stage
    <2>2. CASE k # "flush"
      <3>1. call'["flush"][g] = call["flush"][g]
        BY <1>4, <2>2, KindsAre DEF Unchanged
      <3> QED  BY <1>1, <1>5, <1>6, <2>2, <3>1 DEF Linked, SentAgrees
    <2> QED  BY <2>1, <2>2
  <1> QED  BY <1>3, <1>7, <1>8, <1>9, <1>10, <1>11 DEF Linked

LEMMA RequestSteps ==
  ASSUME IInv, NEW u \in Documents, Request(u)
  PROVE  IInv'
  <1> DEFINE m == [kind |-> "ask", doc |-> u]
  <1>1. m \in Messages /\ ~Updates(m)
    BY DEF Messages, Updates
  <1>2. <<m>> \in Seq(Messages) /\ Asks(<<m>>)
    <2> HIDE DEF m
    <2> QED  BY <1>1 DEF Asks
  <1>3. UNCHANGED serviceVars /\ UNCHANGED clientVars
    BY DEF Request
  <1>4. UNCHANGED <<serviceVars, linkVars, status, documents, nextVersion, sent, snapshot,
                    wanted, polling, shown, faults>>
    BY <1>3 DEF clientVars, editorVars
  <1>5. /\ ~disposed /\ ready # "pending" /\ Stage("ask", generation) = "none"
        /\ Ask("ask", generation, <<m>>)
    BY DEF Request
  <1> HIDE DEF m
  <1>6. CallsFit' /\ Linked'
    BY <1>2, <1>4, <1>5, Asked, KindsAre
  <1>7. ClientOK' /\ ShownIsCurrent'
    BY <1>4 DEF IInv, ClientOK, ShownIsCurrent, linkVars
  <1> QED  BY <1>3, <1>6, <1>7, SessionsKept DEF IInv

LEMMA PollSteps ==
  ASSUME IInv, Poll
  PROVE  IInv'
  <1>1. UNCHANGED <<serviceVars, linkVars, status, documents, nextVersion, sent, snapshot,
                    wanted, polling, shown, faults>>
    BY DEF Poll, clientVars, editorVars
  <1>2. ~disposed /\ Stage("poll", generation) = "none" /\ Ask("poll", generation, <<>>)
    BY DEF Poll, IInv, Linked, Quiet
  <1>3. UNCHANGED serviceVars
    BY <1>1
  <1>4. CASE ready # "pending"
    <2>1. CallsFit' /\ Linked'
      BY <1>1, <1>2, <1>4, NoMessages, Asked
    <2>2. ClientOK' /\ ShownIsCurrent'
      BY <1>1 DEF IInv, ClientOK, ShownIsCurrent, linkVars
    <2> QED  BY <1>3, <2>1, <2>2, SessionsKept DEF IInv
  <1> QED  BY <1>2, <1>4 DEF Poll, IInv, Linked, Connecting

LEMMA FlushSteps ==
  ASSUME IInv, Flush
  PROVE  IInv'
  <1>1. /\ UNCHANGED <<serviceVars, linkVars, status, documents, nextVersion, sent, polling,
                       shown, faults>>
        /\ wanted' = FALSE
    BY DEF Flush, editorVars
  <1>2. UNCHANGED serviceVars
    BY <1>1
  <1>3. documents \in Documented /\ sent \in Documented /\ snapshot \in Documented
    BY DEF IInv, ClientOK
  <1>4. ShownIsCurrent'
    BY <1>1 DEF IInv, ShownIsCurrent
  <1>5. CASE ready = "yes" /\ documents # sent
    <2>1. Ask("flush", generation, Difference) /\ snapshot' = documents
      BY <1>5 DEF Flush
    <2>2. /\ Difference \in Seq(Messages) /\ Different(Difference)
          /\ Updated(sent, Difference) = snapshot'
      BY <1>3, <2>1, DifferenceFlushes
    <2>3. ~disposed /\ ready # "pending" /\ Stage("flush", generation) = "none"
      BY <1>5 DEF Flush, IInv, Linked, Quiet
    <2>4. CallsFit' /\ Linked'
      BY <1>1, <2>1, <2>2, <2>3, Asked, KindsAre
    <2>5. ClientOK'
      BY <1>1, <1>3, <2>1 DEF IInv, ClientOK, linkVars
    <2> QED  BY <1>2, <1>4, <2>4, <2>5, SessionsKept DEF IInv
  <1>6. CASE ~(ready = "yes" /\ documents # sent)
    <2>1. call' = call /\ snapshot' = snapshot
      BY <1>6 DEF Flush
    <2>2. SessionsAgree' /\ CallsFit' /\ Linked'
      BY <1>1, <2>1, LinksKept DEF IInv
    <2>3. ClientOK'
      BY <1>1, <2>1 DEF IInv, ClientOK, linkVars
    <2> QED  BY <1>2, <1>4, <2>2, <2>3, SessionsKept DEF IInv
  <1> QED  BY <1>5, <1>6

\* A client takes the answer to what it asked its session for.
LEMMA Settled ==
  ASSUME IInv, NEW k \in Posts \cup {"poll"}, NEW s \in Sessions, Stage(k, s) = "answered",
         call' = [call EXCEPT ![k][s] = NoCall],
         k = "flush" => sent' = IF call[k][s].result = "ok" THEN snapshot ELSE sent,
         k = "flush" => status' = IF call[k][s].result = "ok" THEN status ELSE "unavailable",
         k # "flush" => sent' = sent /\ snapshot' = snapshot,
         status' \in {status, "unavailable"},
         UNCHANGED <<serviceVars, linkVars>>
  PROVE  /\ CallsFit' /\ Linked'
         /\ call[k][s].notices \in Seq(Notices)
  <1>1. /\ s = generation /\ s = generation' /\ ~disposed /\ ready # "pending"
        /\ call[k][s].notices \in Seq(Notices)
    <2>1. Current(s)
      BY DEF IInv, Linked, Listening
    <2>2. call[k][s].notices \in Seq(Notices)
      BY KindsAre, CallShapes DEF IInv, CallsFit, Stage
    <2> QED  BY <2>1, <2>2 DEF Current, IInv, Linked, Connecting, linkVars
  <1>2. /\ CallsFit' /\ Only(k, s) /\ call'[k][s] = NoCall
        /\ Stage(k, s)' = "none" /\ k \in Kinds
    BY KindsAre, NoCallFits, OneCall DEF IInv, Stage
  <1>3. /\ \A j \in Kinds, t \in Sessions : Unchanged(j, t) \/ (j = k /\ t = s)
        /\ \A t \in Sessions : Unchanged("create", t)
    BY <1>2, OnlyOthers, KindsAre
  <1>4. /\ session' = session /\ creating' = creating
        /\ UNCHANGED <<generation, disposed, ready>>
    BY DEF serviceVars, registryVars, linkVars
  <1>5. Linked
    BY DEF IInv
  <1>6. LocksHeld'
    <2>1. \A j \in Posts, t \in Sessions : session'[t].operation = j <=> Stage(j, t)' = "inside"
      BY <1>2, <1>3, <1>4, <1>5, KindsAre DEF Linked, LocksHeld, Unchanged, Stage
    <2> QED  BY <1>3, <1>4, <1>5, <2>1, CreatingKept DEF Linked, LocksHeld
  <1>7. Listening'
    BY <1>2, <1>3, <1>4, <1>5, KindsAre DEF Linked, Listening, Current, Unchanged, Stage
  <1>8. NotYetAsked'
    BY <1>2, <1>3, <1>4, <1>5 DEF Linked, NotYetAsked, Unchanged
  <1>9. Connecting' /\ Quiet'
    BY <1>1, <1>3, <1>4, <1>5 DEF Linked, Connecting, Quiet, Unchanged, Stage
  <1>10. SentAgrees'
    <2> SUFFICES ASSUME status' = "ready" PROVE SentAgrees'
      BY DEF SentAgrees
    <2>1. status = "ready" /\ status' = status
      OBVIOUS
    <2>2. CASE k = "flush"
      <3>1. call[k][s].result = "ok" /\ sent' = snapshot
        BY <2>2
      <3>2. session[s].running => session[s].documents = snapshot
        BY <1>1, <1>5, <2>1, <2>2, <3>1 DEF Linked, SentAgrees, Stage
      <3> QED  BY <1>1, <1>2, <1>4, <2>2, <3>1, <3>2 DEF SentAgrees, Stage
    <2>3. CASE k # "flush"
      <3>1. call'["flush"][s] = call["flush"][s]
        BY <1>3, <2>3, KindsAre DEF Unchanged
      <3> QED  BY <1>1, <1>4, <1>5, <2>1, <2>3, <3>1 DEF Linked, SentAgrees
    <2> QED  BY <2>2, <2>3
  <1> QED  BY <1>1, <1>2, <1>6, <1>7, <1>8, <1>9, <1>10 DEF Linked

LEMMA FlushReplySteps ==
  ASSUME IInv, NEW s \in Sessions, FlushReply(s)
  PROVE  IInv'
  <1>1. /\ Stage("flush", s) = "answered"
        /\ call' = [call EXCEPT !["flush"][s] = NoCall]
        /\ sent' = IF call["flush"][s].result = "ok" THEN snapshot ELSE sent
        /\ status' = IF call["flush"][s].result = "ok" THEN status ELSE "unavailable"
        /\ snapshot' = NoDocument
        /\ Receive(call["flush"][s].notices)
        /\ UNCHANGED <<serviceVars, linkVars, documents, nextVersion, wanted, polling, faults>>
    BY DEF FlushReply, editorVars
  <1>2. "flush" \in Posts
    BY KindsAre
  <1>3. CallsFit' /\ Linked' /\ call["flush"][s].notices \in Seq(Notices)
    BY <1>1, <1>2, Settled
  <1>4. shown' \in [Documents -> Versions \cup {Nothing, Unversioned}] /\ ShownIsCurrent'
    BY <1>1, <1>3, Received DEF IInv
  <1>5. ClientOK'
    BY <1>1, <1>4, NoneDocumented DEF IInv, ClientOK, linkVars
  <1> QED  BY <1>1, <1>3, <1>4, <1>5, SessionsKept DEF IInv

LEMMA RequestReplySteps ==
  ASSUME IInv, NEW s \in Sessions, RequestReply(s)
  PROVE  IInv'
  <1>1. /\ Stage("ask", s) = "answered"
        /\ call' = [call EXCEPT !["ask"][s] = NoCall]
        /\ Receive(call["ask"][s].notices)
        /\ UNCHANGED <<serviceVars, linkVars, status, documents, nextVersion, sent, snapshot,
                       wanted, polling, faults>>
    BY DEF RequestReply, editorVars
  <1>2. "ask" \in Posts
    BY KindsAre
  <1>3. CallsFit' /\ Linked' /\ call["ask"][s].notices \in Seq(Notices)
    BY <1>1, <1>2, Settled
  <1>4. shown' \in [Documents -> Versions \cup {Nothing, Unversioned}] /\ ShownIsCurrent'
    BY <1>1, <1>3, Received DEF IInv
  <1>5. ClientOK'
    BY <1>1, <1>4 DEF IInv, ClientOK, linkVars
  <1> QED  BY <1>1, <1>3, <1>4, <1>5, SessionsKept DEF IInv

LEMMA PollReplySteps ==
  ASSUME IInv, NEW s \in Sessions, PollReply(s)
  PROVE  IInv'
  <1>1. /\ Stage("poll", s) = "answered"
        /\ call' = [call EXCEPT !["poll"][s] = NoCall]
        /\ Receive(call["poll"][s].notices)
        /\ status' \in {status, "unavailable"}
        /\ polling' \in BOOLEAN
        /\ UNCHANGED <<serviceVars, linkVars, documents, nextVersion, sent, snapshot, wanted, faults>>
    BY DEF PollReply, editorVars
  <1>2. CallsFit' /\ Linked' /\ call["poll"][s].notices \in Seq(Notices)
    BY <1>1, Settled
  <1>3. shown' \in [Documents -> Versions \cup {Nothing, Unversioned}] /\ ShownIsCurrent'
    BY <1>1, <1>2, Received DEF IInv
  <1>4. ClientOK'
    BY <1>1, <1>3 DEF IInv, ClientOK, linkVars
  <1> QED  BY <1>1, <1>2, <1>3, <1>4, SessionsKept DEF IInv

LEMMA CreateReplySteps ==
  ASSUME IInv, NEW s \in Sessions, CreateReply(s)
  PROVE  IInv'
  <1> DEFINE ok   == call["create"][s].result = "ok"
             late == ok /\ ~Current(s)
  <1>1. /\ Stage("create", s) = "answered"
        /\ late  => call' = [call EXCEPT !["create"][s] = NoCall, !["delete"][s] = Sent(<<>>)]
        /\ ~late => call' = [call EXCEPT !["create"][s] = NoCall]
        /\ UNCHANGED <<serviceVars, generation, disposed, documents, nextVersion, sent, snapshot,
                       wanted, shown, faults>>
        /\ Current(s)  => /\ ready' \in {"yes", "no"} /\ status' \in {"ready", "unavailable"}
                          /\ polling' \in BOOLEAN
        /\ ~Current(s) => UNCHANGED <<status, ready, polling>>
    BY DEF CreateReply, editorVars
  <1> HIDE DEF late
  <1>2. /\ {"create", "delete"} \subseteq Kinds /\ Posts \cup {"poll"} \subseteq Kinds
        /\ "create" \notin Posts /\ "delete" \notin Posts
        /\ call \in [Kinds -> [Sessions -> CallState]]
    BY KindsAre DEF IInv, CallsFit
  <1>3. /\ Sent(<<>>) \in CallState /\ CallFits("delete", Sent(<<>>))
        /\ NoCall \in CallState /\ \A k \in Kinds : CallFits(k, NoCall)
        /\ NoCall.stage = "none"
    BY NoMessages, SentIs, NoCallFits DEF CallFits
  <1>4. /\ call' \in [Kinds -> [Sessions -> CallState]]
        /\ Stage("create", s)' = "none"
        /\ call'["delete"][s] \in {call["delete"][s], Sent(<<>>)}
        /\ \A k \in Kinds, t \in Sessions :
             t # s \/ k \notin {"create", "delete"} => Unchanged(k, t)
        /\ CallFits("create", call'["create"][s])
    <2>1. CASE late
      BY <1>1, <1>2, <1>3, <2>1 DEF Unchanged, Stage
    <2>2. CASE ~late
      BY <1>1, <1>2, <1>3, <2>2 DEF Unchanged, Stage
    <2> QED  BY <2>1, <2>2
  <1>5. CallsFit'
    <2>1. ASSUME NEW k \in Kinds, NEW t \in Sessions PROVE CallFits(k, call'[k][t])
      <3>1. CASE t # s \/ k \notin {"create", "delete"}
        BY <1>4, <3>1 DEF IInv, CallsFit, Unchanged
      <3>2. CASE t = s /\ k = "create"
        BY <1>4, <3>2
      <3>3. CASE t = s /\ k = "delete"
        BY <1>3, <1>4, <3>3 DEF IInv, CallsFit
      <3> QED  BY <3>1, <3>2, <3>3
    <2> QED  BY <1>4, <2>1 DEF CallsFit
  <1>6. \A k \in Posts \cup {"poll"}, t \in Sessions : Unchanged(k, t)
    BY <1>2, <1>4
  <1>7. session' = session /\ creating' = creating /\ UNCHANGED <<generation, disposed, sent, snapshot>>
    BY <1>1 DEF serviceVars, registryVars
  <1>8. Linked
    BY DEF IInv
  <1>9. LocksHeld'
    <2>1. \A k \in Posts, t \in Sessions : session'[t].operation = k <=> Stage(k, t)' = "inside"
      BY <1>6, <1>7, <1>8 DEF Linked, LocksHeld, Unchanged, Stage
    <2>2. creating \in Sessions => creating # s /\ Unchanged("create", creating)
      BY <1>1, <1>2, <1>4, <1>8 DEF Linked, LocksHeld
    <2> QED  BY <1>7, <1>8, <2>1, <2>2 DEF Linked, LocksHeld, Unchanged, Stage
  <1>10. Listening'
    BY <1>6, <1>7, <1>8 DEF Linked, Listening, Current, Unchanged, Stage
  <1>11. NotYetAsked'
    <2>1. ~(s > generation)
      BY <1>1, <1>2, <1>3, <1>8 DEF Linked, NotYetAsked, Stage
    <2>2. \A t \in Sessions : t > generation => t # s
      BY <2>1
    <2> QED  BY <1>4, <1>7, <1>8, <2>2 DEF Linked, NotYetAsked, Unchanged
  <1>12. PICK g \in Sessions : g = generation /\ g = generation'
    BY <1>7 DEF IInv, ClientOK
  <1>13. CASE Current(s)
    <2>1. /\ s = g /\ ~disposed /\ ready' # "pending"
          /\ sent = NoDocument /\ session[g].documents = NoDocument
          /\ Stage("flush", g) = "none"
      BY <1>1, <1>8, <1>12, <1>13, KindsAre DEF Linked, Connecting, Current
    <2>2. Connecting' /\ Quiet'
      BY <1>4, <1>7, <1>12, <2>1 DEF Connecting, Quiet, Stage
    <2>3. Stage("flush", g)' = "none"
      BY <1>6, <2>1, KindsAre DEF Unchanged, Stage
    <2>4. SentAgrees'
      BY <1>7, <1>12, <2>1, <2>3 DEF SentAgrees, Stage
    <2>5. ClientOK' /\ ShownIsCurrent'
      BY <1>1, <1>13 DEF IInv, ClientOK, ShownIsCurrent
    <2> QED
      BY <1>1, <1>5, <1>9, <1>10, <1>11, <2>2, <2>4, <2>5, SessionsKept DEF IInv, Linked
  <1>14. CASE ~Current(s)
    <2>1. UNCHANGED <<status, ready, polling>>
      BY <1>1, <1>14
    <2>2. ~disposed => Unchanged("create", g)
      BY <1>2, <1>4, <1>12, <1>14 DEF Current
    <2>3. Connecting' /\ Quiet'
      BY <1>6, <1>7, <1>8, <1>12, <2>1, <2>2 DEF Linked, Connecting, Quiet, Unchanged, Stage
    <2>4. SentAgrees'
      BY <1>6, <1>7, <1>8, <1>12, <2>1, KindsAre DEF Linked, SentAgrees, Unchanged
    <2>5. ClientOK' /\ ShownIsCurrent'
      BY <1>1, <2>1 DEF IInv, ClientOK, ShownIsCurrent
    <2> QED
      BY <1>1, <1>5, <1>9, <1>10, <1>11, <2>3, <2>4, <2>5, SessionsKept DEF IInv, Linked
  <1> QED  BY <1>13, <1>14

LEMMA UnheardFits ==
  ASSUME NEW k, NEW c, CallFits(k, c)
  PROVE  /\ Unheard(c) \in CallState /\ CallFits(k, Unheard(c))
         /\ Unheard(c).stage = "inside" <=> c.stage = "inside"
         /\ Unheard(c).stage \in {"sent", "inside"} => ~Unheard(c).heard
         /\ Unheard(c).stage # "answered"
  <1>1. c \in CallState
    BY DEF CallFits
  <1>2. CASE c.stage \in {"sent", "inside"}
    <2>1. Unheard(c) = [c EXCEPT !.heard = FALSE]
      BY <1>2 DEF Unheard
    <2>2. /\ Unheard(c) \in CallState /\ Unheard(c).stage = c.stage /\ Unheard(c).heard = FALSE
          /\ c.stage = "sent" => Unheard(c).messages = c.messages
      <3>1. CASE c \in [stage : {"sent"}, heard : BOOLEAN, messages : Seq(Messages)]
        <4>1. /\ Unheard(c) \in [stage : {"sent"}, heard : BOOLEAN, messages : Seq(Messages)]
              /\ Unheard(c).stage = c.stage /\ Unheard(c).heard = FALSE
              /\ Unheard(c).messages = c.messages
          BY <2>1, <3>1
        <4> QED  BY <4>1 DEF CallState
      <3>2. CASE c \in [stage : {"inside"}, heard : BOOLEAN]
        <4>1. /\ Unheard(c) \in [stage : {"inside"}, heard : BOOLEAN]
              /\ Unheard(c).stage = c.stage /\ Unheard(c).heard = FALSE
              /\ c.stage = "inside"
          BY <2>1, <3>2
        <4> QED  BY <4>1 DEF CallState
      <3>3. c.stage = "inside" => c \in [stage : {"inside"}, heard : BOOLEAN]
        BY <1>1 DEF CallState, NoCall
      <3>4. c.stage = "sent" => c \in [stage : {"sent"}, heard : BOOLEAN, messages : Seq(Messages)]
        BY <1>1 DEF CallState, NoCall
      <3> QED  BY <1>2, <3>1, <3>2, <3>3, <3>4
    <2> QED  BY <1>2, <2>2 DEF CallFits
  <1>3. CASE c.stage \notin {"sent", "inside"}
    BY <1>3, NoCallFits DEF Unheard
  <1> QED  BY <1>2, <1>3

\* What the requests of a session are after its client has left it.
LeftAlone(f) ==
  /\ f \in [Kinds -> [Sessions -> CallState]]
  /\ \A k \in Kinds, t \in Sessions : CallFits(k, f[k][t])
  /\ \A k \in Kinds, t \in Sessions :
       t # generation \/ k = "create" => f[k][t] = call[k][t]
  /\ \A k \in Posts \cup {"poll"} :
       /\ f[k][generation].stage = "inside" <=> Stage(k, generation) = "inside"
       /\ f[k][generation].stage \in {"sent", "inside"} => ~f[k][generation].heard
       /\ f[k][generation].stage # "answered"

LEMMA LeavesAlone ==
  ASSUME IInv
  PROVE  LeftAlone(Left)
  <1>1. generation \in Sessions /\ call \in [Kinds -> [Sessions -> CallState]]
    BY DEF IInv, ClientOK, CallsFit
  <1>2. \A k \in Kinds, t \in Sessions : CallFits(k, call[k][t])
    BY DEF IInv, CallsFit
  <1>3. Sent(<<>>) \in CallState /\ CallFits("delete", Sent(<<>>))
    BY NoMessages, SentIs DEF CallFits
  <1>4. \A k \in Kinds :
          Left[k] = CASE k = "delete" /\ ready = "yes" -> [call[k] EXCEPT ![generation] = Sent(<<>>)]
                      [] k \in Posts \cup {"poll"}      -> [call[k] EXCEPT ![generation] = Unheard(@)]
                      [] OTHER                         -> call[k]
    BY DEF Left
  <1>5. ASSUME NEW k \in Posts \cup {"poll"}
        PROVE  /\ Left[k] \in [Sessions -> CallState]
               /\ \A t \in Sessions : t # generation => Left[k][t] = call[k][t]
               /\ \A t \in Sessions : CallFits(k, Left[k][t])
               /\ Left[k][generation].stage = "inside" <=> Stage(k, generation) = "inside"
               /\ Left[k][generation].stage \in {"sent", "inside"} => ~Left[k][generation].heard
               /\ Left[k][generation].stage # "answered"
    <2>1. k \in Kinds /\ k # "delete"
      BY KindsAre
    <2>2. Left[k] = [call[k] EXCEPT ![generation] = Unheard(call[k][generation])]
      BY <1>4, <2>1
    <2>3. CallFits(k, call[k][generation])
      BY <1>1, <1>2, <2>1
    <2>4. Left[k][generation] = Unheard(call[k][generation])
      BY <1>1, <2>1, <2>2
    <2>5. \A t \in Sessions : t # generation => Left[k][t] = call[k][t]
      BY <1>1, <2>1, <2>2
    <2>6. Unheard(call[k][generation]) \in CallState
      BY <2>3, UnheardFits
    <2>7. Left[k] \in [Sessions -> CallState]
      BY <1>1, <2>1, <2>2, <2>6
    <2>8. \A t \in Sessions : CallFits(k, Left[k][t])
      BY <1>2, <2>1, <2>3, <2>4, <2>5, UnheardFits
    <2> QED  BY <2>3, <2>4, <2>5, <2>7, <2>8, UnheardFits DEF Stage
  <1>6. ASSUME NEW k \in {"create", "delete"}
        PROVE  /\ Left[k] \in [Sessions -> CallState]
               /\ \A t \in Sessions : t # generation \/ k = "create" => Left[k][t] = call[k][t]
               /\ \A t \in Sessions : CallFits(k, Left[k][t])
    <2>1. k \in Kinds /\ k \notin Posts \cup {"poll"}
      BY KindsAre
    <2>2. CASE k = "delete" /\ ready = "yes"
      <3>1. Left[k] = [call[k] EXCEPT ![generation] = Sent(<<>>)]
        BY <1>4, <2>1, <2>2
      <3> QED  BY <1>1, <1>2, <1>3, <2>1, <2>2, <3>1
    <2>3. CASE ~(k = "delete" /\ ready = "yes")
      <3>1. Left[k] = call[k]
        BY <1>4, <2>1, <2>3
      <3> QED  BY <1>1, <1>2, <2>1, <3>1
    <2> QED  BY <2>2, <2>3
  <1>7. Kinds = (Posts \cup {"poll"}) \cup {"create", "delete"} /\ "create" \notin Posts \cup {"poll"}
    BY DEF Kinds, Posts
  <1>8. Left = [k \in Kinds |-> Left[k]]
    BY DEF Left
  <1>9. \A k \in Kinds : Left[k] \in [Sessions -> CallState]
    BY <1>5, <1>6, <1>7
  <1> QED  BY <1>5, <1>6, <1>7, <1>8, <1>9 DEF LeftAlone

LEMMA ReconnectSteps ==
  ASSUME IInv, Reconnect
  PROVE  IInv'
  <1>1. /\ ~disposed /\ generation < MaxGenerations /\ generation' = generation + 1
        /\ call' = [Left EXCEPT !["create"][generation'] = Sent(<<>>)]
        /\ status' = "connecting" /\ ready' = "pending" /\ sent' = NoDocument
        /\ snapshot' = NoDocument /\ wanted' = TRUE /\ polling' = FALSE
        /\ UNCHANGED <<serviceVars, disposed, documents, nextVersion, shown, faults>>
    BY DEF Reconnect, NoneSent, editorVars
  <1>2. Sessions = 1..MaxGenerations /\ MaxGenerations \in Nat
    BY ClientAssumption
  <1>3. PICK g \in Sessions : g = generation
    BY DEF IInv, ClientOK
  <1>4. PICK h \in Sessions : h = generation' /\ h # g /\ h > g
    BY <1>1, <1>2, <1>3
  <1>5. LeftAlone(Left)
    BY LeavesAlone
  <1>6. /\ \A k \in Posts \cup {"poll"} : k \in Kinds /\ k # "create"
        /\ "create" \in Kinds
    BY KindsAre
  <1>7. Sent(<<>>) \in CallState /\ CallFits("create", Sent(<<>>)) /\ Sent(<<>>).stage = "sent"
    BY NoMessages, SentIs DEF CallFits
  <1>8. /\ call' \in [Kinds -> [Sessions -> CallState]] /\ call'["create"][h] = Sent(<<>>)
        /\ \A k \in Kinds, t \in Sessions : k # "create" \/ t # h => call'[k][t] = Left[k][t]
    BY <1>1, <1>4, <1>5, <1>6, <1>7 DEF LeftAlone
  <1>9. CallsFit'
    <2>1. ASSUME NEW k \in Kinds, NEW t \in Sessions PROVE CallFits(k, call'[k][t])
      BY <1>5, <1>7, <1>8 DEF LeftAlone
    <2> QED  BY <1>8, <2>1 DEF CallsFit
  <1>10. session' = session /\ creating' = creating /\ disposed' = disposed
    BY <1>1 DEF serviceVars, registryVars
  <1>11. Linked
    BY DEF IInv
  <1>12. session[h] = NewSession /\ \A k \in Kinds : call[k][h] = NoCall
    BY <1>3, <1>4, <1>11 DEF Linked, NotYetAsked
  <1>13. /\ \A k \in Kinds, t \in Sessions \ {g} :
              k # "create" \/ t # h => Unchanged(k, t)
         /\ \A t \in Sessions \ {h} : Unchanged("create", t)
    BY <1>3, <1>5, <1>6, <1>8 DEF LeftAlone, Unchanged
  <1>14. \A k \in Posts \cup {"poll"} :
           /\ Stage(k, g)' = "inside" <=> Stage(k, g) = "inside"
           /\ Stage(k, g)' \in {"sent", "inside"} => ~(call[k][g].heard)'
           /\ Stage(k, g)' # "answered"
    BY <1>3, <1>4, <1>5, <1>6, <1>8 DEF LeftAlone, Stage
  <1>15. \A k \in Posts \cup {"poll"} : Stage(k, h)' = "none"
    BY <1>4, <1>6, <1>12, <1>13 DEF Unchanged, Stage, NoCall
  <1>16. LocksHeld'
    <2>1. ASSUME NEW k \in Posts, NEW t \in Sessions
          PROVE  session'[t].operation = k <=> Stage(k, t)' = "inside"
      <3>1. session[t].operation = k <=> Stage(k, t) = "inside"
        BY <1>11 DEF Linked, LocksHeld
      <3>2. CASE t = g
        BY <1>10, <1>14, <3>1, <3>2
      <3>3. CASE t # g
        BY <1>6, <1>10, <1>13, <3>1, <3>3 DEF Unchanged, Stage
      <3> QED  BY <3>2, <3>3
    <2>2. creating \in Sessions => creating # h /\ Unchanged("create", creating)
      <3>1. Stage("create", h) # "inside"
        BY <1>6, <1>12 DEF Stage, NoCall
      <3> QED  BY <1>11, <1>13, <3>1 DEF Linked, LocksHeld
    <2> QED  BY <1>10, <1>11, <2>1, <2>2 DEF Linked, LocksHeld, Unchanged, Stage
  <1>17. Listening'
    <2>1. \A t \in Sessions : Current(t)' <=> t = h
      BY <1>1, <1>4 DEF Current
    <2>2. ASSUME NEW k \in Posts \cup {"poll"}, NEW t \in Sessions
          PROVE  /\ Stage(k, t)' \in {"sent", "inside"} => ((call[k][t].heard)' <=> t = h)
                 /\ Stage(k, t)' = "answered" => t = h
      <3>1. CASE t = g
        BY <1>4, <1>14, <3>1
      <3>2. CASE t = h
        BY <1>15, <3>2
      <3>3. CASE t # g /\ t # h
        <4>1. Unchanged(k, t) /\ ~Current(t)
          BY <1>3, <1>6, <1>13, <3>3 DEF Current
        <4> QED  BY <1>11, <3>3, <4>1 DEF Linked, Listening, Unchanged, Stage
      <3> QED  BY <3>1, <3>2, <3>3
    <2> QED  BY <2>1, <2>2 DEF Listening
  <1>18. NotYetAsked'
    <2> SUFFICES ASSUME NEW t \in Sessions, t > h
                 PROVE  session'[t] = NewSession /\ \A k \in Kinds : call'[k][t] = NoCall
      BY <1>4 DEF NotYetAsked
    <2>1. t # h /\ t # g /\ t > generation
      BY <1>2, <1>3, <1>4
    <2> QED  BY <1>10, <1>11, <1>13, <2>1 DEF Linked, NotYetAsked, Unchanged
  <1>19. Connecting'
    <2>1. session'[h].documents = NoDocument
      BY <1>10, <1>12 DEF NewSession
    <2> QED  BY <1>1, <1>4, <1>15, <2>1 DEF Connecting
  <1>20. Quiet' /\ SentAgrees'
    BY <1>1 DEF Quiet, SentAgrees
  <1>21. ClientOK' /\ ShownIsCurrent'
    BY <1>1, <1>4, NoneDocumented DEF IInv, ClientOK, ShownIsCurrent
  <1> QED
    BY <1>1, <1>9, <1>16, <1>17, <1>18, <1>19, <1>20, <1>21, SessionsKept DEF IInv, Linked

LEMMA DisposeSteps ==
  ASSUME IInv, Dispose
  PROVE  IInv'
  <1>1. /\ disposed' = TRUE /\ call' = Left
        /\ documents' = NoDocument /\ nextVersion' = 1 /\ shown' = [u \in Documents |-> Nothing]
        /\ sent' = NoDocument /\ snapshot' = NoDocument
        /\ ready' = "no" /\ status' = "unavailable" /\ wanted' = FALSE /\ polling' = FALSE
        /\ UNCHANGED <<serviceVars, generation, faults>>
    BY DEF Dispose
  <1>2. PICK g \in Sessions : g = generation /\ g = generation'
    BY <1>1 DEF IInv, ClientOK
  <1>3. LeftAlone(Left)
    BY LeavesAlone
  <1>4. CallsFit'
    BY <1>1, <1>3 DEF LeftAlone, CallsFit
  <1>5. session' = session /\ creating' = creating
    BY <1>1 DEF serviceVars, registryVars
  <1>6. Linked
    BY DEF IInv
  <1>7. \A k \in Posts \cup {"poll"} : k \in Kinds
    BY KindsAre
  <1>8. /\ \A k \in Kinds, t \in Sessions \ {g} : Unchanged(k, t)
        /\ \A t \in Sessions : Unchanged("create", t)
    BY <1>1, <1>2, <1>3, KindsAre DEF LeftAlone, Unchanged
  <1>9. \A k \in Posts \cup {"poll"} :
          /\ Stage(k, g)' = "inside" <=> Stage(k, g) = "inside"
          /\ Stage(k, g)' \in {"sent", "inside"} => ~(call[k][g].heard)'
          /\ Stage(k, g)' # "answered"
    BY <1>1, <1>2, <1>3 DEF LeftAlone, Stage
  <1>10. LocksHeld'
    <2>1. ASSUME NEW k \in Posts, NEW t \in Sessions
          PROVE  session'[t].operation = k <=> Stage(k, t)' = "inside"
      <3>1. session[t].operation = k <=> Stage(k, t) = "inside"
        BY <1>6 DEF Linked, LocksHeld
      <3>2. CASE t = g
        BY <1>5, <1>9, <3>1, <3>2
      <3>3. CASE t # g
        BY <1>5, <1>7, <1>8, <3>1, <3>3 DEF Unchanged, Stage
      <3> QED  BY <3>2, <3>3
    <2> QED  BY <1>5, <1>6, <1>8, <2>1, CreatingKept DEF Linked, LocksHeld
  <1>11. Listening'
    <2>1. \A t \in Sessions : ~Current(t)'
      BY <1>1 DEF Current
    <2>2. ASSUME NEW k \in Posts \cup {"poll"}, NEW t \in Sessions
          PROVE  /\ Stage(k, t)' \in {"sent", "inside"} => ~(call[k][t].heard)'
                 /\ Stage(k, t)' # "answered"
      <3>1. CASE t = g
        BY <1>9, <3>1
      <3>2. CASE t # g
        <4>1. Unchanged(k, t) /\ ~Current(t)
          BY <1>2, <1>7, <1>8, <3>2 DEF Current
        <4> QED  BY <1>6, <4>1 DEF Linked, Listening, Unchanged, Stage
      <3> QED  BY <3>1, <3>2
    <2> QED  BY <2>1, <2>2 DEF Listening
  <1>12. NotYetAsked'
    <2> SUFFICES ASSUME NEW t \in Sessions, t > g
                 PROVE  session'[t] = NewSession /\ \A k \in Kinds : call'[k][t] = NoCall
      BY <1>2 DEF NotYetAsked
    <2>1. t # g /\ t > generation
      BY <1>2, ClientAssumption
    <2> QED  BY <1>5, <1>6, <1>8, <2>1 DEF Linked, NotYetAsked, Unchanged
  <1>13. Connecting' /\ Quiet' /\ SentAgrees'
    BY <1>1 DEF Connecting, Quiet, SentAgrees
  <1>14. MaxVersion \in Nat
    BY NoneDocumented
  <1>15. ClientOK' /\ ShownIsCurrent'
    <2>1. nextVersion' \in 1..(MaxVersion + 1) /\ Nothing \notin Versions
      BY <1>1, <1>14 DEF Nothing, Versions
    <2>2. shown' \in [Documents -> Versions \cup {Nothing, Unversioned}]
      BY <1>1
    <2>3. ShownIsCurrent'
      BY <1>1, <2>1 DEF ShownIsCurrent
    <2> QED  BY <1>1, <1>2, <2>1, <2>2, <2>3, NoneDocumented DEF IInv, ClientOK
  <1> QED
    BY <1>1, <1>4, <1>10, <1>11, <1>12, <1>13, <1>15, SessionsKept DEF IInv, Linked

LEMMA LoseSteps ==
  ASSUME IInv, NEW k \in Kinds, NEW s \in Sessions, Lose(k, s)
  PROVE  IInv'
  <1>1. /\ faults < MaxFaults /\ faults' = faults + 1
        /\ Current(s) \/ k \in {"create", "delete"}
        /\ Stage(k, s) \in {"sent", "answered"}
        /\ UNCHANGED <<serviceVars, generation, disposed, ready, status, documents, nextVersion, sent,
                       snapshot, wanted, polling, shown>>
    BY DEF Lose, linkVars, editorVars
  <1>2. PICK c \in {NoCall, Answered("lost", <<>>)} :
          /\ call' = [call EXCEPT ![k][s] = c]
          /\ k # "delete" => c = Answered("lost", <<>>)
    BY DEF Lose
  <1>3. /\ c \in CallState /\ CallFits(k, c)
        /\ k # "delete" => c.stage = "answered" /\ c.result = "lost"
    <2>1. "lost" \in Results /\ <<>> \in Seq(Notices)
      BY NoNotices
    <2>2. /\ Answered("lost", <<>>) \in CallState /\ CallFits(k, Answered("lost", <<>>))
          /\ Answered("lost", <<>>).stage = "answered" /\ Answered("lost", <<>>).result = "lost"
      BY <2>1, AnswerFits
    <2> HIDE DEF Answered
    <2> QED  BY <1>2, <2>2, NoCallFits
  <1>4. CallsFit' /\ call'[k][s] = c /\ Only(k, s)
    BY <1>2, <1>3, OneCall DEF IInv
  <1>5. /\ \A j \in Kinds, t \in Sessions : Unchanged(j, t) \/ (j = k /\ t = s)
        /\ k # "delete" => Stage(k, s)' = "answered" /\ (call[k][s].result)' = "lost"
    BY <1>3, <1>4, OnlyOthers DEF Stage
  <1>6. session' = session /\ creating' = creating
    BY <1>1 DEF serviceVars, registryVars
  <1>7. Linked
    BY DEF IInv
  <1>8. LocksHeld'
    <2>1. ASSUME NEW j \in Posts, NEW t \in Sessions
          PROVE  session'[t].operation = j <=> Stage(j, t)' = "inside"
      <3>1. session[t].operation = j <=> Stage(j, t) = "inside"
        BY <1>7 DEF Linked, LocksHeld
      <3>2. j \in Kinds /\ j # "delete"
        BY KindsAre
      <3>3. CASE j = k /\ t = s
        BY <1>1, <1>5, <1>6, <3>1, <3>2, <3>3
      <3>4. CASE Unchanged(j, t)
        BY <1>6, <3>1, <3>4 DEF Unchanged, Stage
      <3> QED  BY <1>5, <3>2, <3>3, <3>4
    <2>2. creating \in Sessions => Unchanged("create", creating)
      BY <1>1, <1>5, <1>7, KindsAre DEF Linked, LocksHeld
    <2> QED  BY <1>6, <1>7, <2>1, <2>2 DEF Linked, LocksHeld, Unchanged, Stage
  <1>9. Listening'
    <2>1. ASSUME NEW j \in Posts \cup {"poll"}, NEW t \in Sessions
          PROVE  /\ Stage(j, t)' \in {"sent", "inside"} => ((call[j][t].heard)' <=> Current(t))
                 /\ Stage(j, t)' = "answered" => Current(t)
      <3>1. j \in Kinds /\ j \notin {"create", "delete"}
        BY KindsAre
      <3>2. CASE j = k /\ t = s
        BY <1>1, <1>5, <3>1, <3>2
      <3>3. CASE Unchanged(j, t)
        BY <1>7, <3>3 DEF Linked, Listening, Unchanged, Stage
      <3> QED  BY <1>5, <3>1, <3>2, <3>3
    <2> QED  BY <1>1, <2>1 DEF Listening, Current
  <1>10. NotYetAsked'
    <2> SUFFICES ASSUME NEW t \in Sessions, t > generation
                 PROVE  session'[t] = NewSession /\ \A j \in Kinds : call'[j][t] = NoCall
      BY <1>1 DEF NotYetAsked
    <2>1. session[t] = NewSession /\ \A j \in Kinds : call[j][t] = NoCall
      BY <1>7 DEF Linked, NotYetAsked
    <2>2. t # s
      BY <1>1, <2>1 DEF Stage, NoCall
    <2> QED  BY <1>5, <1>6, <2>1, <2>2 DEF Unchanged
  <1>11. PICK g \in Sessions : g = generation /\ g = generation'
    BY <1>1 DEF IInv, ClientOK
  <1>12. Connecting' /\ Quiet'
    <2> SUFFICES ASSUME ~disposed PROVE Connecting'
      BY <1>1, <1>7 DEF Linked, Connecting, Quiet
    <2>1. Stage("create", g)' # "none" => Stage("create", g) # "none"
      BY <1>1, <1>5, KindsAre DEF Unchanged, Stage
    <2>2. ASSUME ready = "pending", NEW j \in Posts \cup {"poll"} PROVE Stage(j, g)' = "none"
      <3>1. Stage(j, g) = "none"
        BY <1>7, <1>11, <2>2 DEF Linked, Connecting
      <3>2. ~(j = k /\ g = s)
        BY <1>1, <3>1
      <3> QED  BY <1>5, <3>1, <3>2, KindsAre DEF Unchanged, Stage
    <2> QED  BY <1>1, <1>6, <1>7, <1>11, <2>1, <2>2 DEF Linked, Connecting
  <1>13. SentAgrees'
    <2>1. CASE k = "flush" /\ s = g
      BY <1>5, <1>11, <2>1 DEF SentAgrees, Stage
    <2>2. CASE ~(k = "flush" /\ s = g)
      <3>1. call'["flush"][g] = call["flush"][g]
        BY <1>5, <2>2, KindsAre DEF Unchanged
      <3> QED  BY <1>1, <1>6, <1>7, <1>11, <3>1 DEF Linked, SentAgrees
    <2> QED  BY <2>1, <2>2
  <1>14. faults' \in 0..MaxFaults
    BY <1>1, ClientAssumption DEF IInv, ClientOK
  <1>15. ClientOK' /\ ShownIsCurrent'
    BY <1>1, <1>14 DEF IInv, ClientOK, ShownIsCurrent
  <1> QED
    BY <1>1, <1>4, <1>8, <1>9, <1>10, <1>12, <1>13, <1>15, SessionsKept DEF IInv, Linked

LEMMA CrashSteps ==
  ASSUME IInv, NEW s \in Sessions, Crash(s)
  PROVE  IInv'
  <1>1. /\ faults < MaxFaults /\ faults' = faults + 1 /\ ServerEnds(s)
        /\ UNCHANGED <<generation, disposed, ready, status, documents, nextVersion, sent, snapshot,
                       wanted, polling, shown>>
    BY DEF Crash, linkVars, editorVars
  <1>2. ServiceStep
    BY <1>1, ServerEndsSteps DEF IInv, Linked
  <1>3. Linked'
    BY <1>1, <1>2, ServiceKeepsLinks DEF IInv, ClientOK, ClientKept
  <1>4. faults' \in 0..MaxFaults
    BY <1>1, ClientAssumption DEF IInv, ClientOK
  <1>5. ClientOK' /\ ShownIsCurrent'
    BY <1>1, <1>4 DEF IInv, ClientOK, ShownIsCurrent
  <1> QED  BY <1>2, <1>3, <1>5 DEF IInv, ServiceStep, RegistryOK

LEMMA BackendSteps ==
  ASSUME IInv, Reap \/ \E s \in Sessions : Service(s) \/ Idle(s), UNCHANGED clientVars
  PROVE  IInv'
  <1>1. UNCHANGED <<generation, disposed, ready, status, documents, nextVersion, sent, snapshot,
                    wanted, polling, shown, faults>>
    BY DEF clientVars, linkVars, editorVars
  <1>2. ServiceStep
    BY ReapSteps, AgeSteps, ServiceSteps DEF IInv, Linked, Idle
  <1>3. Linked'
    BY <1>1, <1>2, ServiceKeepsLinks DEF IInv, ClientOK, ClientKept
  <1>4. ClientOK' /\ ShownIsCurrent'
    BY <1>1 DEF IInv, ClientOK, ShownIsCurrent
  <1> QED  BY <1>2, <1>3, <1>4 DEF IInv, ServiceStep, RegistryOK

LEMMA InitHolds == Init => IInv
  <1> SUFFICES ASSUME Init PROVE IInv
    OBVIOUS
  <1>1. /\ MaxVersion \in Nat \ {0} /\ MaxFaults \in Nat
        /\ 1 \in Sessions /\ \A s \in Sessions : s \in Nat
    BY ClientAssumption
  <1>2. RegistryOK
    BY DEF Init, RegistryOK
  <1>3. documents \in Documented
    <2>1. documents = [NoDocument EXCEPT ![CHOOSE u \in Documents : TRUE] = 1]
      BY DEF Init
    <2>2. 1 \in 0..MaxVersion
      BY <1>1
    <2> QED  BY <2>1, <2>2, NoneDocumented DEF Documented
  <1>4. /\ nextVersion \in 1..(MaxVersion + 1) /\ faults \in 0..MaxFaults
        /\ shown \in [Documents -> Versions \cup {Nothing, Unversioned}] /\ Nothing \notin Versions
    BY <1>1 DEF Init, Versions, Nothing
  <1>5. ClientOK
    BY <1>1, <1>3, <1>4, NoneDocumented DEF Init, ClientOK
  <1>6. ShownIsCurrent
    BY <1>4 DEF Init, ShownIsCurrent
  <1>7. /\ session = [s \in Sessions |-> NewSession]
        /\ \A s \in Sessions : session[s] = NewSession
    BY DEF Init
  <1>8. SessionsAgree
    BY <1>7, NewAgrees DEF SessionsAgree
  <1>9. /\ \A k \in Kinds, s \in Sessions : k # "create" \/ s # 1 => call[k][s] = NoCall
        /\ call["create"][1] = Sent(<<>>)
    BY <1>1, KindsAre DEF Init
  <1>10. /\ Sent(<<>>) \in CallState /\ CallFits("create", Sent(<<>>))
         /\ NoCall \in CallState /\ \A k \in Kinds : CallFits(k, NoCall)
         /\ Sent(<<>>).stage = "sent" /\ NoCall.stage = "none"
    BY NoMessages, SentIs, NoCallFits DEF CallFits
  <1>11. CallsFit
    <2>1. \A k \in Kinds, s \in Sessions : CallFits(k, call[k][s])
      BY <1>9, <1>10
    <2>2. call \in [Kinds -> [Sessions -> CallState]]
      BY <1>10 DEF Init
    <2> QED  BY <2>1, <2>2 DEF CallsFit
  <1>12. \A k \in Posts \cup {"poll"}, s \in Sessions : Stage(k, s) = "none"
    BY <1>9, <1>10, KindsAre DEF Stage
  <1>13. LocksHeld
    <2>1. \A s \in Sessions : session[s].operation = "free"
      BY <1>7 DEF NewSession
    <2>2. creating = NoSession
      BY DEF Init
    <2> QED  BY <1>12, <2>1, <2>2, SessionAssumption, KindsAre DEF LocksHeld
  <1>14. Listening
    BY <1>12 DEF Listening
  <1>15. NotYetAsked
    BY <1>1, <1>7, <1>9 DEF Init, NotYetAsked
  <1>16. Connecting /\ Quiet /\ SentAgrees
    <2>1. session[1].documents = NoDocument
      BY <1>1, <1>7 DEF NewSession
    <2> QED  BY <1>1, <1>12, <2>1 DEF Init, Connecting, Quiet, SentAgrees
  <1> QED
    BY <1>2, <1>5, <1>6, <1>8, <1>11, <1>13, <1>14, <1>15, <1>16 DEF IInv, Linked

LEMMA NextKeeps == IInv /\ [Next]_vars => IInv'
  <1> SUFFICES ASSUME IInv, [Next]_vars PROVE IInv'
    OBVIOUS
  <1>1. ASSUME NEW u \in Documents, Edit(u) \/ CloseDocument(u) \/ Request(u) PROVE IInv'
    BY <1>1, EditSteps, RequestSteps
  <1>2. CASE Flush \/ Poll
    BY <1>2, FlushSteps, PollSteps
  <1>3. ASSUME NEW s \in Sessions, Answers(s) PROVE IInv'
    BY <1>3, FlushReplySteps, RequestReplySteps, PollReplySteps, CreateReplySteps DEF Answers
  <1>4. CASE Reconnect \/ Dispose
    BY <1>4, ReconnectSteps, DisposeSteps
  <1>5. CASE (Reap \/ \E s \in Sessions : Service(s) \/ Idle(s)) /\ UNCHANGED clientVars
    BY <1>5, BackendSteps
  <1>6. ASSUME NEW k \in Kinds, NEW s \in Sessions, Lose(k, s) PROVE IInv'
    BY <1>6, LoseSteps
  <1>7. ASSUME NEW s \in Sessions, Crash(s) PROVE IInv'
    BY <1>7, CrashSteps
  <1>8. CASE UNCHANGED vars
    <2>1. /\ UNCHANGED <<serviceVars, call, linkVars, status, sent, snapshot, polling>>
          /\ UNCHANGED <<documents, nextVersion, wanted, shown, faults>>
      BY <1>8 DEF vars, clientVars, editorVars
    <2>2. SessionsAgree' /\ CallsFit' /\ Linked'
      BY <2>1, LinksKept DEF IInv
    <2>3. ClientOK' /\ ShownIsCurrent'
      BY <2>1 DEF IInv, ClientOK, ShownIsCurrent, linkVars
    <2> QED  BY <2>1, <2>2, <2>3, SessionsKept DEF IInv
  <1> QED  BY <1>1, <1>2, <1>3, <1>4, <1>5, <1>6, <1>7, <1>8 DEF Next

-----------------------------------------------------------------------------
(* The theorems.                                                            *)

(***************************************************************************)
(* The inductive invariant holds: whatever is lost, and whoever closes a   *)
(* session, the client and the sessions of the service stay linked.        *)
(***************************************************************************)
THEOREM Invariance == Spec => []IInv
  <1>1. Init => IInv
    BY InitHolds
  <1>2. IInv /\ [Next]_vars => IInv'
    BY NextKeeps
  <1> QED  BY <1>1, <1>2, PTL DEF Spec

(***************************************************************************)
(* The registry and the client keep the types of their variables.          *)
(***************************************************************************)
THEOREM TypeCorrect == Spec => []TypeOK
  <1>1. IInv => TypeOK
    BY TypeParts DEF IInv
  <1> QED  BY <1>1, Invariance, PTL

(***************************************************************************)
(* Diagnostics of a version are shown for the text they are about only.    *)
(***************************************************************************)
THEOREM ShownDiagnosticsAreCurrent == Spec => []ShownIsCurrent
  <1>1. IInv => ShownIsCurrent
    BY DEF IInv
  <1> QED  BY <1>1, Invariance, PTL

(***************************************************************************)
(* The server's, the session's and the client's idea of what is open       *)
(* agree between exchanges, for as long as the user was told that the      *)
(* service is ready.                                                       *)
(***************************************************************************)
THEOREM ThreeCopiesAgree == Spec => []BuffersAgree
  <1>1. ASSUME IInv PROVE BuffersAgree
    <2> SUFFICES ASSUME NEW s \in registered, session[s].running, session[s].operation = "free"
                 PROVE  /\ session[s].documents = session[s].open
                        /\ (Current(s) /\ status = "ready") =>
                             CASE Stage("flush", s) = "none" -> session[s].documents = sent
                               [] Stage("flush", s) = "answered" ->
                                    call["flush"][s].result = "ok" => session[s].documents = snapshot
                               [] OTHER -> TRUE
      BY DEF BuffersAgree
    <2>1. s \in Sessions
      BY <1>1 DEF IInv, RegistryOK
    <2>2. session[s].documents = session[s].open
      BY <1>1, <2>1 DEF IInv, SessionsAgree, SessionAgrees
    <2>3. ASSUME Current(s), status = "ready"
          PROVE  /\ Stage("flush", s) = "none" => session[s].documents = sent
                 /\ Stage("flush", s) = "answered" /\ call["flush"][s].result = "ok" =>
                      session[s].documents = snapshot
      BY <1>1, <2>3 DEF IInv, Linked, SentAgrees, Current, Stage
    <2> QED  BY <2>2, <2>3
  <1> QED  BY <1>1, Invariance, PTL
=============================================================================
