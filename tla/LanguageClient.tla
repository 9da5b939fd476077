--------------------------- MODULE LanguageClient ---------------------------
(***************************************************************************)
(* The editor's language client                                            *)
(* (frontend/src/Components/Development/languageClient.js) with the        *)
(* sessions it talks to over HTTP: documents are synchronized one flush    *)
(* after the other, diagnostics come with the answers of flushes, requests *)
(* and polls, in whatever order these arrive, and are shown if they are    *)
(* for the version of the document that is being edited.                   *)
(*                                                                         *)
(* The session that is asked for by the g-th initialize() is session g.    *)
(***************************************************************************)
EXTENDS LanguageSession

CONSTANTS
  MaxVersion,     \* bound of the model: edits
  MaxGenerations, \* bound of the model: sessions that are asked for
  Asking,         \* bound of the model: sessions that are asked for completions
  MaxFaults       \* bound of the model: lost requests or answers, crashed servers

ASSUME ClientAssumption ==
  /\ Sessions = 1..MaxGenerations /\ MaxGenerations \in Nat \ {0}
  /\ MaxVersion \in Nat \ {0} /\ MaxFaults \in Nat /\ Asking \subseteq Sessions

VARIABLES
  generation, \* generation
  disposed,   \* closed
  status,     \* the last status that was reported
  ready,      \* what the promise `ready` has become
  documents,  \* the version of each document, 0 if it is not in the editor
  sent,       \* the versions the service is known to have
  snapshot,   \* those of the flush that is under way
  nextVersion,
  wanted,     \* changeTimer is set, or a flush waits for its turn in `sequence`
  polling,    \* poll() goes on
  shown,      \* the diagnostics shown for a document: of this version, or without one
  faults      \* faults so far

editorVars == <<documents, nextVersion>>
linkVars   == <<generation, disposed, ready>>
clientVars == <<linkVars, status, editorVars, sent, snapshot, wanted, polling, shown, faults>>
vars == <<serviceVars, call, clientVars>>

Nothing     == -1   \* no diagnostics are shown since the text changed
Unversioned == 0

Versions == 1..MaxVersion

TypeOK ==
  /\ registered \subseteq Sessions /\ idle \subseteq registered
  /\ creating \in Sessions \cup {NoSession}
  /\ generation \in Sessions /\ disposed \in BOOLEAN
  /\ status \in {"connecting", "ready", "unavailable"} /\ ready \in {"pending", "yes", "no"}
  /\ {documents, sent, snapshot} \subseteq [Documents -> 0..MaxVersion]
  /\ nextVersion \in 1..(MaxVersion + 1)
  /\ {wanted, polling} \subseteq BOOLEAN
  /\ shown \in [Documents -> Versions \cup {Nothing, Unversioned}]
  /\ faults \in 0..MaxFaults

Ask(k, s, ms) == call' = [call EXCEPT ![k][s] = Sent(ms)]

\* The editor is shown with one document, which sync() has been told of.
Init ==
  /\ registered = {} /\ creating = NoSession /\ idle = {}
  /\ session = [s \in Sessions |-> NewSession]
  /\ call = [k \in Kinds |-> [s \in Sessions |->
               IF k = "create" /\ s = 1 THEN Sent(<<>>) ELSE NoCall]]
  /\ generation = 1 /\ disposed = FALSE /\ status = "connecting" /\ ready = "pending"
  /\ documents = [NoDocument EXCEPT ![CHOOSE u \in Documents : TRUE] = 1] /\ nextVersion = 2
  /\ sent = NoDocument /\ snapshot = NoDocument /\ wanted = TRUE /\ polling = FALSE
  /\ shown = [u \in Documents |-> Nothing] /\ faults = 0

Current(s) == s = generation /\ ~disposed

-----------------------------------------------------------------------------
(* receive().                                                               *)

\* Faulty: any diagnostics of a document that is open are shown.
AcceptsAny(n) == documents[n.doc] # 0
Accepts(n)    == documents[n.doc] # 0 /\ n.version \in {Unversioned, documents[n.doc]}

Receive(notices) ==
  shown' = [u \in Documents |->
    LET about == {i \in DOMAIN notices : notices[i].doc = u /\ Accepts(notices[i])}
    IN IF about = {} THEN shown[u]
       ELSE notices[CHOOSE i \in about : \A j \in about : j <= i].version]

-----------------------------------------------------------------------------
(* sync(), with one document opened, edited or closed.                      *)

Edit(u) ==
  /\ ~disposed /\ nextVersion <= MaxVersion
  /\ documents' = [documents EXCEPT ![u] = nextVersion]
  /\ nextVersion' = nextVersion + 1
  /\ shown' = [shown EXCEPT ![u] = Nothing]
  /\ wanted' = TRUE
  /\ UNCHANGED <<serviceVars, call, linkVars, status, sent, snapshot, polling, faults>>

CloseDocument(u) ==
  /\ ~disposed /\ documents[u] # 0
  /\ documents' = [documents EXCEPT ![u] = 0]
  /\ shown' = [shown EXCEPT ![u] = Nothing]
  /\ wanted' = TRUE
  /\ UNCHANGED <<serviceVars, call, linkVars, status, nextVersion, sent, snapshot,
                 polling, faults>>

-----------------------------------------------------------------------------
(* flush(), one after the other.                                            *)

Message(u) ==
  CASE documents[u] = 0 -> [kind |-> "close", doc |-> u, version |-> 0]
    [] sent[u] = 0      -> [kind |-> "open", doc |-> u, version |-> documents[u]]
    [] OTHER            -> [kind |-> "change", doc |-> u, version |-> documents[u]]

\* What is closed comes first.
Difference ==
  LET changed == {u \in Documents : documents[u] # sent[u]}
      closed  == {u \in changed : documents[u] = 0}
      us      == SetToSeq(closed) \o SetToSeq(changed \ closed)
  IN [i \in DOMAIN us |-> Message(us[i])]

Flush ==
  /\ wanted /\ ready # "pending" /\ Stage("flush", generation) = "none"
  /\ wanted' = FALSE
  /\ IF ready = "yes" /\ documents # sent
     THEN Ask("flush", generation, Difference) /\ snapshot' = documents
     ELSE UNCHANGED <<call, snapshot>>
  /\ UNCHANGED <<serviceVars, linkVars, status, editorVars, sent, polling, shown, faults>>

FlushReply(s) ==
  LET answer == call["flush"][s]
      ok     == answer.result = "ok"
  IN /\ Stage("flush", s) = "answered"
     /\ call' = [call EXCEPT !["flush"][s] = NoCall]
     /\ sent' = (IF ok THEN snapshot ELSE sent) /\ snapshot' = NoDocument
     /\ Receive(answer.notices)
     /\ status' = IF ok THEN status ELSE "unavailable"
     /\ UNCHANGED <<serviceVars, linkVars, editorVars, wanted, polling, faults>>

-----------------------------------------------------------------------------
(* request(), whose flush has succeeded, and poll().                        *)

Request(u) ==
  /\ ~disposed /\ ready = "yes" /\ generation \in Asking /\ Stage("ask", generation) = "none"
  /\ Stage("flush", generation) = "none" /\ sent[u] # 0
  /\ Ask("ask", generation, <<[kind |-> "ask", doc |-> u]>>)
  /\ UNCHANGED <<serviceVars, clientVars>>

\* A failed request is rejected without a status.
RequestReply(s) ==
  /\ Stage("ask", s) = "answered"
  /\ call' = [call EXCEPT !["ask"][s] = NoCall]
  /\ Receive(call["ask"][s].notices)
  /\ UNCHANGED <<serviceVars, linkVars, status, editorVars, sent, snapshot, wanted, polling,
                 faults>>

Poll ==
  /\ polling /\ Stage("poll", generation) = "none"
  /\ Ask("poll", generation, <<>>)
  /\ UNCHANGED <<serviceVars, clientVars>>

PollReply(s) ==
  LET answer == call["poll"][s] IN
  /\ Stage("poll", s) = "answered"
  /\ call' = [call EXCEPT !["poll"][s] = NoCall]
  /\ Receive(answer.notices)
  /\ status' = IF answer.result = "ok" THEN status ELSE "unavailable"
  /\ polling' = (answer.result # "gone")
  /\ UNCHANGED <<serviceVars, linkVars, editorVars, sent, snapshot, wanted, faults>>

-----------------------------------------------------------------------------
(* initialize(), reconnect() and dispose().                                 *)

\* The session of a client that has gone on in the meantime is deleted.
CreateReply(s) ==
  LET ok == call["create"][s].result = "ok" IN
  /\ Stage("create", s) = "answered"
  /\ IF ok /\ ~Current(s)
     THEN call' = [call EXCEPT !["create"][s] = NoCall, !["delete"][s] = Sent(<<>>)]
     ELSE call' = [call EXCEPT !["create"][s] = NoCall]
  /\ IF Current(s)
     THEN /\ status' = IF ok THEN "ready" ELSE "unavailable"
          /\ ready' = IF ok THEN "yes" ELSE "no"
          /\ polling' = ok
     ELSE UNCHANGED <<status, ready, polling>>
  /\ UNCHANGED <<serviceVars, generation, disposed, editorVars, sent, snapshot, wanted,
                 shown, faults>>

\* The session is deleted, and the answers of its requests will be ignored.
Unheard(c) == IF c.stage \in {"sent", "inside"} THEN [c EXCEPT !.heard = FALSE] ELSE NoCall
Left ==
  [k \in Kinds |->
    CASE k = "delete" /\ ready = "yes" -> [call[k] EXCEPT ![generation] = Sent(<<>>)]
      [] k \in Posts \cup {"poll"}      -> [call[k] EXCEPT ![generation] = Unheard(@)]
      [] OTHER                         -> call[k]]

\* Faulty: the new session is taken to know what the old one did.
StillSent == sent
NoneSent  == NoDocument

\* The button for it is there when the service is unavailable.
Reconnect ==
  /\ ~disposed /\ status = "unavailable" /\ generation < MaxGenerations
  /\ generation' = generation + 1
  /\ call' = [Left EXCEPT !["create"][generation'] = Sent(<<>>)]
  /\ status' = "connecting" /\ ready' = "pending"
  /\ sent' = NoneSent /\ snapshot' = NoDocument
  /\ wanted' = TRUE /\ polling' = FALSE
  /\ UNCHANGED <<serviceVars, disposed, editorVars, shown, faults>>

\* Nothing the client kept is used again.
Dispose ==
  /\ ~disposed /\ disposed' = TRUE
  /\ call' = Left
  /\ documents' = NoDocument /\ nextVersion' = 1 /\ shown' = [u \in Documents |-> Nothing]
  /\ sent' = NoDocument /\ snapshot' = NoDocument
  /\ ready' = "no" /\ status' = "unavailable" /\ wanted' = FALSE /\ polling' = FALSE
  /\ UNCHANGED <<serviceVars, generation, faults>>

-----------------------------------------------------------------------------
(* Faults: a request or an answer is lost, which the client learns from its *)
(* timeout (nobody waits for the answer of a DELETE); a server exits.       *)

Lose(k, s) ==
  /\ faults < MaxFaults /\ faults' = faults + 1
  /\ Current(s) \/ k \in {"create", "delete"}
  /\ \/ Stage(k, s) = "sent"
     \/ Stage(k, s) = "answered" /\ call[k][s].result # "lost"
  /\ IF k = "delete" THEN call' = [call EXCEPT ![k][s] = NoCall]
     ELSE call' = [call EXCEPT ![k][s] = Answered("lost", <<>>)]
  /\ UNCHANGED <<serviceVars, linkVars, status, editorVars, sent, snapshot, wanted, polling,
                 shown>>

Crash(s) ==
  /\ faults < MaxFaults /\ faults' = faults + 1
  /\ ServerEnds(s)
  /\ UNCHANGED <<linkVars, status, editorVars, sent, snapshot, wanted, polling, shown>>

-----------------------------------------------------------------------------
\* A client polls every few seconds for as long as it is there.
Idle(s) == ~(Current(s) /\ polling) /\ Age(s)

Answers(s) == FlushReply(s) \/ RequestReply(s) \/ PollReply(s) \/ CreateReply(s)

Next ==
  \/ \E u \in Documents : Edit(u) \/ CloseDocument(u) \/ Request(u)
  \/ Flush \/ Poll
  \/ \E s \in Sessions : Answers(s)
  \/ Reconnect \/ Dispose
  \/ (Reap \/ \E s \in Sessions : Service(s) \/ Idle(s)) /\ UNCHANGED clientVars
  \/ \E k \in Kinds, s \in Sessions : Lose(k, s)
  \/ \E s \in Sessions : Crash(s)

Spec == Init /\ [][Next]_vars

(***************************************************************************)
(* Each request goes on, in the browser and in its thread of the backend,  *)
(* and time passes: an exchange that is not answered gives up, and a       *)
(* session without requests becomes idle.  Nothing obliges a server to     *)
(* answer, or a user to do anything.                                       *)
(***************************************************************************)
Served(k, s) == Handle(k, s) /\ UNCHANGED clientVars
Fairness ==
  /\ WF_vars(Reap /\ UNCHANGED clientVars)
  /\ \A s \in Sessions :
       /\ WF_vars((s = generation /\ Flush) \/ Served("flush", s) \/ FlushReply(s))
       /\ WF_vars((s = generation /\ Poll) \/ Served("poll", s) \/ PollReply(s))
       /\ WF_vars(Served("ask", s) \/ RequestReply(s))
       /\ WF_vars(((Create(s) \/ Delete(s)) /\ UNCHANGED clientVars) \/ CreateReply(s))
       /\ WF_vars(Exchange(s) /\ UNCHANGED clientVars)
       /\ WF_vars(Idle(s) /\ UNCHANGED clientVars)

FairSpec == Spec /\ Fairness

-----------------------------------------------------------------------------
(***************************************************************************)
(* Diagnostics of a version are shown for the text they are about only,    *)
(* whatever the order in which the answers to flushes, requests and polls  *)
(* arrive, and whichever session they come from (receive, :42).            *)
(***************************************************************************)
ShownIsCurrent ==
  \A u \in Documents : shown[u] \in Versions => shown[u] = documents[u]

(***************************************************************************)
(* The three copies of what is open agree: between exchanges, a session    *)
(* that is not closed remembers the documents that its server has, and as  *)
(* long as the user was not told that the service is unavailable, they are *)
(* those the client takes for sent (when an answer that succeeded is on    *)
(* the way, those of its flush).  Otherwise the next flush would be        *)
(* refused, or would leave out a change (flush, :80-92; exchange).         *)
(***************************************************************************)
BuffersAgree ==
  \A s \in registered :
    (session[s].running /\ session[s].operation = "free") =>
      /\ session[s].documents = session[s].open
      /\ (Current(s) /\ status = "ready") =>
           CASE Stage("flush", s) = "none" -> session[s].documents = sent
             [] Stage("flush", s) = "answered" ->
                  call["flush"][s].result = "ok" => session[s].documents = snapshot
             [] OTHER -> TRUE

(***************************************************************************)
(* A document that stays as it is gets its diagnostics, or the user is     *)
(* told: the bounded queue, polls that drain it, lost answers, sessions    *)
(* that expire and servers that hang lose none in silence.  (Diagnostics   *)
(* without a version may take their place, see EarlierLifetimeIgnored.     *)
(* Edits are bounded, so documents stay as they are some day.)             *)
(***************************************************************************)
DiagnosticsArrive ==
  []<>(\A u \in Documents :
         documents[u] # 0 => shown[u] \in {documents[u], Unversioned} \/ status = "unavailable")

(***************************************************************************)
(* The process of a session that its client has left, or never learned of, *)
(* ends, whatever was lost (LanguageRegistry.delete, expire).              *)
(***************************************************************************)
LeftSessionsEnd ==
  []<>(\A s \in Sessions : session[s].running => Current(s))

(***************************************************************************)
(* "Never reuse its old version: that could skip changed text or accept    *)
(* diagnostics from its earlier lifetime" (languageClient.js:67): the      *)
(* diagnostics that are shown for an open document do not give way to      *)
(* those of an earlier lifetime.  The notice that a document was closed    *)
(* has no version, and is accepted for whatever is open when it arrives.   *)
(***************************************************************************)
EarlierLifetimeIgnored ==
  [][\A u \in Documents : (shown[u] \in Versions /\ documents'[u] = documents[u])
                            => shown'[u] # Unversioned]_vars
=============================================================================
