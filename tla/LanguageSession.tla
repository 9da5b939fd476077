--------------------------- MODULE LanguageSession ---------------------------
(***************************************************************************)
(* The language service of the backend (backend/api/language_service.py):  *)
(* sessions with a language server process each, the registry that bounds  *)
(* and expires them, exchanges that end with a barrier, and the bounded    *)
(* queue of diagnostics.  The server is the bundled one with the changes   *)
(* of runtime/p4-language-server/adapt-server.mjs.                         *)
(*                                                                         *)
(* A session is named after the request of the editor that created it.     *)
(* Texts are versions: a version stands for one text of one document.      *)
(*                                                                         *)
(* Merged into one step: a request's lookup of its session and its taking  *)
(* of the operation lock; a session's leaving the registry and its         *)
(* closing; the server's handling of a message and the reading of what it  *)
(* published.  Framing, sizes, paths and methods are not modelled, nor is  *)
(* the pipe to the server: what an exchange has to write is `left`.        *)
(***************************************************************************)
EXTENDS Integers, FiniteSets, SequencesExt

CONSTANTS
  Documents,   \* URIs of P4 files
  Sessions,    \* identifiers, in the order in which they are asked for
  NoSession,
  MaxSessions, \* 4
  MaxEvents    \* 64, the length of a session's `events`

ASSUME SessionAssumption ==
  /\ IsFiniteSet(Documents) /\ NoSession \notin Sessions
  /\ {MaxSessions, MaxEvents} \subseteq Nat \ {0}

VARIABLES
  registered, \* the keys of LanguageRegistry.sessions
  creating,   \* the session whose creation holds the registry's lock
  idle,       \* registered sessions that were not used for IDLE_SECONDS
  session,    \* what a LanguageSession keeps, and what its process does
  call        \* HTTP requests of the editor: one of each kind per session

registryVars == <<registered, creating, idle>>
serviceVars  == <<registryVars, session>>

Posts == {"flush", "ask"}
Kinds == Posts \cup {"create", "poll", "delete"}

\* `heard`: somebody will look at the answer.
NoCall         == [stage |-> "none"]
Sent(ms)       == [stage |-> "sent", heard |-> TRUE, messages |-> ms]
Inside(c)      == [stage |-> "inside", heard |-> c.heard]
Answered(r, n) == [stage |-> "answered", result |-> r, notices |-> n]
Reply(k, s, r, n) ==
  call' = [call EXCEPT ![k][s] = IF call[k][s].heard THEN Answered(r, n) ELSE NoCall]
Stage(k, s)    == call[k][s].stage

NoDocument == [u \in Documents |-> 0]

\* `running`: the process runs, and the session is not closed; `operation`:
\* the request that holds the lock of this name; `left` and `next`: what the
\* server has not taken of its messages, and the documents after them.
NewSession == [running |-> FALSE, operation |-> "free", left |-> <<>>, next |-> NoDocument,
               documents |-> NoDocument, open |-> NoDocument, events |-> <<>>]
\* Nothing of a session that was closed is used again, but its lock is held.
Ended(x)   == [NewSession EXCEPT !.operation = x.operation]

-----------------------------------------------------------------------------
(* LanguageRegistry, under its lock.                                        *)

Expired == {s \in registered : ~session[s].running \/ s \in idle}

\* Faulty: what is no longer registered is not closed either.
Forgotten(S) == session
Closed(S)    == [s \in Sessions |-> IF s \in S THEN Ended(session[s]) ELSE session[s]]

\* Every 15 seconds.
Reap ==
  /\ creating = NoSession /\ Expired # {}
  /\ registered' = registered \ Expired /\ idle' = idle \ Expired
  /\ session' = Closed(Expired)
  /\ UNCHANGED <<creating, call>>

\* IDLE_SECONDS pass without a request for the session.
Age(s) ==
  /\ s \in registered \ idle
  /\ \A k \in Posts \cup {"poll"} : Stage(k, s) \notin {"sent", "inside"}
  /\ idle' = idle \cup {s}
  /\ UNCHANGED <<registered, creating, session, call>>

\* POST /language/sessions: the lock is held until the server has answered.
CreateBegin(s) ==
  /\ Stage("create", s) = "sent"
  /\ creating = NoSession
  /\ registered' = registered \ Expired /\ idle' = idle \ Expired
  /\ IF Cardinality(registered') < MaxSessions
     THEN /\ creating' = s
          /\ session' = [Closed(Expired) EXCEPT ![s].running = TRUE]
          /\ call' = [call EXCEPT !["create"][s] = Inside(@)]
     ELSE Reply("create", s, "error", <<>>) /\ session' = Closed(Expired) /\ UNCHANGED creating

CreateEnd(s) ==
  /\ creating = s /\ creating' = NoSession
  /\ \/ /\ session[s].running
        /\ registered' = registered \cup {s}
        /\ Reply("create", s, "ok", <<>>)
        /\ UNCHANGED session
     \/ /\ session' = Closed({s})
        /\ Reply("create", s, "error", <<>>)
        /\ UNCHANGED registered
  /\ UNCHANGED idle

Delete(s) ==
  /\ Stage("delete", s) = "sent"
  /\ creating = NoSession
  /\ registered' = registered \ {s} /\ idle' = idle \ {s}
  /\ session' = Closed({s} \cap registered)
  /\ call' = [call EXCEPT !["delete"][s] = NoCall]
  /\ UNCHANGED creating

\* get(), for a POST or GET of a session that is found there, or is not.
Lookup(k, s) ==
  /\ Stage(k, s) = "sent"
  /\ creating = NoSession
  /\ registered' = registered \ Expired /\ idle' = idle \ (Expired \cup {s})
  /\ UNCHANGED creating

NotFound(k, s) ==
  /\ Lookup(k, s) /\ s \notin registered'
  /\ session' = Closed(Expired)
  /\ Reply(k, s, "gone", <<>>)

-----------------------------------------------------------------------------
(* LanguageSession: exchange() under the operation lock, and drain().       *)

Drain(s) ==
  /\ Lookup("poll", s) /\ s \in registered'
  /\ session' = [Closed(Expired) EXCEPT ![s].events = <<>>]
  /\ Reply("poll", s, "ok", session[s].events)

\* validate(), of messages that are about different documents each.
Valid(m, documents) ==
  CASE m.kind = "open"   -> documents[m.doc] = 0
    [] m.kind = "change" -> 0 < documents[m.doc] /\ documents[m.doc] < m.version
    [] m.kind = "ask"    -> 0 < documents[m.doc]
    [] m.kind = "close"  -> TRUE

Updates(m) == m.kind # "ask"

Updated(documents, ms) ==
  [u \in Documents |->
    LET about == {i \in DOMAIN ms : ms[i].doc = u /\ Updates(ms[i])}
    IN IF about = {} THEN documents[u] ELSE ms[CHOOSE i \in about : TRUE].version]

Begin(k, s) ==
  LET ms        == call[k][s].messages
      documents == session[s].documents
  IN /\ Lookup(k, s) /\ s \in registered'
     /\ session[s].operation = "free"
     /\ IF \A i \in DOMAIN ms : Valid(ms[i], documents)
        THEN /\ call' = [call EXCEPT ![k][s] = Inside(@)]
             /\ session' = [Closed(Expired) EXCEPT ![s].operation = k, ![s].left = ms,
                                                   ![s].next = Updated(documents, ms)]
        ELSE Reply(k, s, "error", <<>>) /\ session' = Closed(Expired)

\* Faulty: the answer does not wait for the server.
Written(s)  == TRUE
Analysed(s) == session[s].left = <<>> /\ session[s].running

\* The barrier is answered, after everything before it.
Answer(s) ==
  /\ session[s].operation # "free" /\ Analysed(s)
  /\ Reply(session[s].operation, s, "ok", session[s].events)
  /\ session' = [session EXCEPT ![s].operation = "free", ![s].events = <<>>, ![s].left = <<>>,
                                ![s].documents = session[s].next, ![s].next = NoDocument]
  /\ UNCHANGED registryVars

\* Faulty: nobody looks at the clock.
OnlyWhenClosed(s) == ~session[s].running
MayGiveUp(s)      == TRUE

\* The session was closed, or REQUEST_TIMEOUT has passed since the exchange
\* began, while it writes or waits: the session is closed with it.
GiveUp(s) ==
  /\ session[s].operation # "free" /\ MayGiveUp(s)
  /\ Reply(session[s].operation, s, "error", <<>>)
  /\ session' = [session EXCEPT ![s] = NewSession]
  /\ UNCHANGED registryVars

-----------------------------------------------------------------------------
(* The server process, and the thread that reads its output.                *)

Notice(open, u) == [doc |-> u, version |-> open[u]]

\* analyzeOpenDocuments, in some order: every document that is open or had
\* errors before.  The version of one that is closed is undefined.  Each
\* document is taken to have errors, which is when most is published.
Analysis(before, open) ==
  LET touched == SetToSeq({u \in Documents : open[u] # 0 \/ before[u] # 0})
  IN [i \in DOMAIN touched |-> Notice(open, touched[i])]

Published(m, before, open) ==
  (IF m.kind = "close" THEN <<Notice(open, m.doc)>> ELSE <<>>) \o Analysis(before, open)

\* Faulty: a full queue refuses what is new.
KeepOldest(events) == IF Len(events) <= MaxEvents THEN events ELSE SubSeq(events, 1, MaxEvents)
KeepNewest(events) == IF Len(events) <= MaxEvents THEN events
                      ELSE SubSeq(events, Len(events) - MaxEvents + 1, Len(events))

\* The server takes the next message, and its diagnostics are read.
Serve(s) ==
  LET m    == Head(session[s].left)
      open == [session[s].open EXCEPT ![m.doc] = m.version]
  IN /\ session[s].running /\ session[s].left # <<>>
     /\ session' =
          IF Updates(m)
          THEN [session EXCEPT ![s].left = Tail(@), ![s].open = open,
                               ![s].events = KeepNewest(@ \o Published(m, session[s].open, open))]
          ELSE [session EXCEPT ![s].left = Tail(@)]
     /\ UNCHANGED <<registryVars, call>>

\* The process exits, or writes what the reader does not understand: the
\* session is closed, and stays registered until the next expire().
ServerEnds(s) ==
  /\ session[s].running
  /\ session' = [session EXCEPT ![s] = Ended(@)]
  /\ UNCHANGED <<registryVars, call>>

-----------------------------------------------------------------------------
Handle(k, s) == NotFound(k, s) \/ (k = "poll" /\ Drain(s)) \/ (k \in Posts /\ Begin(k, s))
Exchange(s)  == Answer(s) \/ GiveUp(s)
Create(s)    == CreateBegin(s) \/ CreateEnd(s)

Service(s) ==
  \/ Create(s) \/ Delete(s)
  \/ \E k \in Posts \cup {"poll"} : Handle(k, s)
  \/ Exchange(s) \/ Serve(s)
=============================================================================
