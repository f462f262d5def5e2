----------------------------- MODULE SessionIngest -----------------------------
(* Captured sessions: ingest, forget and what an ingest leaves behind when it  *)
(* throws or its process dies (sessions/service.ts, sessions/adapters/jsonl.ts *)
(* and the session tables of sqlite-store.ts). Every statement of an ingest    *)
(* commits by itself.                                                          *)

EXTENDS Naturals, FiniteSetsExt

CONSTANTS
  Clients,       \* processes that ingest
  Sources,       \* source identities: kind, version, instance, session
  Events,        \* event ids the sources give out, numbered in sequence
  Ids,           \* session ids randomUUID gives out
  None

(* A bundle stands for its canonical hash. Two events have the same text; the *)
(* last one has none.                                                         *)
Bundles == [source : Sources, events : SUBSET Events \ {{}}]
Digest(e) == IF e = Max(Events) THEN None ELSE "text"

VARIABLES
  session,       \* sessions: the bundle of each row
  event,         \* session_events: the session each event id belongs to
  blob,          \* session_event_blobs
  used,          \* session ids given out so far
  call,          \* what each client is doing
  answered       \* sessions whose ingest was answered, and whether by replay

vars == <<session, event, blob, used, call, answered>>

NoCall == [step |-> "idle", bundle |-> None, id |-> None, left |-> {}]

TypeOK ==
  /\ session \in [Ids -> Bundles \cup {None}]
  /\ event \in [Events -> Ids \cup {None}]
  /\ blob \subseteq {"text"}
  /\ used \subseteq Ids
  /\ call \in [Clients ->
       [step : {"idle", "insert", "blob", "event"}, bundle : Bundles \cup {None},
        id : Ids \cup {None}, left : SUBSET Events]]
  /\ answered \subseteq [id : Ids, replayed : BOOLEAN]

Init ==
  /\ session = [i \in Ids |-> None]
  /\ event = [e \in Events |-> None]
  /\ blob = {} /\ used = {}
  /\ call = [c \in Clients |-> NoCall]
  /\ answered = {}

Stored == {i \in Ids : session[i] # None}
EventsOf(i) == {e \in Events : event[e] = i}
Does(c, new) == call' = [call EXCEPT ![c] = new]

(* ingest, once the scope and project of the bundle are accepted: the lookup  *)
(* by source identity. The same bundle again is a replay, another one under   *)
(* this identity is a drift and throws.                                       *)
Replay(c, b) ==
  \E i \in Stored :
    /\ session[i] = b
    /\ answered' = answered \cup {[id |-> i, replayed |-> TRUE]}
    /\ UNCHANGED <<session, event, blob, used, call>>

NotSeen(b) == \A i \in Stored : session[i].source # b.source

Lookup(c, b) ==
  /\ call[c] = NoCall
  /\ \/ Replay(c, b)
     \/ /\ NotSeen(b)
        /\ Does(c, [NoCall EXCEPT !.step = "insert", !.bundle = b])
        /\ UNCHANGED <<session, event, blob, used, answered>>

Throws(c) ==
  /\ Does(c, NoCall)
  /\ UNCHANGED <<session, event, blob, used, answered>>

(* Mutant: the source identity is not unique in the table. *)
InsertUnchecked(c) ==
  \E i \in Ids \ used :
    /\ session' = [session EXCEPT ![i] = call[c].bundle]
    /\ used' = used \cup {i}
    /\ Does(c, [call[c] EXCEPT !.step = "blob", !.id = i, !.left = call[c].bundle.events])
    /\ UNCHANGED <<event, blob, answered>>

(* insertSession, under the UNIQUE constraint on the source identity. *)
Insert(c) ==
  \/ ~NotSeen(call[c].bundle) /\ Throws(c)
  \/ /\ NotSeen(call[c].bundle)
     /\ \E i \in Ids \ used :
          /\ session' = [session EXCEPT ![i] = call[c].bundle]
          /\ used' = used \cup {i}
          /\ Does(c, [call[c] EXCEPT !.step = "blob", !.id = i,
                                     !.left = call[c].bundle.events])
     /\ UNCHANGED <<event, blob, answered>>

InsertSession(c) == call[c].step = "insert" /\ Insert(c)

(* persistEvent, for each event in turn: the blob, *)
PutBlob(c) ==
  /\ call[c].step = "blob" /\ call[c].left # {}
  /\ blob' = blob \cup ({Digest(Min(call[c].left))} \ {None})
  /\ Does(c, [call[c] EXCEPT !.step = "event"])
  /\ UNCHANGED <<session, event, used, answered>>

(* and the row. An event id that is taken, or a session that was forgotten,  *)
(* throws, and what is stored by then stays.                                 *)
PutEvent(c) ==
  /\ call[c].step = "event"
  /\ LET e == Min(call[c].left)
     IN  IF event[e] # None \/ session[call[c].id] = None
         THEN Throws(c)
         ELSE /\ event' = [event EXCEPT ![e] = call[c].id]
              /\ Does(c, [call[c] EXCEPT !.step = "blob", !.left = @ \ {e}])
              /\ UNCHANGED <<session, blob, used, answered>>

Answer(c) ==
  /\ call[c].step = "blob" /\ call[c].left = {}
  /\ answered' = answered \cup {[id |-> call[c].id, replayed |-> FALSE]}
  /\ Does(c, NoCall)
  /\ UNCHANGED <<session, event, blob, used>>

Crash(c) == call[c] # NoCall /\ Throws(c)

(* forgetSession: ON DELETE CASCADE takes the events, the blobs stay. *)
EventsLeft(i) == [e \in Events |-> IF event[e] = i THEN None ELSE event[e]]

Forget(i) ==
  /\ session[i] # None
  /\ session' = [session EXCEPT ![i] = None]
  /\ event' = EventsLeft(i)
  /\ UNCHANGED <<blob, used, call, answered>>

Next ==
  \/ \E c \in Clients :
       \/ \E b \in Bundles : Lookup(c, b)
       \/ InsertSession(c) \/ PutBlob(c) \/ PutEvent(c) \/ Answer(c) \/ Crash(c)
  \/ \E i \in Ids : Forget(i)

Spec == Init /\ [][Next]_vars

-----------------------------------------------------------------------------
(* However ingests of one source overlap, throw, die and are forgotten: there *)
(* is one session to a source identity, its events are of the bundle whose    *)
(* hash it answers for, every event that has a text finds its body, and what  *)
(* was answered as ingested is there in full.                                 *)
OneSessionPerSource ==
  \A i, j \in Stored : session[i].source = session[j].source => i = j

EventsOfTheBundle ==
  \A e \in Events : event[e] # None =>
    /\ event[e] \in Stored
    /\ e \in session[event[e]].events

BodiesStored ==
  \A e \in Events : event[e] # None => Digest(e) \in blob \cup {None}

FreshIsWhole ==
  \A a \in answered : a.id \in Stored /\ ~a.replayed
    => EventsOf(a.id) = session[a.id].events

SessionsConsistent ==
  OneSessionPerSource /\ EventsOfTheBundle /\ BodiesStored /\ FreshIsWhole

(* A session whose ingest was answered, a replay included, has the events of *)
(* its bundle.                                                               *)
AnsweredIsWhole ==
  \A a \in answered : a.id \in Stored => EventsOf(a.id) = session[a.id].events
=============================================================================
