----------------------------- MODULE HttpBridge -----------------------------
(* The sessions of the HTTP bridge (http-bridge/bridge.mjs): one map, filled   *)
(* by initialize and emptied when a transport closes. A POST asks whether its  *)
(* session is known, awaits its body, and only then looks the session up.      *)

EXTENDS Naturals, FiniteSets

CONSTANTS
  Requests,      \* requests that may be under way at once
  Ids,           \* session ids
  NoId,          \* no mcp-session-id header
  MaxRequests    \* bound on requests

VARIABLES
  sessions,      \* the map: ids with an open transport
  used,          \* ids ever generated
  request,       \* what each request is, and what it has found
  answer,        \* the status of each request's last answer
  sent           \* requests so far

vars == <<sessions, used, request, answer, sent>>

Idle == [at |-> "idle", method |-> "none", id |-> NoId, valid |-> FALSE]

TypeOK ==
  /\ sessions \subseteq used /\ used \subseteq Ids
  /\ request \in [Requests -> [at : {"idle", "body", "create", "handle"},
                               method : {"none", "initialize", "other"},
                               id : Ids \cup {NoId}, valid : BOOLEAN]]
  /\ answer \in [Requests -> {"none", "ok", "bad_request", "not_found", "unparsed", "failed"}]
  /\ sent \in 0..MaxRequests

Init ==
  /\ sessions = {} /\ used = {}
  /\ request = [r \in Requests |-> Idle]
  /\ answer = [r \in Requests |-> "none"]
  /\ sent = 0

(* A POST arrives: sessionValid, then the await of readJsonBody. *)
Post(r, method, id) ==
  /\ request[r] = Idle /\ sent < MaxRequests /\ sent' = sent + 1
  /\ request' = [request EXCEPT ![r] = [at |-> "body", method |-> method, id |-> id,
                                        valid |-> id \in sessions]]
  /\ answer' = [answer EXCEPT ![r] = "none"]
  /\ UNCHANGED <<sessions, used>>

Answers(r, status) ==
  /\ answer' = [answer EXCEPT ![r] = status]
  /\ request' = [request EXCEPT ![r] = Idle]

(* A body that does not parse rejects: 500. *)
BadBody(r) ==
  /\ request[r].at = "body"
  /\ Answers(r, "unparsed")
  /\ UNCHANGED <<sessions, used, sent>>

(* The session was known: it is looked up again, and may be gone. *)
Known(r) ==
  /\ request[r].at = "body" /\ request[r].valid
  /\ Answers(r, IF request[r].id \in sessions THEN "ok" ELSE "failed")
  /\ UNCHANGED <<sessions, used, sent>>

Opens(r) == request[r].method = "initialize"

(* A header that was not known, or none, and no initialize. *)
Unknown(r) ==
  /\ request[r].at = "body" /\ ~request[r].valid /\ ~Opens(r)
  /\ Answers(r, IF request[r].id = NoId THEN "bad_request" ELSE "not_found")
  /\ UNCHANGED <<sessions, used, sent>>

(* initialize: a server and a transport, connected, *)
Create(r) ==
  /\ request[r].at = "body" /\ ~request[r].valid /\ Opens(r)
  /\ request' = [request EXCEPT ![r].at = "create"]
  /\ UNCHANGED <<sessions, used, answer, sent>>

(* whose onsessioninitialized puts a new id into the map. *)
Initialized(r, id) ==
  /\ request[r].at = "create" /\ id \notin used
  /\ used' = used \cup {id} /\ sessions' = sessions \cup {id}
  /\ Answers(r, "ok")
  /\ UNCHANGED sent

(* DELETE, answered by the transport, which closes. *)
Delete(r, id) ==
  /\ request[r] = Idle /\ sent < MaxRequests /\ sent' = sent + 1
  /\ sessions' = sessions \ {id}
  /\ answer' = [answer EXCEPT ![r] = IF id \in sessions THEN "ok" ELSE "not_found"]
  /\ UNCHANGED <<used, request>>

Next == \E r \in Requests :
  \/ \E method \in {"initialize", "other"}, id \in used \cup {NoId} : Post(r, method, id)
  \/ BadBody(r) \/ Known(r) \/ Unknown(r) \/ Create(r)
  \/ \E id \in Ids : Initialized(r, id) \/ Delete(r, id)

Spec == Init /\ [][Next]_vars

-----------------------------------------------------------------------------
(* Only an initialize opens a session, and an id that was closed stays closed, *)
(* whatever was in flight when it closed.                                      *)
KeepsClosed == \A id \in used : id \notin sessions => id \notin sessions'
OnlyInitialize ==
  \A id \in sessions' \ sessions : \E r \in Requests :
    request[r].at = "create" /\ request[r].method = "initialize" /\ request'[r] = Idle
SessionsBegin == [][KeepsClosed /\ OnlyInitialize]_vars

(* A POST to a session that is closed meanwhile is answered as one to a       *)
(* session that is not there.                                                 *)
NeverFails == \A r \in Requests : answer[r] # "failed"
=============================================================================
