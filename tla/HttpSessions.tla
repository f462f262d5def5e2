---------------------------- MODULE HttpSessions ----------------------------
(* The HTTP daemon: requests, sessions and the actor a tool call acts as       *)
(* (mcp/http-server.ts, mcp/http-transport.ts, mcp/auth.ts and the wrappers of *)
(* tools/register-tools.ts), and its end by signals. A request is handled up   *)
(* to the reading of its body in one step and from there in another; other     *)
(* requests come in between. The event stream of a GET is held open until its  *)
(* client or the end of its session closes it.                                 *)

EXTENDS Naturals

CONSTANTS
  Requests,      \* slots for requests under way
  Ids,           \* session identifiers randomUUID gives out
  Actors,        \* actors that initialize bodies name
  DefaultActor,  \* the actor of a body that is no initialize
  None,          \* no session, no actor, no header
  MaxRequests    \* bound on requests that get past the checks

VARIABLES
  listening,     \* httpServer accepts requests
  sessions,      \* SessionManager: the actor each identifier was registered with
  resolver,      \* perSessionActorResolver: one variable of the process
  req,           \* what each slot is doing
  ended,         \* identifiers whose DELETE was answered
  arrived,       \* requests so far
  armed,         \* signals whose once-listener is still there
  stage,         \* of the shutdown
  acted          \* tool calls: session, actor it was registered with, actor used

vars == <<listening, sessions, resolver, req, ended, arrived, armed, stage, acted>>

Signals == {"SIGINT", "SIGTERM"}
AnyActor == Actors \cup {DefaultActor, None}
NoRequest == [step |-> "idle", session |-> None, actor |-> None, late |-> FALSE]
Request == [step : {"idle", "initialize", "call", "delete", "stream"}, session : Ids \cup {None},
            actor : AnyActor, late : BOOLEAN]
Deed == [session : Ids, of : AnyActor, actor : AnyActor, late : BOOLEAN]

TypeOK ==
  /\ listening \in BOOLEAN
  /\ sessions \in [Ids -> AnyActor]
  /\ resolver \in AnyActor
  /\ req \in [Requests -> Request]
  /\ ended \subseteq Ids
  /\ arrived \in 0..MaxRequests
  /\ armed \subseteq Signals
  /\ stage \in {"up", "draining", "closing", "down", "killed"}
  /\ acted \subseteq Deed

Init ==
  /\ listening = TRUE
  /\ sessions = [i \in Ids |-> None]
  /\ resolver = None
  /\ req = [r \in Requests |-> NoRequest]
  /\ ended = {} /\ arrived = 0
  /\ armed = Signals /\ stage = "up"
  /\ acted = {}

Registered(i) == sessions[i] # None
Running == stage \notin {"down", "killed"}

(* validateRequest, in its order; what it refuses changes nothing. *)
Refusal(host, token, origin, path) ==
  IF path # "/mcp" THEN 404
  ELSE IF ~host THEN 403
  ELSE IF ~token THEN 401
  ELSE IF ~origin THEN 403
  ELSE 0

Admitted(r) ==
  /\ Running /\ listening /\ arrived < MaxRequests
  /\ req[r] = NoRequest
  /\ \E host, token, origin \in BOOLEAN, path \in {"/mcp", "/"} :
       Refusal(host, token, origin, path) = 0
  /\ arrived' = arrived + 1

Reads(r, step, i, actor) ==
  req' = [req EXCEPT ![r] = [step |-> step, session |-> i, actor |-> actor,
                             late |-> i \in ended]]

(* A POST without a session. parseInitializeBody: an initialize without a    *)
(* usable actor is refused, a body that is no initialize acts as the default *)
(* actor. The body is still to be read.                                      *)
PostNew(r) ==
  /\ Admitted(r)
  /\ \E a \in Actors \cup {DefaultActor} : Reads(r, "initialize", None, a)
  /\ UNCHANGED <<listening, sessions, resolver, ended, armed, stage, acted>>

(* A POST with a session: an identifier that is not registered is refused.   *)
PostKnown(r, i) ==
  /\ Admitted(r)
  /\ IF Registered(i) THEN Reads(r, "call", i, sessions[i]) ELSE UNCHANGED req
  /\ UNCHANGED <<listening, sessions, resolver, ended, armed, stage, acted>>

(* A GET with a session: the transport opens its event stream, one at most,  *)
(* and leaves the response open.                                             *)
Streams(q, i) == req[q].step = "stream" /\ req[q].session = i

GetStream(r, i) ==
  /\ Admitted(r)
  /\ IF Registered(i) /\ \A q \in Requests : ~Streams(q, i)
     THEN Reads(r, "stream", i, sessions[i]) ELSE UNCHANGED req
  /\ UNCHANGED <<listening, sessions, resolver, ended, armed, stage, acted>>

(* Its client goes away, or does not. *)
StreamCloses(r) ==
  /\ Running /\ req[r].step = "stream"
  /\ req' = [req EXCEPT ![r] = NoRequest]
  /\ UNCHANGED <<listening, sessions, resolver, ended, arrived, armed, stage, acted>>

(* The rest of the first POST, in one go: the resolver of the process, then  *)
(* a server and a transport of its own, registered under a new identifier,   *)
(* also for a body that the transport then refuses.                          *)
Initialize(r) ==
  /\ Running /\ req[r].step = "initialize"
  /\ resolver' = req[r].actor
  /\ \E i \in Ids :
       /\ ~Registered(i) /\ i \notin ended
       /\ \A q \in Requests : req[q].session # i
       /\ sessions' = [sessions EXCEPT ![i] = req[r].actor]
  /\ req' = [req EXCEPT ![r] = NoRequest]
  /\ UNCHANGED <<listening, ended, arrived, armed, stage, acted>>

(* What the wrapper of a tool makes of a call. *)
ToolOutcome(aborted, valid) ==
  IF aborted THEN "cancelled" ELSE IF ~valid THEN "invalid_schema" ELSE "run"

(* The call itself goes to the entry found when the request came; the actor  *)
(* is asked for only now.                                                    *)
ToolCall(r) ==
  /\ Running /\ req[r].step = "call"
  /\ req' = [req EXCEPT ![r] = NoRequest]
  /\ \E aborted, valid \in BOOLEAN :
       acted' = IF ToolOutcome(aborted, valid) # "run" THEN acted
                ELSE acted \cup {[session |-> req[r].session, of |-> req[r].actor,
                                  actor |-> resolver, late |-> req[r].late]}
  /\ UNCHANGED <<listening, sessions, resolver, ended, arrived, armed, stage>>

(* The body never comes to its end, or the handler throws: 500. *)
RequestFails(r) ==
  /\ Running /\ req[r].step \in {"initialize", "call"}
  /\ req' = [req EXCEPT ![r] = NoRequest]
  /\ UNCHANGED <<listening, sessions, resolver, ended, arrived, armed, stage, acted>>

(* DELETE: the entry leaves the map first, then its server and transport are *)
(* closed, and the stream with them, then the answer goes out.               *)
Delete(r, i) ==
  /\ Admitted(r)
  /\ sessions' = [sessions EXCEPT ![i] = None]
  /\ req' = [q \in Requests |->
       IF q = r THEN [step |-> "delete", session |-> i, actor |-> None, late |-> i \in ended]
       ELSE IF Registered(i) /\ Streams(q, i) THEN NoRequest ELSE req[q]]
  /\ UNCHANGED <<listening, resolver, ended, armed, stage, acted>>

Deleted(r) ==
  /\ Running /\ req[r].step = "delete"
  /\ ended' = ended \cup {req[r].session}
  /\ req' = [req EXCEPT ![r] = NoRequest]
  /\ UNCHANGED <<listening, sessions, resolver, arrived, armed, stage, acted>>

(* process.once: the first signal of a kind shuts down; the second one finds *)
(* no listener and kills the process.                                        *)
Signal(s) ==
  /\ Running
  /\ armed' = armed \ {s}
  /\ IF s \in armed THEN listening' = FALSE /\ stage' = (IF stage = "up" THEN "draining" ELSE stage)
                    ELSE stage' = "killed" /\ UNCHANGED listening
  /\ UNCHANGED <<sessions, resolver, req, ended, arrived, acted>>

(* Mutant: the sessions are closed beside the connections. *)
DrainedAtOnce == TRUE

(* httpServer.close calls back when the last connection is gone, that of a    *)
(* stream as well: the sessions and their streams are only closed after.     *)
Drained == \A r \in Requests : req[r] = NoRequest

CloseAll ==
  /\ stage = "draining" /\ Drained
  /\ sessions' = [i \in Ids |-> None]
  /\ stage' = "closing"
  /\ UNCHANGED <<listening, resolver, req, ended, arrived, armed, acted>>

(* lifecycle.shutdown: its ceiling counts from here, and from here only. *)
LifecycleShutdown ==
  /\ stage = "closing"
  /\ stage' = "down"
  /\ UNCHANGED <<listening, sessions, resolver, req, ended, arrived, armed, acted>>

Ended == ~Running /\ UNCHANGED vars

Handle(r) == Initialize(r) \/ ToolCall(r) \/ RequestFails(r) \/ Deleted(r)

Next ==
  \/ \E r \in Requests :
       \/ PostNew(r) \/ Handle(r) \/ StreamCloses(r)
       \/ \E i \in Ids : PostKnown(r, i) \/ GetStream(r, i) \/ Delete(r, i)
  \/ \E s \in Signals : Signal(s)
  \/ CloseAll \/ LifecycleShutdown \/ Ended

(* The daemon goes on once its last connection is gone: the servers and      *)
(* transports of its sessions close, and the lifecycle ends under its        *)
(* ceiling. That clients finish their bodies and leave their streams is not  *)
(* the daemon's to see to and not assumed.                                   *)
Fairness == WF_vars(CloseAll) /\ WF_vars(LifecycleShutdown)

Spec == Init /\ [][Next]_vars /\ Fairness

-----------------------------------------------------------------------------
(* A call that comes after the answer to its session's DELETE runs no tool.  *)
DeletedIsGone == \A d \in acted : ~d.late

(* The daemon leaves no session behind, not even one whose first request was *)
(* being read when the signal came.                                          *)
NoSessionLeft == stage = "down" => \A i \in Ids : ~Registered(i)

(* After a signal the daemon ends, once no request is under way and no       *)
(* stream open any more.                                                     *)
StopsWhenDrained == (stage = "draining" /\ Drained) ~> ~Running

(* The code does not keep this: one client that holds its stream open, or    *)
(* does not finish a body, keeps the daemon from ending.                     *)
StopsInTheEnd == (stage = "draining") ~> ~Running

(* A tool call acts as the actor its session was initialized with.           *)
ActsAsItsSession == \A d \in acted : d.actor = d.of
=============================================================================
