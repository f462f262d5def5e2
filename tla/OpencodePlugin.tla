--------------------------- MODULE OpencodePlugin ---------------------------
(* The opencode plugin (opencode-plugin/index.js, context-client.mjs): each    *)
(* call of its hook injects a cached text, or builds one by asking a server    *)
(* it starts, or reading the database when that fails. Calls overlap: the      *)
(* hook awaits the server. A text is the time of its reading.                  *)

EXTENDS Naturals

CONSTANTS
  Hooks,       \* calls of the hook that may be under way at once
  Ttl,         \* cache_ttl_ms, in ticks
  MaxTime      \* bound on the clock

VARIABLES
  now,
  cached,      \* whether there is a cache, when its text was read, when it expires
  hook,        \* the step of each call, and the time it began
  served       \* the texts injected: when read, when the call began, and the order

vars == <<now, cached, hook, served>>

Nothing == [is |-> FALSE, read |-> 0, expires |-> 0]
Idle == [at |-> "idle", began |-> 0, read |-> 0]
NotServed == [read |-> 0, began |-> 0, newest |-> 0]

TypeOK ==
  /\ now \in 0..MaxTime
  /\ cached \in [is : BOOLEAN, read : 0..MaxTime, expires : 0..MaxTime + Ttl]
  /\ hook \in [Hooks -> [at : {"idle", "asks", "got", "failed"}, began : 0..MaxTime, read : 0..MaxTime]]
  /\ served \in [read : 0..MaxTime, began : 0..MaxTime, newest : 0..MaxTime]

Init ==
  /\ now = 0
  /\ cached = Nothing
  /\ hook = [h \in Hooks |-> Idle]
  /\ served = NotServed

Tick == now < MaxTime /\ now' = now + 1 /\ UNCHANGED <<cached, hook, served>>

Serve(read, began) ==
  served' = [read |-> read, began |-> began,
             newest |-> IF read > served.newest THEN read ELSE served.newest]

(* system.transform: a cache that has not expired is injected, *)
Cached(h) ==
  /\ hook[h] = Idle /\ cached.is /\ cached.expires > now
  /\ Serve(cached.read, now)
  /\ UNCHANGED <<now, cached, hook>>

(* or the server is started and asked, unless use_mcp is off; *)
Ask(h) ==
  /\ hook[h] = Idle /\ ~(cached.is /\ cached.expires > now)
  /\ \E at \in {"asks", "failed"} : hook' = [hook EXCEPT ![h] = [Idle EXCEPT !.at = at, !.began = now]]
  /\ UNCHANGED <<now, cached, served>>

(* it reads the memories and answers, *)
Answer(h) ==
  /\ hook[h].at = "asks"
  /\ hook' = [hook EXCEPT ![h] = [@ EXCEPT !.at = "got", !.read = now]]
  /\ UNCHANGED <<now, cached, served>>

(* or is not found, fails, or does not answer in five seconds. *)
Fail(h) ==
  /\ hook[h].at \in {"asks", "got"}
  /\ hook' = [hook EXCEPT ![h].at = "failed"]
  /\ UNCHANGED <<now, cached, served>>

(* The time to live begins with the call. *)
Expires(began) == began + Ttl

(* The text, read now from the database if the server gave none, is cached   *)
(* over whatever another call has cached meanwhile, and injected.            *)
Store(h) ==
  /\ hook[h].at \in {"got", "failed"}
  /\ LET read == IF hook[h].at = "got" THEN hook[h].read ELSE now
     IN  /\ cached' = [is |-> TRUE, read |-> read, expires |-> Expires(hook[h].began)]
         /\ Serve(read, hook[h].began)
  /\ hook' = [hook EXCEPT ![h] = Idle]
  /\ UNCHANGED now

Next ==
  \/ Tick
  \/ \E h \in Hooks : Cached(h) \/ Ask(h) \/ Answer(h) \/ Fail(h) \/ Store(h)

Spec == Init /\ [][Next]_vars

-----------------------------------------------------------------------------
(* However calls overlap, and however long a server takes, no call is given a *)
(* text that was read the time to live or more before it began.               *)
FreshEnough == served.began < served.read + Ttl

(* No call is given a text older than one given before. *)
NeverGoesBack == served.read = served.newest
=============================================================================
