--------------------------- MODULE ServerLifecycle ---------------------------
(* The end of the stdio server: main of index.ts with the triggers, the        *)
(* sequence and the ceiling of mcp/server-lifecycle.ts and the idle timer of   *)
(* mcp/idle-timer.ts, beside tool calls under way.                             *)

EXTENDS Naturals

CONSTANTS MaxCalls      \* bound on the calls a client makes

Reasons == {"stdio_end", "stdio_close", "SIGINT", "SIGTERM", "stdio_idle_timeout"}
External == Reasons \ {"stdio_idle_timeout"}

VARIABLES
  exit,        \* "no", or how the process ended
  pending,     \* pendingTrigger: a microtask is queued, with the first reason
  sequence,    \* runShutdown: not begun, or closing transport and server
  reason,      \* what began it
  transport, store,      \* open or not
  calls,       \* tool calls under way, as the tracker counts them
  made         \* calls made so far

vars == <<exit, pending, sequence, reason, transport, store, calls, made>>

TypeOK ==
  /\ exit \in {"no", "orderly", "failed"}
  /\ pending \in Reasons \cup {"none"}
  /\ sequence \in {"none", "closing"}
  /\ reason \in Reasons \cup {"none"}
  /\ transport \in BOOLEAN /\ store \in BOOLEAN
  /\ calls \in 0..MaxCalls /\ made \in 0..MaxCalls

Init ==
  /\ exit = "no"
  /\ pending = "none" /\ sequence = "none" /\ reason = "none"
  /\ transport = TRUE /\ store = TRUE
  /\ calls = 0 /\ made = 0

Running == exit = "no"
(* A queued microtask runs before any other callback of the event loop. *)
Idle == Running /\ pending = "none"

(* The wrapper of every tool: the tracker counts it in and, whatever the     *)
(* handler does, out again. Handlers may wait for progress notifications.    *)
CallStarts ==
  /\ Idle /\ transport /\ made < MaxCalls
  /\ calls' = calls + 1 /\ made' = made + 1
  /\ UNCHANGED <<exit, pending, sequence, reason, transport, store>>

CallEnds ==
  /\ Idle /\ calls > 0
  /\ calls' = calls - 1
  /\ UNCHANGED <<exit, pending, sequence, reason, transport, store, made>>

(* runShutdown up to its first await: the transport has stopped reading. *)
Begin(why) ==
  /\ sequence' = "closing"
  /\ reason' = why
  /\ transport' = FALSE

(* triggerExternal: triggers of one tick are taken together; one that comes  *)
(* while the sequence runs ends the process at once.                         *)
Trigger(why) ==
  /\ Running
  /\ IF sequence # "none" THEN exit' = "failed" /\ UNCHANGED pending
                          ELSE pending' = (IF pending = "none" THEN why ELSE pending)
                               /\ UNCHANGED exit
  /\ UNCHANGED <<sequence, reason, transport, store, calls, made>>

Microtask ==
  /\ Running /\ pending # "none"
  /\ Begin(pending)
  /\ pending' = "none"
  /\ UNCHANGED <<exit, store, calls, made>>

(* With a call under way the timer is set again; otherwise it calls shutdown,*)
(* which returns the promise there is when a sequence has begun.             *)
IdleTimer ==
  /\ Idle
  /\ IF calls = 0 /\ sequence = "none" THEN Begin("stdio_idle_timeout")
                                       ELSE UNCHANGED <<sequence, reason, transport>>
  /\ UNCHANGED <<exit, pending, store, calls, made>>

(* Transport and server have closed; the store is closed next, without a wait.*)
Closes ==
  /\ Idle /\ sequence = "closing"
  /\ store' = FALSE
  /\ exit' = "orderly"
  /\ UNCHANGED <<pending, sequence, reason, transport, calls, made>>

(* transport.close, server.close or store.close throws. *)
CloseFails ==
  /\ Idle /\ sequence = "closing"
  /\ exit' = "failed"
  /\ store' \in {store, FALSE}
  /\ UNCHANGED <<pending, sequence, reason, transport, calls, made>>

(* Mutant: the race has no second runner. *)
CeilingNever == FALSE /\ UNCHANGED vars

(* 1500 ms after the sequence began. *)
Ceiling ==
  /\ Idle /\ sequence = "closing"
  /\ exit' = "failed"
  /\ UNCHANGED <<pending, sequence, reason, transport, store, calls, made>>

Ended == ~Running /\ UNCHANGED vars

Next ==
  \/ CallStarts \/ CallEnds
  \/ \E why \in External : Trigger(why)
  \/ Microtask \/ IdleTimer \/ Closes \/ CloseFails \/ Ceiling
  \/ Ended

(* The event loop runs its microtasks and its timer. That a close settles is *)
(* not assumed: the ceiling is there because it may not.                     *)
Fairness == WF_vars(Microtask) /\ WF_vars(Ceiling)

Spec == Init /\ [][Next]_vars /\ Fairness

-----------------------------------------------------------------------------
(* An exit with code 0 has closed transport and store, and one for idleness  *)
(* has cut no call off.                                                      *)
OrderlyExit ==
  exit = "orderly" =>
    /\ ~transport /\ ~store
    /\ reason = "stdio_idle_timeout" => calls = 0

(* Once anything has triggered the end, the process ends, whether or not the *)
(* closes settle.                                                            *)
EndsInTheEnd == (pending # "none" \/ sequence # "none") ~> ~Running
=============================================================================
