----------------------------- MODULE DaemonLock -----------------------------
(* The lock file of the HTTP daemon (mcp/daemon-lock.ts) and the launchers     *)
(* that read, reclaim, create and leave it (runHttpServer of launcher.ts).     *)
(* A launcher either joins the daemon the lock names and ends, or makes itself *)
(* the holder and listens. Every system call is a step, as launchers are       *)
(* separate processes. A token is made together with the lock by its process,  *)
(* so the process identifier stands for both.                                  *)

EXTENDS Naturals

CONSTANTS
  Launchers,     \* processes that may be started, again and again
  Pids,          \* process identifiers the system gives out
  Nobody,        \* no lock, no listener, no process
  MaxLosses,     \* bound on crashes, stops and reused identifiers of launchers
  MaxHangs       \* bound on probes a live daemon fails to answer in 500 ms

VARIABLES
  lock,          \* the file: Nobody, or whose it is and whether it is written
  phase,         \* where each launcher is
  pid,           \* its identifier while it runs
  saw,           \* the lock it read
  joined,        \* how it ended, when it joined
  listener,      \* the launcher that has bound the port
  losses, hangs

vars == <<lock, phase, pid, saw, joined, listener, losses, hangs>>

Lock == [pid : Pids, written : BOOLEAN]

Phases == {"off", "reading", "discarding", "checking", "probing", "removing",
           "creating", "writing", "binding", "serving", "releasing", "unlinking"}

TypeOK ==
  /\ lock \in Lock \cup {Nobody}
  /\ phase \in [Launchers -> Phases]
  /\ pid \in [Launchers -> Pids \cup {Nobody}]
  /\ saw \in [Launchers -> Lock \cup {Nobody}]
  /\ joined \in [Launchers -> Pids \cup {Nobody}]
  /\ listener \in Launchers \cup {Nobody}
  /\ losses \in 0..MaxLosses /\ hangs \in 0..MaxHangs

Alive(p) == \E l \in Launchers : pid[l] = p

Goto(l, step) == phase' = [phase EXCEPT ![l] = step]

(* A process is gone: whatever it held but the file. *)
Exit(l) ==
  /\ Goto(l, "off")
  /\ pid' = [pid EXCEPT ![l] = Nobody]
  /\ saw' = [saw EXCEPT ![l] = Nobody]
  /\ listener' = IF listener = l THEN Nobody ELSE listener

Init ==
  /\ lock \in {Nobody} \cup Lock       \* what an earlier daemon may have left
  /\ phase = [l \in Launchers |-> "off"]
  /\ pid = [l \in Launchers |-> Nobody]
  /\ saw = [l \in Launchers |-> Nobody]
  /\ joined = [l \in Launchers |-> Nobody]
  /\ listener = Nobody
  /\ losses = 0 /\ hangs = 0

Begin(l, p) ==
  /\ phase[l] = "off" /\ ~Alive(p)
  /\ pid' = [pid EXCEPT ![l] = p]
  /\ Goto(l, "reading")
  /\ joined' = [joined EXCEPT ![l] = Nobody]
  /\ UNCHANGED <<lock, saw, listener, hangs>>

(* The system gives the new process any free identifier; that of the lock    *)
(* left behind is one of them, though not for ever.                          *)
Left(p) == lock # Nobody /\ lock.pid = p

Start(l) == \E p \in Pids : ~Left(p) /\ Begin(l, p) /\ UNCHANGED losses

StartReused(l) ==
  \E p \in Pids : Left(p) /\ losses < MaxLosses /\ losses' = losses + 1 /\ Begin(l, p)

Join(l, p) ==
  /\ joined' = [joined EXCEPT ![l] = p]
  /\ Exit(l)

(* readLock; a file that is not complete JSON is removed. A lock under its   *)
(* own identifier is taken for its own, whoever left it: the launcher joins  *)
(* itself and ends.                                                          *)
ReadLock(l) ==
  /\ phase[l] = "reading"
  /\ \/ lock = Nobody /\ Goto(l, "creating") /\ UNCHANGED <<saw, pid, joined, listener>>
     \/ /\ lock # Nobody /\ ~lock.written
        /\ Goto(l, "discarding") /\ UNCHANGED <<saw, pid, joined, listener>>
     \/ /\ lock # Nobody /\ lock.written /\ lock.pid = pid[l]
        /\ Join(l, lock.pid)
     \/ /\ lock # Nobody /\ lock.written /\ lock.pid # pid[l]
        /\ saw' = [saw EXCEPT ![l] = lock]
        /\ Goto(l, "checking") /\ UNCHANGED <<pid, joined, listener>>
  /\ UNCHANGED <<lock, losses, hangs>>

(* Mutant: a lock that cannot be read is only passed over. *)
DiscardNothing(l) ==
  /\ phase[l] = "discarding"
  /\ Goto(l, "creating")
  /\ UNCHANGED <<lock, pid, saw, joined, listener, losses, hangs>>

(* unlinkSync takes the name, whoever's file it is by now. *)
Discard(l) ==
  /\ phase[l] = "discarding"
  /\ lock' = Nobody
  /\ Goto(l, "creating")
  /\ UNCHANGED <<pid, saw, joined, listener, losses, hangs>>

PidAlive(l) ==
  /\ phase[l] = "checking"
  /\ Goto(l, IF Alive(saw[l].pid) THEN "probing" ELSE "removing")
  /\ UNCHANGED <<lock, pid, saw, joined, listener, losses, hangs>>

(* Any listener on the port answers, with 401 to a token that is not its own. *)
Answers(l) == listener # Nobody

Probe(l) ==
  /\ phase[l] = "probing"
  /\ \/ /\ Answers(l)
        /\ Join(l, saw[l].pid)
        /\ UNCHANGED hangs
     \/ /\ ~Answers(l)
        /\ Goto(l, "removing")
        /\ UNCHANGED <<pid, saw, joined, listener, hangs>>
     \/ /\ Answers(l) /\ hangs < MaxHangs
        /\ hangs' = hangs + 1
        /\ Goto(l, "removing")
        /\ UNCHANGED <<pid, saw, joined, listener>>
  /\ UNCHANGED <<lock, losses>>

Remove(l) ==
  /\ phase[l] = "removing"
  /\ lock' = Nobody
  /\ Goto(l, "creating")
  /\ UNCHANGED <<pid, saw, joined, listener, losses, hangs>>

(* openSync(path, "wx"): EEXIST is caught by no one and ends the launcher. *)
Create(l) ==
  /\ phase[l] = "creating"
  /\ \/ /\ lock = Nobody
        /\ lock' = [pid |-> pid[l], written |-> FALSE]
        /\ Goto(l, "writing") /\ UNCHANGED <<pid, saw, listener>>
     \/ lock # Nobody /\ Exit(l) /\ UNCHANGED lock
  /\ UNCHANGED <<joined, losses, hangs>>

(* The write goes to the file that was opened, under this name or no longer. *)
Write(l) ==
  /\ phase[l] = "writing"
  /\ lock' = IF lock # Nobody /\ lock.pid = pid[l] THEN [lock EXCEPT !.written = TRUE] ELSE lock
  /\ Goto(l, "binding")
  /\ UNCHANGED <<pid, saw, joined, listener, losses, hangs>>

(* A used port is an error event without a handler: the process ends and the *)
(* finally of runHttpServer does not run.                                    *)
Listen(l) ==
  /\ phase[l] = "binding"
  /\ \/ listener = Nobody /\ listener' = l /\ Goto(l, "serving") /\ UNCHANGED <<pid, saw>>
     \/ listener # Nobody /\ Exit(l)
  /\ UNCHANGED <<lock, joined, losses, hangs>>

(* A stop ends in process.exit, which leaves the lock; only when closing the *)
(* sessions throws does runHttpServer return to its finally.                 *)
Stop(l) ==
  /\ phase[l] = "serving" /\ losses < MaxLosses
  /\ losses' = losses + 1
  /\ \/ Exit(l)
     \/ listener' = Nobody /\ Goto(l, "releasing") /\ UNCHANGED <<pid, saw>>
  /\ UNCHANGED <<lock, joined, hangs>>

MayUnlink(l) == lock # Nobody /\ (lock.written => lock.pid = pid[l])

(* release: a second readLock, and the unlink when the lock was its own. *)
ReleaseRead(l) ==
  /\ phase[l] = "releasing"
  /\ \/ MayUnlink(l) /\ Goto(l, "unlinking") /\ UNCHANGED <<pid, saw, listener>>
     \/ ~MayUnlink(l) /\ Exit(l)
  /\ UNCHANGED <<lock, joined, losses, hangs>>

ReleaseUnlink(l) ==
  /\ phase[l] = "unlinking"
  /\ lock' = Nobody
  /\ Exit(l)
  /\ UNCHANGED <<joined, losses, hangs>>

Crash(l) ==
  /\ phase[l] # "off" /\ losses < MaxLosses
  /\ losses' = losses + 1
  /\ Exit(l)
  /\ UNCHANGED <<lock, joined, hangs>>

Run(l) ==
  \/ ReadLock(l) \/ Discard(l) \/ PidAlive(l) \/ Probe(l) \/ Remove(l)
  \/ Create(l) \/ Write(l) \/ Listen(l) \/ ReleaseRead(l) \/ ReleaseUnlink(l)

Next ==
  \E l \in Launchers : Start(l) \/ StartReused(l) \/ Run(l) \/ Stop(l) \/ Crash(l)

(* Launchers run; clients that want the daemon start one when none is there. *)
Fairness == \A l \in Launchers : WF_vars(Start(l)) /\ WF_vars(Run(l))

Spec == Init /\ [][Next]_vars /\ Fairness

-----------------------------------------------------------------------------
(* Whatever lock was left behind, and however launchers race for it, in the  *)
(* end one of them listens and goes on listening.                            *)
ServedInTheEnd == <>[](listener # Nobody)

(* A daemon that listens goes on, whatever becomes of its lock, until it is   *)
(* stopped or lost. And until a process is lost or an identifier given out    *)
(* again no launcher gives up for nothing: one that ends, having joined or    *)
(* found the lock or the port taken, leaves a daemon or another launcher that *)
(* is about to bind the port, though locks are discarded half written and     *)
(* removed from under their makers.                                           *)
Underway == listener # Nobody \/ \E l \in Launchers : phase[l] \in {"writing", "binding"}

PortKept ==
  listener # Nobody /\ listener' # listener =>
    listener' = Nobody /\ losses' = losses + 1 /\ phase[listener] = "serving"
GivesWay ==
  losses' = 0 /\ (\E l \in Launchers : phase[l] # "off" /\ phase'[l] = "off") => Underway'
DaemonStays == [][PortKept /\ GivesWay]_vars

(* The code does not keep this: a launcher that was given the identifier of  *)
(* a lock left behind joins itself.                                          *)
JoinsListening ==
  \A l \in Launchers : joined'[l] # joined[l] /\ joined'[l] # Nobody => listener # Nobody
JoinsAListener == [][JoinsListening]_vars
=============================================================================
