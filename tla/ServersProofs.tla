---------------------------- MODULE ServersProofs ----------------------------
(* What holds of the servers of Services for every value of its constants:    *)
(* the daemon and its launchers, the ends of the stdio server and of the HTTP *)
(* daemon, the bridge, the plugin, the operator capability, and the           *)
(* migrations of the file they open. Each section finds the inductive         *)
(* invariant of its part, with the lemmas it rests on; the theorems follow.   *)

EXTENDS Services, Sequences, SumTheorems, TLAPS

-----------------------------------------------------------------------------
(* The lock of the daemon and its launchers: DL in Services. *)

(* What the proof takes of the constants. *)
DaemonBounds == None \notin Pids /\ None \notin Launchers /\ MaxLosses \in Nat /\ MaxHangs \in Nat

(* A launcher that runs has an identifier; one that checks or probes read a    *)
(* lock.                                                                       *)
DaemonLauncherOK(l) ==
  /\ phase[l] # "off" => pid[l] \in Pids
  /\ phase[l] \in {"checking", "probing"} => saw[l] \in DL!Lock

(* No two launchers have one identifier, and what listens serves. *)
DaemonDistinct == \A l, k \in Launchers : pid[l] = pid[k] /\ pid[l] # None => l = k
DaemonListens == listener # None => phase[listener] = "serving"

(* The inductive invariant. *)
DaemonInv == DL!TypeOK /\ DaemonDistinct /\ DaemonListens /\ \A l \in Launchers : DaemonLauncherOK(l)

(* The types of the variables, one by one. *)
LEMMA DaemonTypesOf ==
  ASSUME DL!TypeOK
  PROVE  /\ phase \in [Launchers -> DL!Phases] /\ pid \in [Launchers -> Pids \cup {None}]
         /\ saw \in [Launchers -> DL!Lock \cup {None}] /\ joined \in [Launchers -> Pids \cup {None}]
         /\ lock \in DL!Lock \cup {None} /\ listener \in Launchers \cup {None}
BY DEF DL!TypeOK

(* A lock names a process, also once it is written. *)
LEMMA DaemonLockType ==
  /\ \A k \in DL!Lock : k.pid \in Pids
  /\ \A p \in Pids, w \in BOOLEAN : [pid |-> p, written |-> w] \in DL!Lock
  /\ \A k \in DL!Lock : [k EXCEPT !.written = TRUE] \in DL!Lock /\ [k EXCEPT !.written = TRUE].pid = k.pid
<1>1. \A k \in DL!Lock : k.pid \in Pids
  BY DEF DL!Lock
<1>2. \A p \in Pids, w \in BOOLEAN : [pid |-> p, written |-> w] \in DL!Lock
  BY Zenon DEF DL!Lock
<1>3. ASSUME NEW k \in DL!Lock PROVE [k EXCEPT !.written = TRUE] \in DL!Lock /\ [k EXCEPT !.written = TRUE].pid = k.pid
  <2> PICK n : n = [k EXCEPT !.written = TRUE]
    OBVIOUS
  <2>1. n = [pid |-> k.pid, written |-> TRUE]
    BY DEF DL!Lock
  <2>2. n \in DL!Lock
    BY <1>1, <1>2, <2>1
  <2>3. n.pid = k.pid
    BY <2>1
  <2> QED BY <2>2, <2>3
<1> QED BY <1>1, <1>2, <1>3

(* It holds at first. *)
LEMMA DaemonTypeInit == ASSUME DaemonBounds PROVE DL!Init => DaemonInv
<1> SUFFICES ASSUME DL!Init PROVE DaemonInv
  OBVIOUS
<1>1. DL!TypeOK
  BY DEF DL!Init, DL!TypeOK, DL!Phases, DaemonBounds
<1>2. DaemonDistinct /\ DaemonListens /\ \A l \in Launchers : DaemonLauncherOK(l)
  BY DEF DL!Init, DaemonDistinct, DaemonListens, DaemonLauncherOK
<1> QED BY <1>1, <1>2 DEF DaemonInv

(* A step of a launcher that is not the one it starts with. *)
LEMMA DaemonMove ==
  ASSUME DaemonBounds, DaemonInv, NEW l \in Launchers, NEW s \in DL!Phases, phase[l] # "off",
         DL!Goto(l, s), pid' \in [Launchers -> Pids \cup {None}], saw' \in [Launchers -> DL!Lock \cup {None}],
         joined' \in [Launchers -> Pids \cup {None}], lock' \in DL!Lock \cup {None},
         losses' \in 0..MaxLosses, hangs' \in 0..MaxHangs,
         \/ listener' = listener /\ (listener = None \/ listener # l)
         \/ listener' = None
         \/ listener' = l /\ s = "serving",
         \A k \in Launchers : k # l => pid'[k] = pid[k] /\ saw'[k] = saw[k],
         pid'[l] = pid[l] \/ (s = "off" /\ pid'[l] = None),
         s \in {"checking", "probing"} => saw'[l] \in DL!Lock
  PROVE  DaemonInv'
<1>0. /\ phase \in [Launchers -> DL!Phases] /\ pid[l] # None /\ listener \in Launchers \cup {None}
      /\ DaemonDistinct /\ DaemonListens /\ \A k \in Launchers : DaemonLauncherOK(k)
  BY DaemonTypesOf DEF DaemonInv, DaemonLauncherOK, DaemonBounds
<1>1. phase' \in [Launchers -> DL!Phases] /\ \A k \in Launchers : phase'[k] = IF k = l THEN s ELSE phase[k]
  BY <1>0 DEF DL!Goto
<1>2. DL!TypeOK'
  <2>1. listener' \in Launchers \cup {None}
    BY <1>0
  <2> QED BY <1>1, <2>1 DEF DL!TypeOK
<1>3. DaemonDistinct'
  BY <1>0 DEF DaemonDistinct
<1>4. DaemonListens'
  BY <1>0, <1>1 DEF DaemonListens
<1>5. ASSUME NEW k \in Launchers PROVE DaemonLauncherOK(k)'
  <2>1. CASE k = l
    BY <1>0, <1>1, <2>1 DEF DaemonLauncherOK
  <2>2. CASE k # l
    <3>1. phase'[k] = phase[k] /\ pid'[k] = pid[k] /\ saw'[k] = saw[k] /\ DaemonLauncherOK(k)
      BY <1>0, <1>1, <2>2
    <3> QED BY <3>1 DEF DaemonLauncherOK
  <2> QED BY <2>1, <2>2
<1> QED BY <1>2, <1>3, <1>4, <1>5 DEF DaemonInv

(* Who does not serve does not listen. *)
LEMMA DaemonNotListening ==
  ASSUME DaemonInv, NEW l \in Launchers, phase[l] # "serving" PROVE listener = None \/ listener # l
BY DEF DaemonInv, DaemonListens

(* ... that leaves lock, identifiers and what was read alone. *)
LEMMA DaemonGoes ==
  ASSUME DaemonBounds, DaemonInv, NEW l \in Launchers, NEW s \in DL!Phases, phase[l] # "off", phase[l] # "serving",
         DL!Goto(l, s), UNCHANGED <<pid, saw, joined, losses>>, lock' \in {lock, None},
         listener' = listener \/ (listener = None /\ listener' = l /\ s = "serving"), hangs' \in 0..MaxHangs,
         s \in {"checking", "probing"} => saw[l] \in DL!Lock
  PROVE  DaemonInv' /\ DL!PortKept
<1>1. listener = None \/ listener # l
  BY DaemonNotListening
<1>2. DaemonInv'
  BY <1>1, DaemonMove, DaemonTypesOf DEF DaemonInv, DL!TypeOK
<1> QED BY <1>2 DEF DL!PortKept

(* A launcher that exits leaves the others alone; only the loss of the one    *)
(* that listens frees the port.                                               *)
LEMMA DaemonLeaves ==
  ASSUME DaemonBounds, DaemonInv, NEW l \in Launchers, phase[l] # "off", DL!Exit(l),
         joined' \in [Launchers -> Pids \cup {None}], lock' \in {lock, None},
         losses' \in 0..MaxLosses, hangs' \in 0..MaxHangs,
         phase[l] = "serving" => losses' = losses + 1
  PROVE  DaemonInv' /\ DL!PortKept
<1>0. /\ pid \in [Launchers -> Pids \cup {None}] /\ saw \in [Launchers -> DL!Lock \cup {None}]
      /\ lock \in DL!Lock \cup {None} /\ listener \in Launchers \cup {None}
  BY DaemonTypesOf DEF DaemonInv
<1>1. /\ pid' \in [Launchers -> Pids \cup {None}] /\ saw' \in [Launchers -> DL!Lock \cup {None}]
      /\ \A k \in Launchers : k # l => pid'[k] = pid[k] /\ saw'[k] = saw[k]
      /\ pid'[l] = None
      /\ listener' = IF listener = l THEN None ELSE listener
  BY <1>0 DEF DL!Exit
<1>2. DL!Goto(l, "off") /\ "off" \in DL!Phases
  BY DEF DL!Exit, DL!Phases
<1>3. DaemonInv'
  BY <1>0, <1>1, <1>2, DaemonMove
<1>4. DL!PortKept
  BY <1>1, DaemonNotListening DEF DL!PortKept
<1> QED BY <1>3, <1>4

(* A launcher starts, with whatever free identifier. *)
LEMMA DaemonStartKeeps ==
  ASSUME DaemonBounds, DaemonInv, NEW l \in Launchers, DL!Start(l) \/ DL!StartReused(l)
  PROVE  DaemonInv' /\ DL!PortKept
<1>0. /\ phase \in [Launchers -> DL!Phases] /\ pid \in [Launchers -> Pids \cup {None}]
      /\ joined \in [Launchers -> Pids \cup {None}] /\ DL!TypeOK
  BY DaemonTypesOf DEF DaemonInv
<1>1. PICK p \in Pids : DL!Begin(l, p) /\ losses' \in 0..MaxLosses
  BY <1>0 DEF DL!Start, DL!StartReused, DL!TypeOK, DaemonBounds
<1>2. /\ phase[l] = "off" /\ phase' = [phase EXCEPT ![l] = "reading"] /\ joined' = [joined EXCEPT ![l] = None]
      /\ pid' = [pid EXCEPT ![l] = p] /\ ~DL!Alive(p) /\ UNCHANGED <<lock, saw, listener, hangs>>
  BY <1>1 DEF DL!Begin, DL!Goto
<1>3. phase' \in [Launchers -> DL!Phases] /\ \A k \in Launchers : phase'[k] = IF k = l THEN "reading" ELSE phase[k]
  BY <1>0, <1>2 DEF DL!Phases
<1>4. pid' \in [Launchers -> Pids \cup {None}] /\ \A k \in Launchers : pid'[k] = IF k = l THEN p ELSE pid[k]
  BY <1>0, <1>2
<1>5. joined' \in [Launchers -> Pids \cup {None}]
  BY <1>0, <1>2
<1>6. DL!TypeOK'
  BY <1>0, <1>1, <1>2, <1>3, <1>4, <1>5 DEF DL!TypeOK
<1>7. DaemonDistinct'
  BY <1>2, <1>4 DEF DaemonInv, DaemonDistinct, DL!Alive
<1>8. \A k \in Launchers : DaemonLauncherOK(k)'
  BY <1>2, <1>3, <1>4 DEF DaemonInv, DaemonLauncherOK
<1>9. DaemonListens'
  BY <1>0, <1>2, <1>3 DEF DaemonInv, DaemonListens, DL!TypeOK
<1> QED BY <1>2, <1>6, <1>7, <1>8, <1>9 DEF DaemonInv, DL!PortKept

(* A launcher reads the lock, checks its owner, removes what is left over. *)
LEMMA DaemonReadsKeep ==
  ASSUME DaemonBounds, DaemonInv, NEW l \in Launchers, DL!ReadLock(l) \/ DL!Discard(l) \/ DL!PidAlive(l) \/ DL!Remove(l)
  PROVE  DaemonInv' /\ DL!PortKept
<1>0. phase[l] # "off" /\ phase[l] # "serving" /\ DaemonLauncherOK(l) /\ lock \in DL!Lock \cup {None} /\ listener \in Launchers \cup {None}
      /\ saw \in [Launchers -> DL!Lock \cup {None}] /\ hangs \in 0..MaxHangs /\ losses \in 0..MaxLosses
  BY DEF DL!ReadLock, DL!Discard, DL!PidAlive, DL!Remove, DaemonInv, DL!TypeOK
<1>1. CASE DL!ReadLock(l)
  <2>0. phase[l] = "reading" /\ UNCHANGED <<lock, losses, hangs>>
    BY <1>1 DEF DL!ReadLock
  <2>1. CASE (DL!Goto(l, "creating") \/ DL!Goto(l, "discarding")) /\ UNCHANGED <<saw, pid, joined, listener>>
    BY <1>0, <2>0, <2>1, DaemonGoes DEF DL!Phases
  <2>2. CASE lock # None /\ lock.written /\ lock.pid # pid[l] /\ saw' = [saw EXCEPT ![l] = lock]
             /\ DL!Goto(l, "checking") /\ UNCHANGED <<pid, joined, listener>>
    <3>1. saw' \in [Launchers -> DL!Lock \cup {None}] /\ saw'[l] \in DL!Lock
          /\ \A k \in Launchers : k # l => saw'[k] = saw[k]
      BY <1>0, <2>2
    <3>2. DaemonInv'
      <4>1. (listener = None \/ listener # l) /\ "checking" \in DL!Phases /\ joined \in [Launchers -> Pids \cup {None}]
            /\ pid \in [Launchers -> Pids \cup {None}]
        BY <1>0, DaemonNotListening, DaemonTypesOf DEF DaemonInv, DL!Phases
      <4> QED BY <1>0, <2>0, <2>2, <3>1, <4>1, DaemonMove
    <3> QED BY <2>2, <3>2 DEF DL!PortKept
  <2>3. CASE lock # None /\ DL!Join(l, lock.pid)
    <3>1. joined' = [joined EXCEPT ![l] = lock.pid] /\ DL!Exit(l) /\ lock.pid \in Pids
      BY <1>0, <2>3, DaemonLockType DEF DL!Join
    <3>2. joined' \in [Launchers -> Pids \cup {None}]
      BY <3>1, DaemonTypesOf DEF DaemonInv
    <3> QED BY <1>0, <2>0, <3>1, <3>2, DaemonLeaves
  <2> QED BY <1>1, <2>1, <2>2, <2>3 DEF DL!ReadLock
<1>2. CASE DL!Discard(l) \/ DL!Remove(l)
  <2>1. DL!Goto(l, "creating") /\ lock' = None /\ UNCHANGED <<pid, saw, joined, listener, losses, hangs>>
    BY <1>2 DEF DL!Discard, DL!Remove
  <2> QED BY <1>0, <2>1, DaemonGoes DEF DL!Phases
<1>3. CASE DL!PidAlive(l)
  <2>1. (DL!Goto(l, "probing") \/ DL!Goto(l, "removing")) /\ UNCHANGED <<lock, pid, saw, joined, listener, losses, hangs>>
        /\ saw[l] \in DL!Lock
    BY <1>0, <1>3 DEF DL!PidAlive, DaemonLauncherOK
  <2> QED BY <1>0, <2>1, DaemonGoes DEF DL!Phases
<1> QED BY <1>1, <1>2, <1>3

(* A launcher probes the owner, and joins it if it listens. *)
LEMMA DaemonProbeKeeps ==
  ASSUME DaemonBounds, DaemonInv, NEW l \in Launchers, DL!Probe(l) PROVE DaemonInv' /\ DL!PortKept
<1>0. phase[l] # "off" /\ phase[l] # "serving" /\ saw[l] \in DL!Lock /\ saw[l].pid \in Pids /\ listener \in Launchers \cup {None}
      /\ hangs \in 0..MaxHangs /\ losses \in 0..MaxLosses /\ joined \in [Launchers -> Pids \cup {None}]
      /\ UNCHANGED <<lock, losses>>
  BY DaemonLockType DEF DL!Probe, DaemonInv, DL!TypeOK, DaemonLauncherOK
<1>1. CASE DL!Answers(l) /\ DL!Join(l, saw[l].pid) /\ UNCHANGED hangs
  <2>1. joined' = [joined EXCEPT ![l] = saw[l].pid] /\ DL!Exit(l)
    BY <1>1 DEF DL!Join
  <2>2. joined' \in [Launchers -> Pids \cup {None}]
    BY <1>0, <2>1
  <2> QED BY <1>0, <1>1, <2>1, <2>2, DaemonLeaves
<1>2. CASE DL!Goto(l, "removing") /\ UNCHANGED <<pid, saw, joined, listener>> /\ hangs' \in 0..MaxHangs
  BY <1>0, <1>2, DaemonGoes DEF DL!Phases
<1>3. hangs < MaxHangs => hangs + 1 \in 0..MaxHangs
  BY <1>0 DEF DaemonBounds
<1> QED BY <1>0, <1>1, <1>2, <1>3 DEF DL!Probe

(* A launcher makes the lock, writes it and listens. *)
LEMMA DaemonHoldsKeep ==
  ASSUME DaemonBounds, DaemonInv, NEW l \in Launchers, DL!Create(l) \/ DL!Write(l) \/ DL!Listen(l) PROVE DaemonInv' /\ DL!PortKept
<1>0. /\ phase[l] # "off" /\ phase[l] # "serving" /\ pid[l] \in Pids /\ listener \in Launchers \cup {None} /\ UNCHANGED <<joined, losses, hangs>>
      /\ hangs \in 0..MaxHangs /\ losses \in 0..MaxLosses /\ joined \in [Launchers -> Pids \cup {None}]
      /\ lock \in DL!Lock \cup {None}
  BY DEF DL!Create, DL!Write, DL!Listen, DaemonInv, DL!TypeOK, DaemonLauncherOK
<1>1. CASE DL!Exit(l) /\ UNCHANGED lock
  BY <1>0, <1>1, DaemonLeaves
<1>2. CASE DL!Create(l) /\ lock' = [pid |-> pid[l], written |-> FALSE] /\ DL!Goto(l, "writing") /\ UNCHANGED <<pid, saw, listener>>
  <2>1. lock' \in DL!Lock /\ lock'.pid = pid[l]
    BY <1>0, <1>2, DaemonLockType
  <2>2. DaemonInv'
    BY <1>0, <1>2, <2>1, DaemonMove, DaemonNotListening, DaemonTypesOf DEF DaemonInv, DL!Phases
  <2> QED BY <1>2, <2>2 DEF DL!PortKept
<1>3. CASE DL!Write(l)
  <2>1. DL!Goto(l, "binding") /\ UNCHANGED <<pid, saw, listener>>
        /\ (lock' = lock \/ (lock # None /\ lock' = [lock EXCEPT !.written = TRUE]))
    BY <1>3 DEF DL!Write
  <2>2. lock' \in DL!Lock \cup {None} /\ (lock' # None => lock # None /\ lock'.pid = lock.pid)
    BY <1>0, <2>1, DaemonLockType
  <2>3. DaemonInv'
    BY <1>0, <2>1, <2>2, DaemonMove, DaemonNotListening, DaemonTypesOf DEF DaemonInv, DL!Phases
  <2> QED BY <2>1, <2>3 DEF DL!PortKept
<1>4. CASE listener = None /\ listener' = l /\ DL!Goto(l, "serving") /\ UNCHANGED <<pid, saw, lock>>
  BY <1>0, <1>4, DaemonGoes DEF DL!Phases
<1> QED BY <1>1, <1>2, <1>3, <1>4 DEF DL!Create, DL!Listen

(* A daemon stops, gives its lock back or dies. *)
LEMMA DaemonEndsKeep ==
  ASSUME DaemonBounds, DaemonInv, NEW l \in Launchers, DL!Stop(l) \/ DL!ReleaseRead(l) \/ DL!ReleaseUnlink(l) \/ DL!Crash(l)
  PROVE  DaemonInv' /\ DL!PortKept
<1>0. /\ phase[l] # "off" /\ listener \in Launchers \cup {None} /\ UNCHANGED <<joined, hangs>> /\ lock' \in {lock, None}
      /\ hangs \in 0..MaxHangs /\ losses' \in 0..MaxLosses /\ joined \in [Launchers -> Pids \cup {None}]
      /\ lock \in DL!Lock \cup {None}
  BY DEF DL!Stop, DL!ReleaseRead, DL!ReleaseUnlink, DL!Crash, DaemonInv, DL!TypeOK, DaemonBounds
<1>1. CASE DL!Exit(l)
  <2>1. phase[l] = "serving" => losses' = losses + 1
    BY DEF DL!Stop, DL!ReleaseRead, DL!ReleaseUnlink, DL!Crash
  <2> QED BY <1>0, <1>1, <2>1, DaemonLeaves
<1>2. CASE DL!Goto(l, "releasing") /\ UNCHANGED <<pid, saw>> /\ listener' = None /\ losses' = losses + 1
  <2>1. DaemonInv'
    BY <1>0, <1>2, DaemonMove, DaemonTypesOf DEF DaemonInv, DL!Phases
  <2> QED BY <1>2, <2>1 DEF DL!PortKept, DaemonInv, DaemonListens
<1>3. CASE DL!Goto(l, "unlinking") /\ UNCHANGED <<pid, saw, listener>> /\ phase[l] = "releasing"
  <2>1. DaemonInv'
    BY <1>0, <1>3, DaemonMove, DaemonNotListening, DaemonTypesOf DEF DaemonInv, DL!Phases
  <2> QED BY <1>3, <2>1 DEF DL!PortKept
<1> QED BY <1>1, <1>2, <1>3 DEF DL!Stop, DL!ReleaseRead, DL!ReleaseUnlink, DL!Crash

(* So every step keeps the invariant. *)
LEMMA DaemonNextKeeps == ASSUME DaemonBounds, DaemonInv, [DL!Next]_(DL!vars) PROVE DaemonInv' /\ DL!PortKept
<1>1. ASSUME NEW l \in Launchers, DL!Start(l) \/ DL!StartReused(l) PROVE DaemonInv' /\ DL!PortKept
  BY <1>1, DaemonStartKeeps
<1>2. ASSUME NEW l \in Launchers, DL!Run(l) PROVE DaemonInv' /\ DL!PortKept
  BY <1>2, DaemonReadsKeep, DaemonProbeKeeps, DaemonHoldsKeep, DaemonEndsKeep DEF DL!Run
<1>3. ASSUME NEW l \in Launchers, DL!Stop(l) \/ DL!Crash(l) PROVE DaemonInv' /\ DL!PortKept
  BY <1>3, DaemonEndsKeep
<1>4. CASE UNCHANGED DL!vars
  <2>1. DL!TypeOK' /\ DaemonDistinct' /\ DaemonListens'
    BY <1>4 DEF DL!vars, DaemonInv, DL!TypeOK, DaemonDistinct, DaemonListens
  <2>2. \A k \in Launchers : DaemonLauncherOK(k)'
    BY <1>4 DEF DL!vars, DaemonInv, DaemonLauncherOK
  <2> QED BY <1>4, <2>1, <2>2 DEF DL!vars, DaemonInv, DL!PortKept
<1> QED BY <1>1, <1>2, <1>3, <1>4 DEF DL!Next

(* While nothing was lost: nobody releases a lock, the lock that is there was *)
(* not made by who is about to read it, and where it comes before another     *)
(* that was to be created its maker is under way to the port, or was too late *)
(* for it.                                                                    *)
DaemonFresh(l) ==
  /\ phase[l] \notin {"releasing", "unlinking"}
  /\ phase[l] = "reading" /\ lock # None => lock.pid # pid[l]
  /\ phase[l] = "creating" /\ lock # None => DL!Underway
DaemonRace == losses = 0 => \A l \in Launchers : DaemonFresh(l)

(* Before a loss launchers start and run, and nothing else.                   *)
LEMMA DaemonLossless ==
  ASSUME DaemonBounds, DaemonInv, DL!Next, losses' = 0
  PROVE  losses = 0 /\ \E l \in Launchers : DL!Start(l) \/ DL!Run(l)
<1>0. losses \in Nat
  BY DEF DaemonInv, DL!TypeOK
<1>1. PICK l \in Launchers : DL!Start(l) \/ DL!StartReused(l) \/ DL!Run(l) \/ DL!Stop(l) \/ DL!Crash(l)
  BY DEF DL!Next
<1>2. ~DL!StartReused(l) /\ ~DL!Stop(l) /\ ~DL!Crash(l)
  BY <1>0 DEF DL!StartReused, DL!Stop, DL!Crash
<1>3. losses' = losses
  BY <1>1, <1>2 DEF DL!Start, DL!Run, DL!ReadLock, DL!Discard, DL!PidAlive, DL!Probe, DL!Remove, DL!Create,
     DL!Write, DL!Listen, DL!ReleaseRead, DL!ReleaseUnlink
<1> QED BY <1>1, <1>2, <1>3

(* What a launcher does leaves the phases and identifiers of others alone;    *)
(* it goes on to bind the port, and binds it unless it is taken.              *)
LEMMA DaemonOthers ==
  ASSUME DaemonInv, NEW l \in Launchers, DL!Start(l) \/ DL!Run(l)
  PROVE  /\ \A k \in Launchers : k # l => phase'[k] = phase[k] /\ pid'[k] = pid[k]
         /\ phase[l] = "writing" => phase'[l] = "binding"
         /\ phase[l] = "binding" => listener # None \/ listener' = l
<1>0. phase \in [Launchers -> DL!Phases] /\ pid \in [Launchers -> Pids \cup {None}]
  BY DaemonTypesOf DEF DaemonInv
<1>1. CASE DL!Start(l)
  BY <1>0, <1>1 DEF DL!Start, DL!Begin, DL!Goto
<1>2. CASE DL!Run(l)
  <2>1. (pid' = pid \/ pid' = [pid EXCEPT ![l] = None]) /\ \E s \in DL!Phases : phase' = [phase EXCEPT ![l] = s]
    BY <1>2 DEF DL!Run, DL!ReadLock, DL!Discard, DL!PidAlive, DL!Probe, DL!Remove, DL!Create, DL!Write, DL!Listen,
       DL!ReleaseRead, DL!ReleaseUnlink, DL!Join, DL!Exit, DL!Goto, DL!Phases
  <2>2. phase[l] = "writing" => DL!Write(l)
    BY <1>2 DEF DL!Run, DL!ReadLock, DL!Discard, DL!PidAlive, DL!Probe, DL!Remove, DL!Create, DL!Listen,
       DL!ReleaseRead, DL!ReleaseUnlink
  <2>3. phase[l] = "binding" => DL!Listen(l)
    BY <1>2 DEF DL!Run, DL!ReadLock, DL!Discard, DL!PidAlive, DL!Probe, DL!Remove, DL!Create, DL!Write,
       DL!ReleaseRead, DL!ReleaseUnlink
  <2> QED BY <1>0, <2>1, <2>2, <2>3 DEF DL!Write, DL!Listen, DL!Goto
<1> QED BY <1>1, <1>2

(* Who is under way to the port, or listens, stays so or is followed by one   *)
(* that does.                                                                 *)
LEMMA DaemonUnderway ==
  ASSUME DaemonBounds, DaemonInv, NEW l \in Launchers, DL!Start(l) \/ DL!Run(l), losses = 0, losses' = 0,
         DL!PortKept, DL!Underway
  PROVE  DL!Underway'
<1>1. CASE listener # None
  BY <1>1 DEF DL!PortKept, DL!Underway
<1>2. CASE listener = None
  <2>1. PICK k \in Launchers : phase[k] \in {"writing", "binding"}
    BY <1>2 DEF DL!Underway
  <2>2. (k # l => phase'[k] = phase[k]) /\ (k = l => phase'[k] = "binding" \/ listener' = l)
    BY <1>2, <2>1, DaemonOthers
  <2> QED BY <2>1, <2>2 DEF DL!Underway, DaemonBounds
<1> QED BY <1>1, <1>2

(* A launcher that ends before anything was lost.                             *)
LEMMA DaemonGivesWay ==
  ASSUME DaemonBounds, DaemonInv, NEW l \in Launchers, DaemonFresh(l), DL!Start(l) \/ DL!Run(l), losses = 0, losses' = 0,
         DL!PortKept, phase[l] # "off", phase'[l] = "off"
  PROVE  DL!Underway'
<1>0. phase \in [Launchers -> DL!Phases]
  BY DaemonTypesOf DEF DaemonInv
<1>1. DL!ReadLock(l) \/ DL!Probe(l) \/ DL!Create(l) \/ DL!Listen(l)
  BY <1>0 DEF DaemonFresh, DL!Start, DL!Begin, DL!Run, DL!Discard, DL!PidAlive, DL!Remove, DL!Write, DL!Goto,
     DL!ReleaseRead, DL!ReleaseUnlink
<1>2. DL!Underway
  <2>1. CASE DL!ReadLock(l)
    BY <1>0, <2>1 DEF DL!ReadLock, DL!Goto, DaemonFresh
  <2>2. CASE DL!Probe(l)
    BY <1>0, <2>2 DEF DL!Probe, DL!Goto, DL!Answers, DL!Underway
  <2>3. CASE DL!Create(l)
    BY <1>0, <2>3 DEF DL!Create, DL!Goto, DaemonFresh
  <2>4. CASE DL!Listen(l)
    BY <2>4 DEF DL!Listen, DL!Underway
  <2> QED BY <1>1, <2>1, <2>2, <2>3, <2>4
<1> QED BY <1>2, DaemonUnderway

(* What becomes of the lock before anything was lost: it is removed, or its   *)
(* maker is under way.                                                        *)
LEMMA DaemonLockMade ==
  ASSUME DaemonInv, NEW l \in Launchers, DL!Start(l) \/ DL!Run(l)
  PROVE  \/ lock' = None
         \/ lock # None /\ lock'.pid = lock.pid
         \/ lock'.pid = pid[l] /\ pid[l] \in Pids /\ phase'[l] = "writing"
<1>0. lock \in DL!Lock \cup {None} /\ phase \in [Launchers -> DL!Phases] /\ DaemonLauncherOK(l)
  BY DaemonTypesOf DEF DaemonInv
<1>1. CASE DL!Create(l)
  <2>1. (lock' = [pid |-> pid[l], written |-> FALSE] /\ phase'[l] = "writing") \/ lock' = lock
    BY <1>0, <1>1 DEF DL!Create, DL!Goto
  <2>2. pid[l] \in Pids
    BY <1>0, <1>1 DEF DL!Create, DaemonLauncherOK
  <2> QED BY <2>1, <2>2, DaemonLockType
<1>2. CASE ~DL!Create(l)
  <2>1. lock' = None \/ lock' = lock \/ (lock # None /\ lock' = [lock EXCEPT !.written = TRUE])
    BY <1>2 DEF DL!Start, DL!Begin, DL!Run, DL!ReadLock, DL!Discard, DL!PidAlive, DL!Probe, DL!Remove, DL!Write,
       DL!Listen, DL!ReleaseRead, DL!ReleaseUnlink
  <2>2. lock # None /\ lock' = [lock EXCEPT !.written = TRUE] => lock'.pid = lock.pid
    BY <1>0, DaemonLockType
  <2> QED BY <2>1, <2>2
<1> QED BY <1>1, <1>2

(* So the race before the first loss keeps its shape.                         *)
LEMMA DaemonFreshStep ==
  ASSUME DaemonBounds, DaemonInv, NEW l \in Launchers, NEW k \in Launchers, DL!Start(l) \/ DL!Run(l),
         losses = 0, losses' = 0, DL!PortKept, DaemonFresh(k)
  PROVE  DaemonFresh(k)'
<1>0. phase \in [Launchers -> DL!Phases] /\ pid \in [Launchers -> Pids \cup {None}] /\ DaemonDistinct
      /\ DaemonLauncherOK(k) /\ DaemonLauncherOK(l)
  BY DaemonTypesOf DEF DaemonInv
<1>1. k # l => phase'[k] = phase[k] /\ pid'[k] = pid[k]
  BY DaemonOthers
<1>2. phase'[k] \notin {"releasing", "unlinking"}
  <2>1. CASE k = l
    BY <1>0, <2>1 DEF DaemonFresh, DL!Start, DL!Begin, DL!Run, DL!ReadLock, DL!Discard, DL!PidAlive, DL!Probe, DL!Remove,
       DL!Create, DL!Write, DL!Listen, DL!ReleaseRead, DL!ReleaseUnlink, DL!Join, DL!Exit, DL!Goto
  <2> QED BY <1>1, <2>1 DEF DaemonFresh
<1>3. ASSUME phase'[k] = "reading", lock' # None PROVE lock'.pid # pid'[k]
  <2>1. CASE k = l
    <3>1. DL!Start(l)
      BY <1>0, <1>3, <2>1 DEF DaemonFresh, DL!Run, DL!ReadLock, DL!Discard, DL!PidAlive, DL!Probe, DL!Remove,
         DL!Create, DL!Write, DL!Listen, DL!ReleaseRead, DL!ReleaseUnlink, DL!Join, DL!Exit, DL!Goto
    <3>2. PICK p \in Pids : ~DL!Left(p) /\ pid' = [pid EXCEPT ![l] = p] /\ lock' = lock
      BY <3>1 DEF DL!Start, DL!Begin
    <3> QED BY <1>0, <1>3, <2>1, <3>2 DEF DL!Left
  <2>2. CASE k # l
    <3>1. phase[k] = "reading" /\ pid'[k] = pid[k] /\ pid[k] \in Pids
      BY <1>0, <1>1, <1>3, <2>2 DEF DaemonLauncherOK
    <3>2. lock'.pid = pid[l] /\ pid[l] \in Pids => pid[l] # pid[k]
      BY <1>0, <2>2 DEF DaemonDistinct, DaemonBounds
    <3>3. lock # None => lock.pid # pid[k]
      BY <3>1 DEF DaemonFresh
    <3> QED BY <1>3, <3>1, <3>2, <3>3, DaemonLockMade
  <2> QED BY <2>1, <2>2
<1>4. ASSUME phase'[k] = "creating", lock' # None PROVE DL!Underway'
  <2>1. CASE phase'[l] = "writing"
    BY <2>1 DEF DL!Underway
  <2>2. CASE phase'[l] # "writing"
    <3>1. lock # None
      BY <1>4, <2>2, DaemonLockMade
    <3>2. CASE phase[k] = "creating"
      BY <3>1, <3>2, DaemonUnderway DEF DaemonFresh
    <3>3. CASE phase[k] # "creating"
      <4>1. k = l
        BY <1>1, <1>4, <3>3
      <4>2. FALSE
        BY <1>0, <1>4, <3>1, <3>3, <4>1 DEF DL!Start, DL!Begin, DL!Run, DL!ReadLock, DL!Discard, DL!PidAlive, DL!Probe, DL!Remove,
           DL!Create, DL!Write, DL!Listen, DL!ReleaseRead, DL!ReleaseUnlink, DL!Join, DL!Exit, DL!Goto
      <4> QED BY <4>2
    <3> QED BY <3>2, <3>3
  <2> QED BY <2>1, <2>2
<1> QED BY <1>2, <1>3, <1>4 DEF DaemonFresh

LEMMA DaemonRaceInit == ASSUME DaemonBounds PROVE DL!Init => DaemonRace
BY DEF DL!Init, DaemonRace, DaemonFresh

LEMMA DaemonRaceKeeps ==
  ASSUME DaemonBounds, DaemonInv, DaemonRace, [DL!Next]_(DL!vars)
  PROVE  DaemonRace' /\ DL!GivesWay
<1>0. DL!PortKept
  BY DaemonNextKeeps
<1>1. CASE losses' # 0
  BY <1>1 DEF DaemonRace, DL!GivesWay
<1>2. CASE losses' = 0 /\ UNCHANGED DL!vars
  <2>1. \A l \in Launchers : DaemonFresh(l)
    BY <1>2 DEF DL!vars, DaemonRace
  <2>2. \A l \in Launchers : DaemonFresh(l)'
    BY <1>2, <2>1 DEF DL!vars, DaemonFresh, DL!Underway
  <2> QED BY <1>2, <2>2 DEF DL!vars, DaemonRace, DL!GivesWay
<1>3. CASE losses' = 0 /\ DL!Next
  <2>1. PICK l \in Launchers : DL!Start(l) \/ DL!Run(l)
    BY <1>3, DaemonLossless
  <2>2. losses = 0 /\ \A k \in Launchers : DaemonFresh(k)
    BY <1>3, DaemonLossless DEF DaemonRace
  <2>3. \A k \in Launchers : DaemonFresh(k)'
    BY <1>0, <1>3, <2>1, <2>2, DaemonFreshStep
  <2>4. ASSUME NEW k \in Launchers, phase[k] # "off", phase'[k] = "off" PROVE DL!Underway'
    <3>1. k = l
      BY <2>1, <2>4, DaemonOthers
    <3> QED BY <1>0, <1>3, <2>1, <2>2, <2>4, <3>1, DaemonGivesWay
  <2> QED BY <1>3, <2>3, <2>4 DEF DaemonRace, DL!GivesWay
<1> QED BY <1>1, <1>2, <1>3

(* The constants are so. *)
LEMMA DaemonBoundsHold == DaemonBounds
BY AbsentAssumption, BoundsAssumption DEF DaemonBounds

(* A step of the whole is one of this part, if it is its turn. *)
LEMMA DaemonTurn ==
  ASSUME [Next]_vars
  PROVE  part' = part /\ (part = "daemon" => [DL!Next]_(DL!vars))
<1>1. part' = part
  BY DEF Next, vars, Only
<1>2. part = "daemon" => [DL!Next]_(DL!vars)
  BY DEF Next, vars, Only, DL!vars, daemonVars
<1> QED BY <1>1, <1>2

(* So both hold whenever this part moves. *)
LEMMA DaemonAlways == Spec => [](part = "daemon" => DaemonInv /\ DaemonRace)
<1>1. Init => (part = "daemon" => DaemonInv /\ DaemonRace)
  BY DaemonBoundsHold, DaemonTypeInit, DaemonRaceInit DEF Init
<1>2. (part = "daemon" => DaemonInv /\ DaemonRace) /\ [Next]_vars => (part = "daemon" => DaemonInv /\ DaemonRace)'
  BY DaemonBoundsHold, DaemonNextKeeps, DaemonRaceKeeps, DaemonTurn
<1> QED BY <1>1, <1>2, PTL DEF Spec

-----------------------------------------------------------------------------
(* The end of the stdio server: SL in Services. *)

(* What the proof takes of the constants. *)
LifeBounds == MaxCalls \in Nat

(* Only the idle timer begins for idleness, with no call under way, and from   *)
(* the beginning of the sequence no call starts.                               *)
LifeClosing ==
  sequence = "closing" => ~transport /\ (reason = "stdio_idle_timeout" => procCalls = 0)

(* The inductive invariant. *)
LifeInv ==
  /\ SL!TypeOK /\ procCalls <= made
  /\ pending # "stdio_idle_timeout"
  /\ LifeClosing
  /\ SL!OrderlyExit

(* It holds at first. *)
LEMMA LifeTypeInit == ASSUME LifeBounds PROVE SL!Init => LifeInv
BY DEF LifeBounds, SL!Init, LifeInv, SL!TypeOK, LifeClosing, SL!OrderlyExit

(* Calls start and end. *)
LEMMA LifeCallsKeep == ASSUME LifeBounds, LifeInv, SL!CallStarts \/ SL!CallEnds PROVE LifeInv'
<1>1. CASE SL!CallStarts
  BY <1>1 DEF LifeBounds, SL!CallStarts, SL!Idle, SL!Running, LifeInv, SL!TypeOK, LifeClosing, SL!OrderlyExit
<1>2. CASE SL!CallEnds
  BY <1>2 DEF LifeBounds, SL!CallEnds, SL!Idle, SL!Running, LifeInv, SL!TypeOK, LifeClosing, SL!OrderlyExit
<1> QED BY <1>1, <1>2

(* The end is triggered, or the idle timer fires. *)
LEMMA LifeBeginsKeep ==
  ASSUME LifeBounds, LifeInv, (\E why \in SL!External : SL!Trigger(why)) \/ SL!Microtask \/ SL!IdleTimer PROVE LifeInv'
<1>1. ASSUME NEW why \in SL!External, SL!Trigger(why) PROVE LifeInv'
  BY <1>1 DEF SL!Trigger, SL!External, SL!Running, LifeInv, SL!TypeOK, SL!Reasons, LifeClosing, SL!OrderlyExit
<1>2. CASE SL!Microtask
  BY <1>2 DEF SL!Microtask, SL!Begin, SL!Running, LifeInv, SL!TypeOK, SL!Reasons, LifeClosing, SL!OrderlyExit
<1>3. CASE SL!IdleTimer
  BY <1>3 DEF SL!IdleTimer, SL!Begin, SL!Idle, SL!Running, LifeInv, SL!TypeOK, SL!Reasons, LifeClosing, SL!OrderlyExit
<1> QED BY <1>1, <1>2, <1>3

(* The closes settle or fail, or their time is up. *)
LEMMA LifeEndsKeep == ASSUME LifeBounds, LifeInv, SL!Closes \/ SL!CloseFails \/ SL!Ceiling PROVE LifeInv'
<1>1. CASE SL!Closes
  BY <1>1 DEF SL!Closes, SL!Idle, SL!Running, LifeInv, SL!TypeOK, LifeClosing, SL!OrderlyExit
<1>2. CASE SL!CloseFails
  <2>1. exit' = "failed" /\ store' \in BOOLEAN
    BY <1>2 DEF SL!CloseFails, LifeInv, SL!TypeOK
  <2> QED BY <1>2, <2>1 DEF SL!CloseFails, LifeInv, SL!TypeOK, LifeClosing, SL!OrderlyExit
<1>3. CASE SL!Ceiling
  BY <1>3 DEF SL!Ceiling, SL!Idle, SL!Running, LifeInv, SL!TypeOK, LifeClosing, SL!OrderlyExit
<1> QED BY <1>1, <1>2, <1>3

(* So every step keeps the invariant. *)
LEMMA LifeNextKeeps == ASSUME LifeBounds, LifeInv, [SL!Next]_(SL!vars) PROVE LifeInv'
<1>1. CASE SL!CallStarts \/ SL!CallEnds
  BY <1>1, LifeCallsKeep
<1>2. CASE (\E why \in SL!External : SL!Trigger(why)) \/ SL!Microtask \/ SL!IdleTimer
  BY <1>2, LifeBeginsKeep
<1>3. CASE SL!Closes \/ SL!CloseFails \/ SL!Ceiling
  BY <1>3, LifeEndsKeep
<1>4. CASE UNCHANGED SL!vars
  BY <1>4 DEF SL!vars, LifeInv, SL!TypeOK, LifeClosing, SL!OrderlyExit
<1>5. CASE SL!Ended
  BY <1>4, <1>5 DEF SL!Ended
<1> QED BY <1>1, <1>2, <1>3, <1>4, <1>5 DEF SL!Next

(* The constants are so. *)
LEMMA LifeBoundsHold == LifeBounds
BY BoundsAssumption DEF LifeBounds

(* A step of the whole is one of this part, if it is its turn. *)
LEMMA LifeTurn ==
  ASSUME [Next]_vars
  PROVE  part' = part /\ (part = "lifecycle" => [SL!Next]_(SL!vars))
<1>1. part' = part
  BY DEF Next, vars, Only
<1>2. part = "lifecycle" => [SL!Next]_(SL!vars)
  BY DEF Next, vars, Only, SL!vars, lifecycleVars
<1> QED BY <1>1, <1>2

(* So the invariant holds whenever this part moves. *)
LEMMA LifeAlways == Spec => [](part = "lifecycle" => LifeInv)
<1>1. Init => (part = "lifecycle" => LifeInv)
  BY LifeBoundsHold, LifeTypeInit DEF Init
<1>2. (part = "lifecycle" => LifeInv) /\ [Next]_vars => (part = "lifecycle" => LifeInv)'
  BY LifeBoundsHold, LifeNextKeeps, LifeTurn
<1> QED BY <1>1, <1>2, PTL DEF Spec

-----------------------------------------------------------------------------
(* The sessions of the HTTP daemon: HS in Services. *)

(* What the proof takes of the constants. *)
HttpBounds == MaxHttpRequests \in Nat /\ None \notin SessionIds

(* A request that is a call or a DELETE has a session; a call that was let in  *)
(* came before the end of its session, and a DELETE has taken it out.          *)
HttpReqOK(r) ==
  /\ req[r].step \in {"call", "delete"} => req[r].session \in SessionIds
  /\ req[r].step = "call" => req[r].late = FALSE
  /\ req[r].step = "delete" => httpSessions[req[r].session] = None

(* From the signal on nothing is let in; from the closing of the sessions on   *)
(* there is neither a request nor a session.                                   *)
HttpQuiet ==
  /\ httpStage \in {"draining", "closing", "down"} => listening = FALSE
  /\ httpStage \in {"closing", "down"} =>
       (\A r \in HttpRequests : req[r] = HS!NoRequest) /\ (\A i \in SessionIds : httpSessions[i] = None)

(* The inductive invariant. *)
HttpInv ==
  /\ HS!TypeOK
  /\ \A r \in HttpRequests : HttpReqOK(r)
  /\ \A i \in ended : httpSessions[i] = None
  /\ HttpQuiet
  /\ HS!DeletedIsGone

(* The types of the variables, one by one. *)
LEMMA HttpTypesOf ==
  ASSUME HS!TypeOK
  PROVE  /\ req \in [HttpRequests -> HS!Request] /\ httpSessions \in [SessionIds -> HS!AnyActor] /\ None \in HS!AnyActor
         /\ \A r \in HttpRequests : /\ req[r] \in HS!Request /\ req[r].actor \in HS!AnyActor
                                    /\ req[r].session \in SessionIds \cup {None}
                                    /\ req[r].late \in BOOLEAN
BY DEF HS!TypeOK, HS!Request, HS!AnyActor

(* A record put together from values of its fields is a request. *)
LEMMA HttpRequestType ==
  ASSUME NEW s \in {"idle", "initialize", "call", "delete", "stream"}, NEW i \in SessionIds \cup {None},
         NEW a \in HS!AnyActor, NEW l \in BOOLEAN
  PROVE  [step |-> s, session |-> i, actor |-> a, late |-> l] \in HS!Request
BY Zenon DEF HS!Request

(* Membership is a truth value. *)
LEMMA HttpTruth == ASSUME NEW S, NEW x PROVE \E l \in BOOLEAN : l = (x \in S)
<1>1. CASE x \in S
  <2>1. (x \in S) = TRUE
    BY <1>1
  <2> QED BY <2>1, Zenon
<1>2. CASE x \notin S
  <2>1. (x \in S) = FALSE
    BY <1>2
  <2> QED BY <2>1, Zenon
<1> QED BY <1>1, <1>2

(* A request that is over. *)
LEMMA HttpRest == HS!NoRequest \in HS!Request /\ HS!NoRequest.step = "idle" /\ HS!NoRequest.session = None
<1> PICK k : k = HS!NoRequest
  OBVIOUS
<1>1. k = [step |-> "idle", session |-> None, actor |-> None, late |-> FALSE]
  BY DEF HS!NoRequest
<1>2. k \in HS!Request
  BY <1>1, HttpRequestType DEF HS!AnyActor
<1> QED BY <1>1, <1>2

(* It holds at first. *)
LEMMA HttpTypeInit == ASSUME HttpBounds PROVE HS!Init => HttpInv
<1> SUFFICES ASSUME HS!Init PROVE HttpInv
  OBVIOUS
<1>1. HS!TypeOK
  BY HttpRest DEF HS!Init, HS!TypeOK, HS!AnyActor, HttpBounds
<1>2. \A r \in HttpRequests : HttpReqOK(r)
  BY HttpRest DEF HS!Init, HttpReqOK
<1> QED BY <1>1, <1>2 DEF HS!Init, HttpInv, HttpQuiet, HS!DeletedIsGone

(* A slot takes the request k, and sessions and streams may leave. *)
HttpTakes(r, k) ==
  /\ req' \in [HttpRequests -> HS!Request]
  /\ \A q \in HttpRequests : IF q = r THEN req'[q] = k ELSE req'[q] \in {req[q], HS!NoRequest}

LEMMA HttpMoves ==
  ASSUME HttpBounds, HttpInv, NEW r \in HttpRequests, NEW k \in HS!Request, HttpTakes(r, k),
         httpSessions' \in [SessionIds -> HS!AnyActor], ended' \subseteq SessionIds, resolver' \in HS!AnyActor,
         arrived' \in 0..MaxHttpRequests, acted' \subseteq HS!Deed, UNCHANGED <<listening, armed, httpStage>>,
         \A i \in SessionIds : httpSessions[i] = None /\ httpSessions'[i] # None =>
            i \notin ended /\ \A q \in HttpRequests : req[q].session # i,
         \A i \in ended' : httpSessions'[i] = None,
         httpStage \notin {"closing", "down"},
         k.step \in {"call", "delete"} => k.session \in SessionIds,
         k.step = "call" => k.late = FALSE,
         k.step = "delete" => httpSessions'[k.session] = None,
         \A d \in acted' \ acted : d.late = FALSE
  PROVE  HttpInv'
<1>0. req \in [HttpRequests -> HS!Request] /\ HS!TypeOK
  BY HttpTypesOf DEF HttpInv
<1>1. \A q \in HttpRequests : IF q = r THEN req'[q] = k ELSE req'[q] \in {req[q], HS!NoRequest}
  BY DEF HttpTakes
<1>2. HS!TypeOK'
  BY <1>0 DEF HS!TypeOK, HttpTakes
<1>3. ASSUME NEW q \in HttpRequests PROVE HttpReqOK(q)'
  <2>1. CASE q = r
    BY <1>1, <2>1 DEF HttpReqOK
  <2>2. CASE q # r /\ req'[q] = req[q]
    <3>1. HttpReqOK(q)
      BY DEF HttpInv
    <3> QED BY <2>2, <3>1 DEF HttpReqOK
  <2>3. CASE req'[q] = HS!NoRequest
    BY <2>3, HttpRest DEF HttpReqOK
  <2> QED BY <1>1, <2>1, <2>2, <2>3
<1>4. HttpQuiet'
  BY DEF HttpInv, HttpQuiet
<1>5. HS!DeletedIsGone'
  <2> SUFFICES ASSUME NEW d \in acted' PROVE ~d.late
    BY DEF HS!DeletedIsGone
  <2>1. CASE d \in acted
    BY <2>1 DEF HttpInv, HS!DeletedIsGone
  <2>2. CASE d \notin acted
    <3>1. d.late = FALSE
      BY <2>2
    <3> QED BY <3>1
  <2> QED BY <2>1, <2>2
<1> QED BY <1>2, <1>3, <1>4, <1>5 DEF HttpInv

(* A slot takes the request k, and the others stay. *)
LEMMA HttpMove ==
  ASSUME HttpBounds, HttpInv, NEW r \in HttpRequests, NEW k \in HS!Request, req' = [req EXCEPT ![r] = k],
         httpSessions' \in [SessionIds -> HS!AnyActor], ended' \subseteq SessionIds, resolver' \in HS!AnyActor,
         arrived' \in 0..MaxHttpRequests, acted' \subseteq HS!Deed, UNCHANGED <<listening, armed, httpStage>>,
         \A i \in SessionIds : httpSessions[i] = None /\ httpSessions'[i] # None =>
            i \notin ended /\ \A q \in HttpRequests : req[q].session # i,
         \A i \in ended' : httpSessions'[i] = None,
         httpStage \notin {"closing", "down"},
         k.step \in {"call", "delete"} => k.session \in SessionIds,
         k.step = "call" => k.late = FALSE,
         k.step = "delete" => httpSessions'[k.session] = None,
         \A d \in acted' \ acted : d.late = FALSE
  PROVE  HttpInv'
<1>1. req \in [HttpRequests -> HS!Request]
  BY HttpTypesOf DEF HttpInv
<1>2. HttpTakes(r, k)
  BY <1>1 DEF HttpTakes
<1> QED BY <1>2, HttpMoves

(* A request arrives. *)
LEMMA HttpPostsKeep ==
  ASSUME HttpBounds, HttpInv, NEW r \in HttpRequests,
         \/ HS!PostNew(r) \/ HS!StreamCloses(r)
         \/ \E i \in SessionIds : HS!PostKnown(r, i) \/ HS!GetStream(r, i) \/ HS!Delete(r, i)
  PROVE  HttpInv'
<1>0. /\ HS!TypeOK /\ httpSessions \in [SessionIds -> HS!AnyActor] /\ None \in HS!AnyActor
      /\ req \in [HttpRequests -> HS!Request] /\ \A i \in ended : httpSessions[i] = None
  BY HttpTypesOf DEF HttpInv
<1>a. arrived' \in 0..MaxHttpRequests
  BY <1>0 DEF HS!TypeOK, HS!PostNew, HS!PostKnown, HS!GetStream, HS!StreamCloses, HS!Delete, HS!Admitted, HttpBounds
<1>b. httpStage \notin {"closing", "down"}
  BY HttpRest DEF HttpInv, HS!PostNew, HS!PostKnown, HS!GetStream, HS!StreamCloses, HS!Delete, HS!Admitted, HttpQuiet
<1>1. CASE HS!PostNew(r)
  <2>1. PICK a \in HttpActors \cup {DefaultActor} : HS!Reads(r, "initialize", None, a)
    BY <1>1 DEF HS!PostNew
  <2> PICK l \in BOOLEAN : l = (None \in ended)
    BY HttpTruth
  <2> PICK k : k = [step |-> "initialize", session |-> None, actor |-> a, late |-> l]
    OBVIOUS
  <2>2. k \in HS!Request
    BY <2>1, HttpRequestType DEF HS!AnyActor
  <2>3. req' = [req EXCEPT ![r] = k] /\ UNCHANGED <<listening, httpSessions, resolver, ended, armed, httpStage, acted>>
    BY <1>1, <2>1 DEF HS!PostNew, HS!Reads
  <2> QED BY <1>0, <1>a, <1>b, <2>2, <2>3, HttpMove DEF HS!TypeOK
<1>2. ASSUME NEW i \in SessionIds, HS!PostKnown(r, i), HS!Registered(i) PROVE HttpInv'
  <2> PICK k : k = [step |-> "call", session |-> i, actor |-> httpSessions[i], late |-> FALSE]
    OBVIOUS
  <2>0. httpSessions[i] \in HS!AnyActor
    BY <1>0
  <2>1. k \in HS!Request
    BY <2>0, HttpRequestType
  <2>2. i \notin ended
    BY <1>2 DEF HttpInv, HS!Registered
  <2>3. (i \in ended) = FALSE
    BY <2>2
  <2>4. req' = [req EXCEPT ![r] = k]
    BY <1>2, <2>3, Zenon DEF HS!PostKnown, HS!Reads
  <2>5. UNCHANGED <<listening, httpSessions, resolver, ended, armed, httpStage, acted>>
    BY <1>2 DEF HS!PostKnown
  <2> QED BY <1>0, <1>a, <1>b, <2>1, <2>4, <2>5, HttpMove DEF HS!TypeOK
<1>3. ASSUME NEW i \in SessionIds, HS!PostKnown(r, i) \/ HS!GetStream(r, i), UNCHANGED req PROVE HttpInv'
  <2>1. UNCHANGED <<listening, httpSessions, resolver, req, ended, armed, httpStage, acted>>
    BY <1>3 DEF HS!PostKnown, HS!GetStream
  <2>2. HS!TypeOK'
    BY <1>0, <1>a, <2>1 DEF HS!TypeOK
  <2>3. \A q \in HttpRequests : HttpReqOK(q)'
    BY <2>1 DEF HttpInv, HttpReqOK
  <2> QED BY <2>1, <2>2, <2>3 DEF HttpInv, HttpQuiet, HS!DeletedIsGone
<1>4. ASSUME NEW i \in SessionIds, HS!Delete(r, i) PROVE HttpInv'
  <2> PICK l \in BOOLEAN : l = (i \in ended)
    BY HttpTruth
  <2> PICK k : k = [step |-> "delete", session |-> i, actor |-> None, late |-> l]
    OBVIOUS
  <2>1. k \in HS!Request
    BY <1>0, HttpRequestType
  <2>2. req' = [q \in HttpRequests |->
                  IF q = r THEN k
                  ELSE IF HS!Registered(i) /\ HS!Streams(q, i) THEN HS!NoRequest ELSE req[q]]
    BY <1>4 DEF HS!Delete
  <2>3. httpSessions' = [httpSessions EXCEPT ![i] = None]
        /\ UNCHANGED <<listening, resolver, ended, armed, httpStage, acted>>
    BY <1>4 DEF HS!Delete
  <2>4. httpSessions' \in [SessionIds -> HS!AnyActor] /\ \A j \in SessionIds : httpSessions'[j] = IF j = i THEN None ELSE httpSessions[j]
    BY <1>0, <2>3
  <2>5. \A j \in ended' : httpSessions'[j] = None
    BY <1>0, <2>3, <2>4 DEF HS!TypeOK
  <2>6. \A q \in HttpRequests : IF q = r THEN req'[q] = k ELSE req'[q] \in {req[q], HS!NoRequest}
    BY <2>2
  <2>7. req' \in [HttpRequests -> HS!Request]
    <3>1. \A q \in HttpRequests : req'[q] \in HS!Request
      BY <1>0, <2>1, <2>6, HttpRest
    <3> QED BY <2>2, <3>1
  <2>8. /\ ended' \subseteq SessionIds /\ resolver' \in HS!AnyActor /\ acted' \subseteq HS!Deed /\ acted' = acted
        /\ UNCHANGED <<listening, armed, httpStage>>
    BY <1>0, <2>3 DEF HS!TypeOK
  <2>9. k.step = "delete" /\ k.session = i /\ httpSessions'[k.session] = None
    BY <2>4
  <2>10. \A j \in SessionIds : httpSessions[j] = None => httpSessions'[j] = None
    BY <2>4
  <2>11. HttpTakes(r, k)
    BY <2>6, <2>7 DEF HttpTakes
  <2> QED BY <1>a, <1>b, <2>1, <2>4, <2>5, <2>8, <2>9, <2>10, <2>11, HttpMoves
<1>5. ASSUME NEW i \in SessionIds, HS!GetStream(r, i), ~UNCHANGED req PROVE HttpInv'
  <2> PICK l \in BOOLEAN : l = (i \in ended)
    BY HttpTruth
  <2> PICK k : k = [step |-> "stream", session |-> i, actor |-> httpSessions[i], late |-> l]
    OBVIOUS
  <2>0. httpSessions[i] \in HS!AnyActor
    BY <1>0
  <2>1. k \in HS!Request
    BY <2>0, HttpRequestType
  <2>2. req' = [req EXCEPT ![r] = k]
    BY <1>5, Zenon DEF HS!GetStream, HS!Reads
  <2>3. UNCHANGED <<listening, httpSessions, resolver, ended, armed, httpStage, acted>>
    BY <1>5 DEF HS!GetStream
  <2> QED BY <1>0, <1>a, <1>b, <2>1, <2>2, <2>3, HttpMove DEF HS!TypeOK
<1>6. CASE HS!StreamCloses(r)
  <2>1. req' = [req EXCEPT ![r] = HS!NoRequest] /\ UNCHANGED <<listening, httpSessions, resolver, ended, arrived, armed, httpStage, acted>>
    BY <1>6 DEF HS!StreamCloses
  <2> QED BY <1>0, <1>a, <1>b, <2>1, HttpRest, HttpMove DEF HS!TypeOK
<1>7. \A i \in SessionIds : HS!PostKnown(r, i) /\ ~HS!Registered(i) => UNCHANGED req
  BY DEF HS!PostKnown
<1> QED BY <1>1, <1>2, <1>3, <1>4, <1>5, <1>6, <1>7

(* A request is handled. *)
LEMMA HttpHandleKeeps ==
  ASSUME HttpBounds, HttpInv, NEW r \in HttpRequests, HS!Handle(r) PROVE HttpInv'
<1>0. /\ HS!TypeOK /\ httpSessions \in [SessionIds -> HS!AnyActor] /\ None \in HS!AnyActor /\ HS!NoRequest \in HS!Request
      /\ req[r].actor \in HS!AnyActor /\ req[r].late \in BOOLEAN /\ HS!NoRequest.step = "idle" /\ HS!NoRequest.session = None
      /\ \A i \in ended : httpSessions[i] = None
  BY HttpTypesOf, HttpRest DEF HttpInv
<1>a. httpStage \notin {"closing", "down"}
  BY HttpRest DEF HttpInv, HttpQuiet, HS!Handle, HS!Initialize, HS!ToolCall, HS!RequestFails, HS!Deleted
<1>1. CASE HS!Initialize(r)
  <2>1. PICK i \in SessionIds : /\ ~HS!Registered(i) /\ i \notin ended
                                /\ \A q \in HttpRequests : req[q].session # i
                                /\ httpSessions' = [httpSessions EXCEPT ![i] = req[r].actor]
    BY <1>1 DEF HS!Initialize
  <2>2. req' = [req EXCEPT ![r] = HS!NoRequest] /\ resolver' = req[r].actor
        /\ UNCHANGED <<listening, ended, arrived, armed, httpStage, acted>>
    BY <1>1 DEF HS!Initialize
  <2>3. httpSessions' \in [SessionIds -> HS!AnyActor] /\ \A j \in SessionIds : httpSessions'[j] = IF j = i THEN req[r].actor ELSE httpSessions[j]
    BY <1>0, <2>1
  <2>4. \A j \in ended' : httpSessions'[j] = None
    BY <1>0, <2>1, <2>2, <2>3 DEF HS!TypeOK
  <2> QED BY <1>0, <1>a, <2>1, <2>2, <2>3, <2>4, HttpMove DEF HS!TypeOK
<1>2. CASE HS!ToolCall(r)
  <2>1. req[r].session \in SessionIds /\ req[r].late = FALSE
    BY <1>2 DEF HS!ToolCall, HttpInv, HttpReqOK
  <2> PICK d : d = [session |-> req[r].session, of |-> req[r].actor, actor |-> resolver, late |-> req[r].late]
    OBVIOUS
  <2>2. d \in HS!Deed
    BY <1>0, <2>1, Zenon DEF HS!Deed, HS!TypeOK
  <2>3. d.late = FALSE
    BY <2>1
  <2>4. acted' \in {acted, acted \cup {d}}
    BY <1>2 DEF HS!ToolCall
  <2>5. acted' \subseteq HS!Deed /\ \A e \in acted' \ acted : e.late = FALSE
    BY <1>0, <2>2, <2>3, <2>4 DEF HS!TypeOK
  <2>6. req' = [req EXCEPT ![r] = HS!NoRequest] /\ UNCHANGED <<listening, httpSessions, resolver, ended, arrived, armed, httpStage>>
    BY <1>2 DEF HS!ToolCall
  <2> QED BY <1>0, <1>a, <2>5, <2>6, HttpMove DEF HS!TypeOK
<1>3. CASE HS!RequestFails(r)
  <2>1. req' = [req EXCEPT ![r] = HS!NoRequest] /\ UNCHANGED <<listening, httpSessions, resolver, ended, arrived, armed, httpStage, acted>>
    BY <1>3 DEF HS!RequestFails
  <2> QED BY <1>0, <1>a, <2>1, HttpMove DEF HS!TypeOK
<1>4. CASE HS!Deleted(r)
  <2>1. req[r].session \in SessionIds /\ httpSessions[req[r].session] = None
    BY <1>4 DEF HS!Deleted, HttpInv, HttpReqOK
  <2>2. req' = [req EXCEPT ![r] = HS!NoRequest] /\ ended' = ended \cup {req[r].session}
        /\ UNCHANGED <<listening, httpSessions, resolver, arrived, armed, httpStage, acted>>
    BY <1>4 DEF HS!Deleted
  <2>3. ended' \subseteq SessionIds /\ \A j \in ended' : httpSessions'[j] = None
    BY <1>0, <2>1, <2>2 DEF HS!TypeOK
  <2> QED BY <1>0, <1>a, <2>2, <2>3, HttpMove DEF HS!TypeOK
<1> QED BY <1>1, <1>2, <1>3, <1>4 DEF HS!Handle

(* The server is told to end, closes its sessions and ends. *)
LEMMA HttpEndsKeep ==
  ASSUME HttpBounds, HttpInv, (\E s \in HS!Signals : HS!Signal(s)) \/ HS!CloseAll \/ HS!LifecycleShutdown PROVE HttpInv'
<1>1. ASSUME NEW s \in HS!Signals, HS!Signal(s) PROVE HttpInv'
  <2>0. UNCHANGED <<httpSessions, resolver, req, ended, arrived, acted>> /\ armed' = armed \ {s}
    BY <1>1 DEF HS!Signal
  <2>1. CASE s \in armed
    <3>1. listening' = FALSE /\ httpStage' = IF httpStage = "up" THEN "draining" ELSE httpStage
      BY <1>1, <2>1 DEF HS!Signal
    <3>2. HS!TypeOK'
      BY <2>0, <3>1 DEF HttpInv, HS!TypeOK
    <3>3. \A q \in HttpRequests : HttpReqOK(q)'
      BY <2>0 DEF HttpInv, HttpReqOK
    <3>4. HttpQuiet'
      BY <2>0, <3>1 DEF HttpInv, HttpQuiet
    <3> QED BY <2>0, <3>2, <3>3, <3>4 DEF HttpInv, HS!DeletedIsGone
  <2>2. CASE s \notin armed
    <3>1. httpStage' = "killed" /\ UNCHANGED listening
      BY <1>1, <2>2 DEF HS!Signal
    <3>2. HS!TypeOK'
      BY <2>0, <3>1 DEF HttpInv, HS!TypeOK
    <3>3. \A q \in HttpRequests : HttpReqOK(q)'
      BY <2>0 DEF HttpInv, HttpReqOK
    <3>4. HttpQuiet'
      BY <2>0, <3>1 DEF HttpInv, HttpQuiet
    <3> QED BY <2>0, <3>2, <3>3, <3>4 DEF HttpInv, HS!DeletedIsGone
  <2> QED BY <2>1, <2>2
<1>2. CASE HS!CloseAll
  <2>1. /\ \A r \in HttpRequests : req[r] = HS!NoRequest /\ req'[r] = HS!NoRequest
        /\ httpSessions' = [i \in SessionIds |-> None] /\ httpStage = "draining" /\ httpStage' = "closing"
        /\ UNCHANGED <<listening, resolver, req, ended, arrived, armed, acted>>
    BY <1>2 DEF HS!CloseAll, HS!Drained
  <2>2. HS!TypeOK'
    BY <2>1 DEF HttpInv, HS!TypeOK, HS!AnyActor
  <2>3. \A q \in HttpRequests : HttpReqOK(q)'
    BY <2>1, HttpRest DEF HttpReqOK
  <2>4. \A i \in ended' : httpSessions'[i] = None
    BY <2>1 DEF HttpInv, HS!TypeOK
  <2> QED BY <2>1, <2>2, <2>3, <2>4 DEF HttpInv, HttpQuiet, HS!DeletedIsGone
<1>3. CASE HS!LifecycleShutdown
  <2>1. httpStage = "closing" /\ httpStage' = "down"
        /\ UNCHANGED <<listening, httpSessions, resolver, req, ended, arrived, armed, acted>>
    BY <1>3 DEF HS!LifecycleShutdown
  <2>2. HS!TypeOK'
    BY <2>1 DEF HttpInv, HS!TypeOK
  <2>3. \A q \in HttpRequests : HttpReqOK(q)'
    BY <2>1 DEF HttpInv, HttpReqOK
  <2> QED BY <2>1, <2>2, <2>3 DEF HttpInv, HttpQuiet, HS!DeletedIsGone
<1> QED BY <1>1, <1>2, <1>3

(* So every step keeps the invariant. *)
LEMMA HttpNextKeeps == ASSUME HttpBounds, HttpInv, [HS!Next]_(HS!vars) PROVE HttpInv'
<1>1. ASSUME NEW r \in HttpRequests,
             \/ HS!PostNew(r) \/ HS!StreamCloses(r)
             \/ \E i \in SessionIds : HS!PostKnown(r, i) \/ HS!GetStream(r, i) \/ HS!Delete(r, i)
      PROVE  HttpInv'
  BY <1>1, HttpPostsKeep
<1>2. ASSUME NEW r \in HttpRequests, HS!Handle(r) PROVE HttpInv'
  BY <1>2, HttpHandleKeeps
<1>3. CASE (\E s \in HS!Signals : HS!Signal(s)) \/ HS!CloseAll \/ HS!LifecycleShutdown
  BY <1>3, HttpEndsKeep
<1>4. CASE UNCHANGED HS!vars
  <2>1. \A q \in HttpRequests : HttpReqOK(q)'
    BY <1>4 DEF HS!vars, HttpInv, HttpReqOK
  <2> QED BY <1>4, <2>1 DEF HS!vars, HttpInv, HS!TypeOK, HttpQuiet, HS!DeletedIsGone
<1>5. CASE HS!Ended
  BY <1>4, <1>5 DEF HS!Ended
<1> QED BY <1>1, <1>2, <1>3, <1>4, <1>5 DEF HS!Next

(* What the run checks follows. *)
LEMMA HttpLeft == ASSUME HttpInv PROVE HS!NoSessionLeft /\ HS!DeletedIsGone
BY DEF HttpInv, HttpQuiet, HS!NoSessionLeft, HS!Registered

(* The constants are so. *)
LEMMA HttpBoundsHold == HttpBounds
BY AbsentAssumption, BoundsAssumption DEF HttpBounds

(* A step of the whole is one of this part, if it is its turn. *)
LEMMA HttpTurn ==
  ASSUME [Next]_vars
  PROVE  part' = part /\ (part = "http" => [HS!Next]_(HS!vars))
<1>1. part' = part
  BY DEF Next, vars, Only
<1>2. part = "http" => [HS!Next]_(HS!vars)
  BY DEF Next, vars, Only, HS!vars, httpVars
<1> QED BY <1>1, <1>2

(* So the invariant holds whenever this part moves. *)
LEMMA HttpAlways == Spec => [](part = "http" => HttpInv)
<1>1. Init => (part = "http" => HttpInv)
  BY HttpBoundsHold, HttpTypeInit DEF Init
<1>2. (part = "http" => HttpInv) /\ [Next]_vars => (part = "http" => HttpInv)'
  BY HttpBoundsHold, HttpNextKeeps, HttpTurn
<1> QED BY <1>1, <1>2, PTL DEF Spec

-----------------------------------------------------------------------------
(* The HTTP bridge: HB in Services. *)

(* The records of the requests. *)
BridgeRequested == [at : {"idle", "body", "create", "handle"}, method : {"none", "initialize", "other"},
              id : SessionIds \cup {None}, valid : BOOLEAN]

(* A session is being created by an initialize. *)
BridgeInv ==
  /\ HB!TypeOK
  /\ \A r \in HttpRequests : request[r].at = "create" => request[r].method = "initialize"


(* It holds at first. *)
LEMMA BridgeTypeInit == ASSUME MaxBridgeRequests \in Nat PROVE HB!Init => BridgeInv
<1> SUFFICES ASSUME HB!Init PROVE BridgeInv
  OBVIOUS
<1>1. HB!Idle \in BridgeRequested /\ HB!Idle.at = "idle"
  BY DEF HB!Idle, BridgeRequested
<1> QED BY <1>1 DEF HB!Init, BridgeInv, HB!TypeOK, BridgeRequested

(* A request that is new takes its place. *)
LEMMA BridgePlaced ==
  ASSUME BridgeInv, NEW r \in HttpRequests, NEW k \in BridgeRequested, request' = [request EXCEPT ![r] = k],
         k.at = "create" => k.method = "initialize"
  PROVE  /\ request' \in [HttpRequests -> BridgeRequested] /\ request'[r] = k
         /\ \A q \in HttpRequests : request'[q].at = "create" => request'[q].method = "initialize"
BY DEF BridgeInv, HB!TypeOK, BridgeRequested

(* The types of the variables after a step. *)
LEMMA BridgeTypesNext ==
  ASSUME bridgeSessions' \subseteq bridgeUsed', bridgeUsed' \subseteq SessionIds, request' \in [HttpRequests -> BridgeRequested],
         answer' \in [HttpRequests -> {"none", "ok", "bad_request", "not_found", "unparsed", "failed"}],
         sent' \in 0..MaxBridgeRequests,
         \A q \in HttpRequests : request'[q].at = "create" => request'[q].method = "initialize"
  PROVE  BridgeInv'
BY DEF BridgeInv, HB!TypeOK, BridgeRequested

(* A request that is over. *)
LEMMA BridgeIdleRequest == HB!Idle \in BridgeRequested /\ HB!Idle.at = "idle"
BY DEF HB!Idle, BridgeRequested

(* An answer ends its request and no other. *)
LEMMA BridgeAnswersKeeps ==
  ASSUME BridgeInv, NEW r \in HttpRequests,
         NEW s \in {"none", "ok", "bad_request", "not_found", "unparsed", "failed"}, HB!Answers(r, s)
  PROVE  /\ request' \in [HttpRequests -> BridgeRequested] /\ request'[r] = HB!Idle
         /\ answer' \in [HttpRequests -> {"none", "ok", "bad_request", "not_found", "unparsed", "failed"}]
         /\ \A q \in HttpRequests : request'[q].at = "create" => request'[q].method = "initialize"
BY BridgeIdleRequest, BridgePlaced DEF HB!Answers, BridgeInv, HB!TypeOK

(* The steps of one request. *)
LEMMA BridgeStepKeeps ==
  ASSUME MaxBridgeRequests \in Nat, BridgeInv, NEW r \in HttpRequests,
         \/ \E method \in {"initialize", "other"}, id \in bridgeUsed \cup {None} : HB!Post(r, method, id)
         \/ HB!BadBody(r) \/ HB!Known(r) \/ HB!Unknown(r) \/ HB!Create(r)
         \/ \E id \in SessionIds : HB!Initialized(r, id) \/ HB!Delete(r, id)
  PROVE  BridgeInv' /\ HB!KeepsClosed /\ HB!OnlyInitialize
<1>0. request \in [HttpRequests -> BridgeRequested] /\ bridgeSessions \subseteq bridgeUsed /\ bridgeUsed \subseteq SessionIds /\ sent \in 0..MaxBridgeRequests
      /\ answer \in [HttpRequests -> {"none", "ok", "bad_request", "not_found", "unparsed", "failed"}]
  BY DEF BridgeInv, HB!TypeOK, BridgeRequested
<1>1. ASSUME NEW method \in {"initialize", "other"}, NEW id \in bridgeUsed \cup {None}, HB!Post(r, method, id)
      PROVE  BridgeInv' /\ HB!KeepsClosed /\ HB!OnlyInitialize
  <2> PICK k : k = [at |-> "body", method |-> method, id |-> id, valid |-> id \in bridgeSessions]
    OBVIOUS
  <2>0. (id \in bridgeSessions) \in BOOLEAN /\ id \in SessionIds \cup {None}
    BY <1>0
  <2>1. k \in BridgeRequested /\ k.at = "body"
    BY <2>0, Zenon DEF BridgeRequested
  <2>2. request' = [request EXCEPT ![r] = k]
    BY <1>1 DEF HB!Post
  <2>3. sent' \in 0..MaxBridgeRequests
    BY <1>0, <1>1 DEF HB!Post
  <2>4. bridgeSessions' = bridgeSessions /\ bridgeUsed' = bridgeUsed
        /\ answer' \in [HttpRequests -> {"none", "ok", "bad_request", "not_found", "unparsed", "failed"}]
    BY <1>0, <1>1 DEF HB!Post
  <2> QED BY <1>0, <2>1, <2>2, <2>3, <2>4, BridgePlaced, BridgeTypesNext DEF HB!KeepsClosed, HB!OnlyInitialize
<1>2. CASE HB!BadBody(r) \/ HB!Known(r) \/ HB!Unknown(r)
  <2>1. PICK s \in {"none", "ok", "bad_request", "not_found", "unparsed", "failed"} : HB!Answers(r, s)
    BY <1>2 DEF HB!BadBody, HB!Known, HB!Unknown
  <2>2. UNCHANGED <<bridgeSessions, bridgeUsed, sent>>
    BY <1>2 DEF HB!BadBody, HB!Known, HB!Unknown
  <2> QED BY <1>0, <2>1, <2>2, BridgeAnswersKeeps, BridgeTypesNext DEF HB!KeepsClosed, HB!OnlyInitialize
<1>3. CASE HB!Create(r)
  <2> PICK k : k = [request[r] EXCEPT !.at = "create"]
    OBVIOUS
  <2>1. k \in BridgeRequested /\ k.at = "create" /\ k.method = "initialize"
    BY <1>0, <1>3 DEF HB!Create, HB!Opens, BridgeRequested
  <2>2. request' = [request EXCEPT ![r] = k] /\ UNCHANGED <<bridgeSessions, bridgeUsed, answer, sent>>
    BY <1>3 DEF HB!Create
  <2> QED BY <1>0, <2>1, <2>2, BridgePlaced, BridgeTypesNext DEF HB!KeepsClosed, HB!OnlyInitialize
<1>4. ASSUME NEW id \in SessionIds, HB!Initialized(r, id) PROVE BridgeInv' /\ HB!KeepsClosed /\ HB!OnlyInitialize
  <2>1. HB!Answers(r, "ok") /\ bridgeUsed' = bridgeUsed \cup {id} /\ bridgeSessions' = bridgeSessions \cup {id} /\ sent' = sent
        /\ id \notin bridgeUsed /\ request[r].at = "create"
    BY <1>4 DEF HB!Initialized
  <2>2. request[r].method = "initialize" /\ request'[r] = HB!Idle
    BY <2>1, BridgeAnswersKeeps DEF BridgeInv
  <2> QED BY <1>0, <2>1, <2>2, BridgeAnswersKeeps, BridgeTypesNext DEF HB!KeepsClosed, HB!OnlyInitialize
<1>5. ASSUME NEW id \in SessionIds, HB!Delete(r, id) PROVE BridgeInv' /\ HB!KeepsClosed /\ HB!OnlyInitialize
  <2>1. sent' \in 0..MaxBridgeRequests /\ bridgeSessions' \subseteq bridgeSessions /\ UNCHANGED <<bridgeUsed, request>>
        /\ answer' \in [HttpRequests -> {"none", "ok", "bad_request", "not_found", "unparsed", "failed"}]
    BY <1>0, <1>5 DEF HB!Delete
  <2> QED BY <1>0, <2>1, BridgeTypesNext DEF HB!KeepsClosed, HB!OnlyInitialize, BridgeInv
<1> QED BY <1>1, <1>2, <1>3, <1>4, <1>5

(* So every step keeps the invariant. *)
LEMMA BridgeNextKeeps ==
  ASSUME MaxBridgeRequests \in Nat PROVE BridgeInv /\ [HB!Next]_(HB!vars) => BridgeInv' /\ HB!KeepsClosed /\ HB!OnlyInitialize
<1> SUFFICES ASSUME BridgeInv, [HB!Next]_(HB!vars) PROVE BridgeInv' /\ HB!KeepsClosed /\ HB!OnlyInitialize
  OBVIOUS
<1>1. CASE UNCHANGED HB!vars
  BY <1>1 DEF HB!vars, BridgeInv, HB!TypeOK, HB!KeepsClosed, HB!OnlyInitialize
<1>2. CASE HB!Next
  BY <1>2, BridgeStepKeeps DEF HB!Next
<1> QED BY <1>1, <1>2

(* A step of the whole is one of this part, if it is its turn. *)
LEMMA BridgeTurn ==
  ASSUME [Next]_vars
  PROVE  part' = part /\ (part = "bridge" => [HB!Next]_(HB!vars))
<1>1. part' = part
  BY DEF Next, vars, Only
<1>2. part = "bridge" => [HB!Next]_(HB!vars)
  BY DEF Next, vars, Only, HB!vars, bridgeVars
<1> QED BY <1>1, <1>2

(* So the invariant holds whenever this part moves. *)
LEMMA BridgeAlways == Spec => [](part = "bridge" => BridgeInv)
<1>1. Init => (part = "bridge" => BridgeInv)
  BY BoundsAssumption, BridgeTypeInit DEF Init
<1>2. (part = "bridge" => BridgeInv) /\ [Next]_vars => (part = "bridge" => BridgeInv)'
  BY BoundsAssumption, BridgeNextKeeps, BridgeTurn
<1> QED BY <1>1, <1>2, PTL DEF Spec

-----------------------------------------------------------------------------
(* The context cache of the plugin: OP in Services. *)

(* The records of the hooks. *)
PluginHooked == [at : {"idle", "asks", "got", "failed"}, began : 0..MaxTime, read : 0..MaxTime]

(* What the proof takes of the constants. *)
PluginBounds == Ttl \in Nat \ {0} /\ MaxTime \in Nat

(* No call began later than now, a cached text does not expire later than its *)
(* time to live after it was read, and an answer is read after its call began. *)
PluginInv ==
  /\ OP!TypeOK
  /\ cached.is => cached.expires <= cached.read + Ttl
  /\ \A h \in Hooks : hook[h].began <= pluginNow /\ (hook[h].at = "got" => hook[h].began <= hook[h].read)
  /\ OP!FreshEnough


(* The types of the variables, one by one. *)
LEMMA PluginHooksOf == OP!TypeOK <=>
  /\ pluginNow \in 0..MaxTime
  /\ cached \in [is : BOOLEAN, read : 0..MaxTime, expires : 0..MaxTime + Ttl]
  /\ hook \in [Hooks -> PluginHooked]
  /\ served \in [read : 0..MaxTime, began : 0..MaxTime, newest : 0..MaxTime]
BY DEF OP!TypeOK, PluginHooked

(* It holds at first. *)
LEMMA PluginTypeInit == ASSUME PluginBounds PROVE OP!Init => PluginInv
<1> SUFFICES ASSUME OP!Init PROVE PluginInv
  OBVIOUS
<1>1. OP!Idle \in PluginHooked /\ OP!Idle.at = "idle" /\ OP!Idle.began = 0
  BY DEF OP!Idle, PluginHooked, PluginBounds
<1>2. cached \in [is : BOOLEAN, read : 0..MaxTime, expires : 0..MaxTime + Ttl] /\ ~cached.is
  <2>1. 0 \in 0..MaxTime /\ 0 \in 0..MaxTime + Ttl /\ FALSE \in BOOLEAN
    BY DEF PluginBounds
  <2> QED BY <2>1, Zenon DEF OP!Init, OP!Nothing
<1>3. served \in [read : 0..MaxTime, began : 0..MaxTime, newest : 0..MaxTime]
      /\ served.began = 0 /\ served.read = 0
  BY DEF OP!Init, OP!NotServed, PluginBounds
<1>4. OP!TypeOK
  BY <1>1, <1>2, <1>3, PluginHooksOf DEF OP!Init, PluginBounds
<1> QED BY <1>1, <1>2, <1>3, <1>4 DEF OP!Init, PluginInv, OP!FreshEnough, PluginBounds

(* What is served had not outlived its time when its call began. *)
LEMMA PluginServeKeeps ==
  ASSUME PluginBounds, PluginInv, NEW r \in 0..MaxTime, NEW b \in 0..MaxTime, b < r + Ttl, OP!Serve(r, b)
  PROVE  served' \in [read : 0..MaxTime, began : 0..MaxTime, newest : 0..MaxTime] /\ OP!FreshEnough'
<1>1. PICK n \in 0..MaxTime : served' = [read |-> r, began |-> b, newest |-> n]
  BY DEF OP!Serve, PluginInv, OP!TypeOK
<1> QED BY <1>1 DEF OP!FreshEnough

(* A step that moves one hook. *)
LEMMA PluginHookKeeps ==
  ASSUME PluginBounds, PluginInv, NEW h \in Hooks, NEW k \in PluginHooked, hook' = [hook EXCEPT ![h] = k], pluginNow' = pluginNow,
         k.began <= pluginNow, k.at = "got" => k.began <= k.read
  PROVE  /\ hook' \in [Hooks -> PluginHooked]
         /\ \A g \in Hooks : hook'[g].began <= pluginNow' /\ (hook'[g].at = "got" => hook'[g].began <= hook'[g].read)
<1>1. hook \in [Hooks -> PluginHooked]
  BY PluginHooksOf DEF PluginInv
<1>2. \A g \in Hooks : hook'[g] = IF g = h THEN k ELSE hook[g]
  BY <1>1
<1> QED BY <1>1, <1>2 DEF PluginInv

(* So every step keeps the invariant. *)
LEMMA PluginTypeStep == ASSUME PluginBounds PROVE PluginInv /\ [OP!Next]_(OP!vars) => PluginInv'
<1> SUFFICES ASSUME PluginInv, [OP!Next]_(OP!vars) PROVE PluginInv'
  OBVIOUS
<1>0. hook \in [Hooks -> PluginHooked] /\ pluginNow \in 0..MaxTime
      /\ cached \in [is : BOOLEAN, read : 0..MaxTime, expires : 0..MaxTime + Ttl]
  BY PluginHooksOf DEF PluginInv
<1>1. CASE UNCHANGED OP!vars
  BY <1>1 DEF OP!vars, PluginInv, OP!TypeOK, OP!FreshEnough
<1>2. CASE OP!Tick
  <2>1. pluginNow' \in 0..MaxTime /\ pluginNow <= pluginNow' /\ UNCHANGED <<cached, hook, served>>
    BY <1>0, <1>2 DEF OP!Tick, PluginBounds
  <2>2. \A h \in Hooks : hook[h].began \in 0..MaxTime
    BY <1>0 DEF PluginHooked
  <2>3. \A h \in Hooks : hook[h].began <= pluginNow'
    BY <1>0, <2>1, <2>2 DEF PluginInv
  <2> QED BY <2>1, <2>3 DEF PluginInv, OP!TypeOK, OP!FreshEnough
<1>3. ASSUME NEW h \in Hooks, OP!Cached(h) PROVE PluginInv'
  <2>1. cached.read \in 0..MaxTime /\ pluginNow < cached.read + Ttl
    BY <1>0, <1>3 DEF OP!Cached, PluginInv, PluginBounds
  <2>2. OP!FreshEnough' /\ served' \in [read : 0..MaxTime, began : 0..MaxTime, newest : 0..MaxTime]
    BY <1>0, <1>3, <2>1, PluginServeKeeps DEF OP!Cached
  <2>3. UNCHANGED <<pluginNow, cached, hook>>
    BY <1>3 DEF OP!Cached
  <2> QED BY <2>2, <2>3 DEF PluginInv, OP!TypeOK
<1>4. ASSUME NEW h \in Hooks, OP!Ask(h) \/ OP!Answer(h) \/ OP!Fail(h) PROVE PluginInv'
  <2>1. UNCHANGED <<pluginNow, cached, served>>
    BY <1>4 DEF OP!Ask, OP!Answer, OP!Fail
  <2>2. PICK k \in PluginHooked : hook' = [hook EXCEPT ![h] = k] /\ k.began <= pluginNow /\ (k.at = "got" => k.began <= k.read)
    <3>1. CASE OP!Ask(h)
      <4>1. PICK step \in {"asks", "failed"} : hook' = [hook EXCEPT ![h] = [OP!Idle EXCEPT !.at = step, !.began = pluginNow]]
        BY <3>1 DEF OP!Ask
      <4> PICK k : k = [OP!Idle EXCEPT !.at = step, !.began = pluginNow]
        OBVIOUS
      <4>2. k = [at |-> step, began |-> pluginNow, read |-> 0]
        BY DEF OP!Idle
      <4>3. k \in PluginHooked
        BY <1>0, <4>1, <4>2 DEF PluginHooked, PluginBounds
      <4>4. hook' = [hook EXCEPT ![h] = k]
        BY <4>1
      <4>5. k.began <= pluginNow /\ k.at # "got"
        BY <1>0, <4>1, <4>2 DEF PluginBounds
      <4> QED BY <4>3, <4>4, <4>5
    <3>2. CASE OP!Answer(h)
      <4>1. hook' = [hook EXCEPT ![h] = [hook[h] EXCEPT !.at = "got", !.read = pluginNow]]
        BY <3>2 DEF OP!Answer
      <4>2. [hook[h] EXCEPT !.at = "got", !.read = pluginNow] \in PluginHooked
        BY <1>0 DEF PluginHooked
      <4>3. hook[h].began <= pluginNow
        BY DEF PluginInv
      <4> QED BY <1>0, <4>1, <4>2, <4>3 DEF PluginHooked
    <3>3. CASE OP!Fail(h)
      <4> PICK k : k = [hook[h] EXCEPT !.at = "failed"]
        OBVIOUS
      <4>1. k \in PluginHooked /\ k.at = "failed" /\ k.began = hook[h].began
        BY <1>0 DEF PluginHooked
      <4> QED BY <3>3, <4>1 DEF OP!Fail, PluginInv
    <3> QED BY <1>4, <3>1, <3>2, <3>3
  <2>3. hook' \in [Hooks -> PluginHooked]
        /\ \A g \in Hooks : hook'[g].began <= pluginNow' /\ (hook'[g].at = "got" => hook'[g].began <= hook'[g].read)
    BY <2>1, <2>2, PluginHookKeeps
  <2>4. OP!TypeOK'
    BY <2>1, <2>3 DEF PluginInv, OP!TypeOK, PluginHooked
  <2> QED BY <2>1, <2>3, <2>4 DEF PluginInv, OP!FreshEnough
<1>5. ASSUME NEW h \in Hooks, OP!Store(h) PROVE PluginInv'
  <2>1. PICK r : r = IF hook[h].at = "got" THEN hook[h].read ELSE pluginNow
    OBVIOUS
  <2>2. hook[h].began \in 0..MaxTime /\ hook[h].read \in 0..MaxTime /\ hook[h].began <= pluginNow
    BY <1>0 DEF PluginHooked, PluginInv
  <2>3. r \in 0..MaxTime /\ hook[h].began <= r
    BY <1>0, <2>1, <2>2 DEF PluginInv
  <2>4. cached' = [is |-> TRUE, read |-> r, expires |-> hook[h].began + Ttl] /\ OP!Serve(r, hook[h].began)
        /\ hook' = [hook EXCEPT ![h] = OP!Idle] /\ pluginNow' = pluginNow
    BY <1>5, <2>1 DEF OP!Store, OP!Expires
  <2>5. hook[h].began + Ttl \in 0..MaxTime + Ttl /\ hook[h].began < r + Ttl
    BY <2>2, <2>3 DEF PluginBounds
  <2>6. cached' \in [is : BOOLEAN, read : 0..MaxTime, expires : 0..MaxTime + Ttl]
    <3>1. TRUE \in BOOLEAN
      OBVIOUS
    <3> QED BY <2>3, <2>4, <2>5, <3>1, Zenon
  <2>7. cached'.expires <= cached'.read + Ttl
    BY <2>2, <2>3, <2>4 DEF PluginBounds
  <2>8. OP!FreshEnough' /\ served' \in [read : 0..MaxTime, began : 0..MaxTime, newest : 0..MaxTime]
    BY <2>2, <2>3, <2>4, <2>5, PluginServeKeeps
  <2>9. OP!Idle \in PluginHooked /\ OP!Idle.at = "idle" /\ OP!Idle.began <= pluginNow
    BY <1>0 DEF OP!Idle, PluginHooked, PluginBounds
  <2>10. hook' \in [Hooks -> PluginHooked]
         /\ \A g \in Hooks : hook'[g].began <= pluginNow' /\ (hook'[g].at = "got" => hook'[g].began <= hook'[g].read)
    BY <2>4, <2>9, PluginHookKeeps
  <2>11. OP!TypeOK'
    BY <1>0, <2>4, <2>6, <2>8, <2>10 DEF OP!TypeOK, PluginHooked
  <2> QED BY <2>7, <2>8, <2>10, <2>11 DEF PluginInv
<1> QED BY <1>1, <1>2, <1>3, <1>4, <1>5 DEF OP!Next

(* The constants are so. *)
LEMMA PluginBoundsHold == PluginBounds
BY BoundsAssumption DEF PluginBounds

(* A step of the whole is one of this part, if it is its turn. *)
LEMMA PluginTurn ==
  ASSUME [Next]_vars
  PROVE  part' = part /\ (part = "plugin" => [OP!Next]_(OP!vars))
<1>1. part' = part
  BY DEF Next, vars, Only
<1>2. part = "plugin" => [OP!Next]_(OP!vars)
  BY DEF Next, vars, Only, OP!vars, pluginVars
<1> QED BY <1>1, <1>2

(* So the invariant holds whenever this part moves. *)
LEMMA PluginAlways == Spec => [](part = "plugin" => PluginInv)
<1>1. Init => (part = "plugin" => PluginInv)
  BY PluginBoundsHold, PluginTypeInit DEF Init
<1>2. (part = "plugin" => PluginInv) /\ [Next]_vars => (part = "plugin" => PluginInv)'
  BY PluginBoundsHold, PluginTypeStep, PluginTurn
<1> QED BY <1>1, <1>2, PTL DEF Spec

-----------------------------------------------------------------------------
(* The operator capability: CA in Services. *)

(* A token is on its way to the disk once: until its rename it is in one      *)
(* temporary file, and never was on the disk.                                 *)
CapPending(o) == capabilityOp[o].step = "written"

(* A token is written at one place, and what is withdrawn stays off the disk. *)
CapTokensOnce ==
  /\ \A o \in Operators : CapPending(o) =>
       capabilityOp[o].token \in issued \ (withdrawn \cup CA!OnDisk)
  /\ \A o, p \in Operators : CapPending(o) /\ CapPending(p) /\ o # p => capabilityOp[o].token # capabilityOp[p].token
  /\ withdrawn \cup CA!OnDisk \subseteq issued
  /\ withdrawn \cap CA!OnDisk = {}

(* A server holds no token that had been withdrawn when it started, and one   *)
(* of the admin profile holds one.                                            *)
CapLoadedOnce(s) ==
  /\ capabilityServer[s].record # None => capabilityServer[s].record \notin capabilityServer[s].stale
  /\ capabilityServer[s].up /\ capabilityServer[s].profile = "admin" => capabilityServer[s].record # None

(* The types of the variables. *)
CapTyped ==
  /\ capabilityOp \in [Operators -> [step : {"idle", "written", "renamed", "revoking"},
                           token : Tokens \cup {None}]]
  /\ capabilityServer \in [Servers -> [up : BOOLEAN, profile : CA!Profiles,
                             record : Tokens \cup {None}, stale : SUBSET Tokens]]
  /\ capabilityFile \in CA!File \cup {None}
  /\ issued \subseteq Tokens /\ withdrawn \subseteq Tokens

(* The inductive part of the invariant. *)
CapCore ==
  /\ CapTyped /\ CapTokensOnce
  /\ \A s \in Servers : CapLoadedOnce(s)
  /\ CA!WithdrawnIsRefused
  /\ capabilityUse # None /\ CA!ProfileRequired(capabilityUse.type) => capabilityUse.profile = "admin"

(* Nothing is granted and no server runs at first. *)
LEMMA CapInitInv == CA!Init => CapCore
BY DEF CA!Init, CapCore, CapTyped, CapTokensOnce, CapPending, CapLoadedOnce, CA!WithdrawnIsRefused, CA!OnDisk, CA!Idle, CA!Off,
   CA!File, CA!Profiles

(* A step of an operator leaves the servers and what they decided alone. *)
LEMMA CapOperatorStep ==
  ASSUME CapCore, UNCHANGED <<capabilityServer, capabilityUse>>, CapTyped', CapTokensOnce'
  PROVE  CapCore'
BY DEF CapCore, CapLoadedOnce, CA!WithdrawnIsRefused, CA!ProfileRequired

(* A new token is in one temporary file. *)
LEMMA CapGrantWriteInv ==
  ASSUME CapCore, NEW o \in Operators, CA!GrantWrite(o)
  PROVE  CapCore'
<1>1. PICK t \in Tokens \ issued :
        issued' = issued \cup {t} /\ capabilityOp' = [capabilityOp EXCEPT ![o] = [step |-> "written", token |-> t]]
  BY DEF CA!GrantWrite
<1>2. UNCHANGED <<capabilityFile, withdrawn, capabilityServer, capabilityUse>>
  BY DEF CA!GrantWrite
<1>3. CapTyped'
  BY <1>1, <1>2 DEF CapCore, CapTyped
<1>4. \A p \in Operators : capabilityOp'[p] = IF p = o THEN [step |-> "written", token |-> t] ELSE capabilityOp[p]
  BY <1>1 DEF CapCore, CapTyped
<1>5. CapTokensOnce'
  BY <1>1, <1>2, <1>4 DEF CapCore, CapTokensOnce, CapPending, CA!OnDisk
<1> QED BY <1>2, <1>3, <1>5, CapOperatorStep

(* What was on the disk is withdrawn by the rename that replaces it. *)
LEMMA CapGrantRenameInv ==
  ASSUME CapCore, NEW o \in Operators, CA!GrantRename(o)
  PROVE  CapCore'
<1>1. UNCHANGED <<issued, capabilityServer, capabilityUse>> /\ CapPending(o)
  BY DEF CA!GrantRename, CapPending
<1>2. capabilityOp[o].token \in issued \ (withdrawn \cup CA!OnDisk) /\ capabilityOp[o].token \in Tokens
  BY <1>1 DEF CapCore, CapTokensOnce, CapTyped
<1>3. CASE /\ capabilityFile' = [token |-> capabilityOp[o].token, sound |-> TRUE]
           /\ withdrawn' = withdrawn \cup CA!OnDisk
           /\ capabilityOp' = [capabilityOp EXCEPT ![o].step = "renamed"]
  <2>1. \A p \in Operators : capabilityOp'[p].token = capabilityOp[p].token /\ (CapPending(p)' <=> CapPending(p) /\ p # o)
    BY <1>3 DEF CapCore, CapTyped, CapPending
  <2>2. CA!OnDisk \subseteq Tokens /\ CA!OnDisk' \subseteq {capabilityOp[o].token}
    BY <1>2, <1>3 DEF CA!OnDisk, CapCore, CapTyped, CA!File
  <2>3. CapTyped'
    BY <1>1, <1>2, <1>3, <2>2 DEF CapCore, CapTyped, CA!File
  <2>4. CapTokensOnce'
    BY <1>1, <1>2, <1>3, <2>1, <2>2 DEF CapCore, CapTokensOnce
  <2> QED BY <1>1, <2>3, <2>4, CapOperatorStep
<1>4. CASE capabilityOp' = [capabilityOp EXCEPT ![o] = CA!Idle] /\ UNCHANGED <<capabilityFile, withdrawn>>
  <2>1. \A p \in Operators : CapPending(p)' => CapPending(p) /\ capabilityOp'[p] = capabilityOp[p]
    BY <1>4 DEF CapCore, CapTyped, CapPending, CA!Idle
  <2>2. CapTyped'
    BY <1>1, <1>4 DEF CapCore, CapTyped, CA!Idle
  <2>3. CapTokensOnce'
    BY <1>1, <1>4, <2>1 DEF CapCore, CapTokensOnce, CA!OnDisk
  <2> QED BY <1>1, <2>2, <2>3, CapOperatorStep
<1> QED BY <1>3, <1>4 DEF CA!GrantRename

(* The other steps of an operator: no token comes to the disk, and what goes  *)
(* from it is withdrawn.                                                      *)
LEMMA CapOtherOperatorInv ==
  ASSUME CapCore, NEW o \in Operators,
         CA!GrantEnforce(o) \/ CA!RevokeLook(o) \/ CA!RevokeRemove(o) \/ CA!OperatorDies(o)
  PROVE  CapCore'
<1>1. UNCHANGED <<issued, capabilityServer, capabilityUse>> /\ capabilityOp[o].step \in {"idle", "written", "renamed", "revoking"}
  BY DEF CA!GrantEnforce, CA!RevokeLook, CA!RevokeRemove, CA!OperatorDies, CapCore, CapTyped
<1>2. \A p \in Operators : CapPending(p)' => CapPending(p) /\ capabilityOp'[p] = capabilityOp[p]
  BY DEF CA!GrantEnforce, CA!RevokeLook, CA!RevokeRemove, CA!OperatorDies, CapCore, CapTyped, CapPending, CA!Idle
<1>3. CapTyped'
  <2>1. capabilityFile' \in CA!File \cup {None}
    BY DEF CA!GrantEnforce, CA!RevokeLook, CA!RevokeRemove, CA!OperatorDies, CapCore, CapTyped, CA!File
  <2>2. CA!OnDisk \subseteq Tokens
    BY DEF CapCore, CapTyped, CA!OnDisk, CA!File
  <2>3. withdrawn' \subseteq withdrawn \cup CA!OnDisk
    BY DEF CA!GrantEnforce, CA!RevokeLook, CA!RevokeRemove, CA!OperatorDies
  <2>4. PICK n \in [step : {"idle", "written", "renamed", "revoking"}, token : Tokens \cup {None}] :
          capabilityOp' = [capabilityOp EXCEPT ![o] = n]
    <3>1. CA!Idle \in [step : {"idle", "written", "renamed", "revoking"}, token : Tokens \cup {None}]
      BY DEF CA!Idle
    <3>2. [capabilityOp[o] EXCEPT !.step = "revoking"]
            \in [step : {"idle", "written", "renamed", "revoking"}, token : Tokens \cup {None}]
      BY DEF CapCore, CapTyped
    <3> QED BY <3>1, <3>2 DEF CA!GrantEnforce, CA!RevokeLook, CA!RevokeRemove, CA!OperatorDies
  <2> QED BY <1>1, <2>1, <2>2, <2>3, <2>4 DEF CapCore, CapTyped
<1>4. CA!OnDisk' \subseteq CA!OnDisk /\ withdrawn' \subseteq withdrawn \cup (CA!OnDisk \ CA!OnDisk')
  BY DEF CA!GrantEnforce, CA!RevokeLook, CA!RevokeRemove, CA!OperatorDies, CapCore, CapTyped, CA!OnDisk, CA!File
<1>5. CapTokensOnce'
  BY <1>1, <1>2, <1>4 DEF CapCore, CapTokensOnce
<1> QED BY <1>1, <1>3, <1>5, CapOperatorStep

(* Loosened permissions. *)
LEMMA CapDriftInv == ASSUME CapCore, CA!Drift PROVE CapCore'
<1>1. CapTyped' /\ CA!OnDisk' \subseteq CA!OnDisk
  BY DEF CA!Drift, CapCore, CapTyped, CA!File, CA!OnDisk
<1>2. CapTokensOnce'
  BY <1>1 DEF CA!Drift, CapCore, CapTokensOnce, CapPending
<1> QED BY <1>1, <1>2, CapOperatorStep DEF CA!Drift

(* A server loads the token on the disk, which is not withdrawn. *)
LEMMA CapServerStartInv ==
  ASSUME CapCore, NEW s \in Servers, NEW profile \in CA!Profiles, CA!ServerStart(s, profile)
  PROVE  CapCore'
<1>1. UNCHANGED <<capabilityFile, capabilityOp, issued, withdrawn, capabilityUse>>
  BY DEF CA!ServerStart
<1>2. CA!Loaded \in Tokens \cup {None} /\ (CA!Loaded # None => CA!Loaded \in CA!OnDisk)
  BY DEF CA!Loaded, CA!OnDisk, CapCore, CapTyped, CA!File
<1>3. CA!Loaded # None => CA!Loaded \notin withdrawn
  BY <1>2 DEF CapCore, CapTokensOnce
<1> DEFINE new == [up |-> TRUE, profile |-> profile, record |-> CA!Loaded, stale |-> withdrawn]
<1>4. \A r \in Servers : capabilityServer'[r] = IF r = s THEN new ELSE capabilityServer[r]
  BY DEF CA!ServerStart, CapCore, CapTyped
<1>5. CapTyped'
  BY <1>1, <1>2 DEF CA!ServerStart, CapCore, CapTyped
<1>6. \A r \in Servers : CapLoadedOnce(r)'
  BY <1>3, <1>4 DEF CA!ServerStart, CapCore, CapLoadedOnce
<1>7. CapTokensOnce'
  BY <1>1 DEF CapCore, CapTokensOnce, CapPending, CA!OnDisk
<1> QED BY <1>1, <1>5, <1>6, <1>7 DEF CapCore, CA!WithdrawnIsRefused, CA!ProfileRequired

(* A server ends. *)
LEMMA CapServerStopInv ==
  ASSUME CapCore, NEW s \in Servers, CA!ServerStop(s)
  PROVE  CapCore'
<1>1. UNCHANGED <<capabilityFile, capabilityOp, issued, withdrawn, capabilityUse>>
  BY DEF CA!ServerStop
<1>2. CapTyped'
  BY DEF CA!ServerStop, CapCore, CapTyped, CA!Off, CA!Profiles
<1>3. \A r \in Servers : capabilityServer'[r] = IF r = s THEN CA!Off ELSE capabilityServer[r]
  BY DEF CA!ServerStop, CapCore, CapTyped
<1>4. \A r \in Servers : CapLoadedOnce(r)'
  BY <1>3 DEF CapCore, CapLoadedOnce, CA!Off
<1>5. CapTokensOnce'
  BY <1>1 DEF CapCore, CapTokensOnce, CapPending, CA!OnDisk
<1> QED BY <1>1, <1>2, <1>4, <1>5 DEF CapCore, CA!WithdrawnIsRefused, CA!ProfileRequired

(* A decision: the token is the one loaded. *)
LEMMA CapAuthorizeInv ==
  ASSUME CapCore, NEW s \in Servers, NEW type \in CA!Types, NEW token \in Tokens \cup {None},
         CA!Authorize(s, type, token)
  PROVE  CapCore'
<1>1. UNCHANGED <<capabilityFile, capabilityOp, issued, withdrawn, failed, capabilityServer>>
  BY DEF CA!Authorize
<1>2. capabilityUse' = [token |-> token, type |-> type, profile |-> capabilityServer[s].profile,
              stale |-> token \in capabilityServer[s].stale]
  BY DEF CA!Authorize
<1>3. capabilityServer[s].record = token /\ capabilityServer[s].record # None
      /\ (CA!ProfileRequired(type) => capabilityServer[s].profile = "admin")
  BY DEF CA!Authorize, CA!Denial
<1>4. ~capabilityUse'.stale /\ (CA!ProfileRequired(capabilityUse'.type) => capabilityUse'.profile = "admin")
  BY <1>2, <1>3 DEF CapCore, CapLoadedOnce
<1>5. CapTyped' /\ CapTokensOnce' /\ \A r \in Servers : CapLoadedOnce(r)'
  BY <1>1 DEF CapCore, CapTyped, CapTokensOnce, CapPending, CA!OnDisk, CapLoadedOnce
<1> QED BY <1>4, <1>5 DEF CapCore, CA!WithdrawnIsRefused, CA!ProfileRequired

(* Every step keeps the invariant. *)
LEMMA CapNextInv == CapCore /\ [CA!Next]_(CA!vars) => CapCore'
<1> SUFFICES ASSUME CapCore, [CA!Next]_(CA!vars) PROVE CapCore'
  OBVIOUS
<1>1. ASSUME NEW o \in Operators, CA!GrantWrite(o) \/ CA!GrantRename(o) PROVE CapCore'
  BY <1>1, CapGrantWriteInv, CapGrantRenameInv
<1>2. ASSUME NEW o \in Operators,
             CA!GrantEnforce(o) \/ CA!RevokeLook(o) \/ CA!RevokeRemove(o) \/ CA!OperatorDies(o)
      PROVE  CapCore'
  BY <1>2, CapOtherOperatorInv
<1>3. CASE CA!Drift
  BY <1>3, CapDriftInv
<1>4. ASSUME NEW s \in Servers, NEW profile \in CA!Profiles, CA!ServerStart(s, profile) PROVE CapCore'
  BY <1>4, CapServerStartInv
<1>5. ASSUME NEW s \in Servers, CA!ServerStop(s) PROVE CapCore'
  BY <1>5, CapServerStopInv
<1>6. ASSUME NEW s \in Servers, NEW type \in CA!Types, NEW token \in Tokens \cup {None},
             CA!Authorize(s, type, token)
      PROVE  CapCore'
  BY <1>6, CapAuthorizeInv
<1>7. CASE UNCHANGED CA!vars
  BY <1>7 DEF CA!vars, CapCore, CapTyped, CapTokensOnce, CapPending, CA!OnDisk, CapLoadedOnce, CA!WithdrawnIsRefused,
     CA!ProfileRequired
<1> QED BY <1>1, <1>2, <1>3, <1>4, <1>5, <1>6, <1>7 DEF CA!Next

(* A grant that has written its token knows it. *)
CapNamed == \A o \in Operators : capabilityOp[o].step \in {"written", "renamed"} => capabilityOp[o].token \in Tokens

(* The inductive invariant. *)
CapInv == CA!TypeOK /\ CapNamed /\ CapCore

(* A token on its way keeps its name. *)
LEMMA CapNamedStep == CapInv /\ [CA!Next]_(CA!vars) => CapNamed'
<1> SUFFICES ASSUME CapInv, [CA!Next]_(CA!vars), NEW o \in Operators, capabilityOp'[o].step \in {"written", "renamed"}
             PROVE  capabilityOp'[o].token \in Tokens
  BY DEF CapNamed
<1>1. CASE UNCHANGED capabilityOp
  BY <1>1 DEF CapInv, CapNamed
<1>2. ASSUME NEW q \in Operators,
             CA!GrantWrite(q) \/ CA!GrantRename(q) \/ CA!GrantEnforce(q)
               \/ CA!RevokeLook(q) \/ CA!RevokeRemove(q) \/ CA!OperatorDies(q)
      PROVE  capabilityOp'[o].token \in Tokens
  BY <1>2 DEF CapInv, CapNamed, CA!TypeOK, CA!Idle,
     CA!GrantWrite, CA!GrantRename, CA!GrantEnforce, CA!RevokeLook, CA!RevokeRemove, CA!OperatorDies
<1> QED BY <1>1, <1>2 DEF CA!Next, CA!vars, CA!Drift, CA!ServerStart, CA!ServerStop, CA!Authorize

(* Every variable keeps its type. *)
LEMMA CapTypeStep == CapInv /\ [CA!Next]_(CA!vars) => CapInv'
<1> SUFFICES ASSUME CapInv, [CA!Next]_(CA!vars) PROVE CA!TypeOK' /\ CapNamed' /\ CapCore'
  BY DEF CapInv
<1>1. CapTyped' /\ CapCore'
  BY CapNextInv DEF CapCore, CapInv
<1>2. failed' \subseteq Tokens /\ capabilityUse' \in [token : Tokens, type : CA!Types, profile : CA!Profiles, stale : BOOLEAN] \cup {None}
  <2>1. CASE UNCHANGED <<failed, capabilityUse>>
    BY <2>1 DEF CA!TypeOK, CapInv
  <2>2. ASSUME NEW o \in Operators, CA!GrantRename(o) \/ CA!GrantEnforce(o)
        PROVE  UNCHANGED capabilityUse /\ failed' \subseteq Tokens
    <3>1. capabilityOp[o].token \in Tokens
      BY <2>2 DEF CapInv, CapNamed, CA!GrantRename, CA!GrantEnforce
    <3> QED BY <2>2, <3>1 DEF CA!GrantRename, CA!GrantEnforce, CA!TypeOK, CapInv
  <2>3. ASSUME NEW s \in Servers, NEW type \in CA!Types, NEW token \in Tokens \cup {None},
               CA!Authorize(s, type, token)
        PROVE  UNCHANGED failed /\ capabilityUse' \in [token : Tokens, type : CA!Types, profile : CA!Profiles, stale : BOOLEAN]
    BY <2>3 DEF CA!Authorize, CA!Denial, CapInv, CA!TypeOK
  <2> QED BY <2>1, <2>2, <2>3
          DEF CA!Next, CA!vars, CA!GrantWrite, CA!RevokeLook, CA!RevokeRemove, CA!OperatorDies, CA!Drift, CA!ServerStart, CA!ServerStop, CapInv, CA!TypeOK
<1> QED BY <1>1, <1>2, CapNamedStep DEF CapTyped, CA!TypeOK

(* Nothing is typed otherwise at first. *)
LEMMA CapTypeInit == CA!Init => CapInv
BY CapInitInv DEF CA!Init, CapInv, CA!TypeOK, CapNamed, CA!Idle, CA!Off, CA!File, CA!Profiles

(* What the run checks follows. *)
LEMMA CapSound == CapCore => CA!WithdrawnIsRefused /\ CA!PrivilegeNeedsProfile
BY DEF CapCore, CA!PrivilegeNeedsProfile, CapLoadedOnce, CA!MaxSensitivity

(* A step of the whole is one of this part, if it is its turn. *)
LEMMA CapTurn ==
  ASSUME [Next]_vars
  PROVE  part' = part /\ (part = "capability" => [CA!Next]_(CA!vars))
<1>1. part' = part
  BY DEF Next, vars, Only
<1>2. part = "capability" => [CA!Next]_(CA!vars)
  BY DEF Next, vars, Only, CA!vars, capabilityVars
<1> QED BY <1>1, <1>2

(* So the invariant holds whenever this part moves. *)
LEMMA CapAlways == Spec => [](part = "capability" => CapInv)
<1>1. Init => (part = "capability" => CapInv)
  BY CapTypeInit DEF Init
<1>2. (part = "capability" => CapInv) /\ [Next]_vars => (part = "capability" => CapInv)'
  BY CapTypeStep, CapTurn
<1> QED BY <1>1, <1>2, PTL DEF Spec

-----------------------------------------------------------------------------
(* Migrations: MG in Services. *)

(* What the proof takes of the constants. *)
MigrateBounds == LastVersion \in Nat /\ Started \subseteq 1..LastVersion

(* The records of the tables and of the processes. *)
MigrateAudits == [form : {"none", "checked", "free"}, rows : BOOLEAN]
MigrateAsides == [form : {"none", "free"}, rows : BOOLEAN]
MigratePlans == [form : {"none", "v6", "v11"}, rows : BOOLEAN, applied : BOOLEAN]
MigrateWorks == [at : MG!Steps, to : 0..LastVersion]

(* The steps in which one process holds the audit table aside. *)
MigrateRebuilding == {"copy", "drop", "rename"}

(* A process that migrates has a version to migrate to; the one that rebuilds  *)
(* the audit has its table aside, from the copy on with the events.            *)
MigrateProcOK(p) ==
  /\ proc[p].at = "next" => proc[p].to # 0
  /\ proc[p].at \in {"create", "bump"} \cup MigrateRebuilding => proc[p].to = 2
  /\ proc[p].at \in MigrateRebuilding => aside.form = "free"
  /\ proc[p].at \in {"drop", "rename"} => aside.rows = TRUE

(* One process at a time does. *)
MigrateAloneAside == \A p, q \in Procs : proc[p].at \in MigrateRebuilding /\ proc[q].at \in MigrateRebuilding => p = q

(* Only a table that is there holds rows, only a new one applied results. *)
MigrateTablesHold ==
  /\ audit.form = "none" => audit.rows = FALSE
  /\ aside.form = "none" => aside.rows = FALSE
  /\ audit.rows = TRUE \/ aside.rows = TRUE
  /\ plans.applied = TRUE => plans.form = "v11" /\ plans.rows = TRUE

(* The inductive invariant. *)
MigrateInv == MG!TypeOK /\ MigrateAloneAside /\ MigrateTablesHold /\ \A p \in Procs : MigrateProcOK(p)

(* The types of the variables, one by one. *)
LEMMA MigrateTypesOf ==
  ASSUME MG!TypeOK
  PROVE  audit \in MigrateAudits /\ aside \in MigrateAsides /\ plans \in MigratePlans /\ proc \in [Procs -> MigrateWorks]
         /\ schemaVersion \in 1..LastVersion /\ schemaItems \in BOOLEAN /\ ambiguous \in BOOLEAN
BY DEF MG!TypeOK, MigrateAudits, MigrateAsides, MigratePlans, MigrateWorks

(* The types of the variables after a step. *)
LEMMA MigrateTypesNext ==
  ASSUME audit' \in MigrateAudits, aside' \in MigrateAsides, plans' \in MigratePlans, proc' \in [Procs -> MigrateWorks],
         schemaVersion' \in 1..LastVersion, schemaItems' \in BOOLEAN, ambiguous' \in BOOLEAN
  PROVE  MG!TypeOK'
BY DEF MG!TypeOK, MigrateAudits, MigrateAsides, MigratePlans, MigrateWorks

(* Records put together from values of their fields. *)
LEMMA MigrateTableTypes ==
  /\ \A f \in {"none", "checked", "free"}, r \in BOOLEAN : [form |-> f, rows |-> r] \in MigrateAudits
  /\ \A f \in {"none", "free"}, r \in BOOLEAN : [form |-> f, rows |-> r] \in MigrateAsides
  /\ \A f \in {"none", "v6", "v11"}, r \in BOOLEAN, a \in BOOLEAN : [form |-> f, rows |-> r, applied |-> a] \in MigratePlans
  /\ \A s \in MG!Steps, t \in 0..LastVersion : [at |-> s, to |-> t] \in MigrateWorks
<1>1. \A f \in {"none", "checked", "free"}, r \in BOOLEAN : [form |-> f, rows |-> r] \in MigrateAudits
  BY Zenon DEF MigrateAudits
<1>2. \A f \in {"none", "free"}, r \in BOOLEAN : [form |-> f, rows |-> r] \in MigrateAsides
  BY Zenon DEF MigrateAsides
<1>3. \A f \in {"none", "v6", "v11"}, r \in BOOLEAN, a \in BOOLEAN : [form |-> f, rows |-> r, applied |-> a] \in MigratePlans
  BY Zenon DEF MigratePlans
<1>4. \A s \in MG!Steps, t \in 0..LastVersion : [at |-> s, to |-> t] \in MigrateWorks
  BY DEF MigrateWorks
<1> QED BY <1>1, <1>2, <1>3, <1>4

(* A table that is not there. *)
LEMMA MigrateEmpty == MG!NoTable \in MigrateAudits /\ MG!NoTable \in MigrateAsides /\ MG!NoTable.form = "none" /\ MG!NoTable.rows = FALSE
BY MigrateTableTypes DEF MG!NoTable

(* A process at rest. *)
LEMMA MigrateIdleType == ASSUME MigrateBounds PROVE MG!Idle \in MigrateWorks /\ MG!Idle.at = "idle"
BY DEF MG!Idle, MigrateWorks, MG!Steps, MigrateBounds

(* It holds at first. *)
LEMMA MigrateTypeInit == ASSUME MigrateBounds PROVE MG!Init => MigrateInv
<1> SUFFICES ASSUME MG!Init PROVE MigrateInv
  OBVIOUS
<1>1. schemaVersion \in 1..LastVersion /\ schemaVersion \in Nat
  BY DEF MG!Init, MigrateBounds
<1> PICK f \in {"checked", "free"} : f = IF schemaVersion = 1 THEN "checked" ELSE "free"
  OBVIOUS
<1>2. audit = [form |-> f, rows |-> TRUE] /\ audit.form # "none" /\ audit.rows = TRUE
  BY DEF MG!Init
<1>3. audit \in MigrateAudits
  BY <1>2, MigrateTableTypes
<1>4. PICK r \in BOOLEAN : r = (schemaVersion >= 6)
  <2>1. CASE schemaVersion >= 6
    <3>1. (schemaVersion >= 6) = TRUE
      BY <2>1
    <3> QED BY <3>1, Zenon
  <2>2. CASE ~(schemaVersion >= 6)
    <3>1. (schemaVersion >= 6) = FALSE
      BY <2>2
    <3> QED BY <3>1, Zenon
  <2> QED BY <2>1, <2>2
<1> PICK g \in {"none", "v6", "v11"} : g = IF schemaVersion < 6 THEN "none" ELSE IF schemaVersion < 11 THEN "v6" ELSE "v11"
  OBVIOUS
<1>5. plans = [form |-> g, rows |-> r, applied |-> FALSE] /\ schemaItems = r
  BY <1>4, Zenon DEF MG!Init
<1>6. plans \in MigratePlans /\ plans.applied = FALSE
  BY <1>4, <1>5, MigrateTableTypes
<1>7. proc \in [Procs -> MigrateWorks] /\ \A p \in Procs : proc[p].at = "idle"
  BY MigrateIdleType DEF MG!Init
<1>8. MG!TypeOK
  BY <1>1, <1>3, <1>4, <1>5, <1>6, <1>7, MigrateEmpty DEF MG!Init, MG!TypeOK, MigrateAudits, MigrateAsides, MigratePlans, MigrateWorks
<1>9. MigrateTablesHold
  BY <1>2, <1>6, MigrateEmpty DEF MG!Init, MigrateTablesHold
<1>10. MigrateAloneAside /\ \A p \in Procs : MigrateProcOK(p)
  BY <1>7 DEF MigrateAloneAside, MigrateProcOK, MigrateRebuilding
<1> QED BY <1>8, <1>9, <1>10 DEF MigrateInv

(* A step of a process that leaves the table aside as it is. *)
LEMMA MigrateMove ==
  ASSUME MigrateBounds, MigrateInv, NEW p \in Procs, NEW k \in MigrateWorks, proc' = [proc EXCEPT ![p] = k],
         audit' \in MigrateAudits, plans' \in MigratePlans, schemaVersion' \in 1..LastVersion, schemaItems' \in BOOLEAN, UNCHANGED <<aside, ambiguous>>,
         audit'.form = "none" => audit'.rows = FALSE,
         audit'.rows = TRUE \/ aside.rows = TRUE,
         plans'.applied = TRUE => plans'.form = "v11" /\ plans'.rows = TRUE,
         k.at = "next" => k.to # 0,
         k.at \in {"create", "bump"} \cup MigrateRebuilding => k.to = 2,
         k.at \in MigrateRebuilding => proc[p].at \in MigrateRebuilding,
         k.at \in {"drop", "rename"} => aside.rows = TRUE
  PROVE  MigrateInv'
<1>0. proc \in [Procs -> MigrateWorks] /\ aside \in MigrateAsides /\ ambiguous \in BOOLEAN
  BY MigrateTypesOf DEF MigrateInv
<1>1. proc' \in [Procs -> MigrateWorks] /\ \A q \in Procs : proc'[q] = IF q = p THEN k ELSE proc[q]
  BY <1>0
<1>2. MG!TypeOK'
  BY <1>0, <1>1, MigrateTypesNext
<1>3. MigrateAloneAside'
  BY <1>1 DEF MigrateInv, MigrateAloneAside
<1>4. MigrateTablesHold'
  BY DEF MigrateInv, MigrateTablesHold
<1>5. ASSUME NEW q \in Procs PROVE MigrateProcOK(q)'
  <2>1. CASE q = p
    BY <1>1, <2>1 DEF MigrateInv, MigrateProcOK
  <2>2. CASE q # p
    BY <1>1, <2>2 DEF MigrateInv, MigrateProcOK
  <2> QED BY <2>1, <2>2
<1> QED BY <1>2, <1>3, <1>4, <1>5 DEF MigrateInv

(* ... and every table. *)
LEMMA MigrateMoveOnly ==
  ASSUME MigrateBounds, MigrateInv, NEW p \in Procs, NEW k \in MigrateWorks, proc' = [proc EXCEPT ![p] = k],
         schemaVersion' \in 1..LastVersion, UNCHANGED <<audit, aside, plans, schemaItems, ambiguous>>,
         k.at = "next" => k.to # 0,
         k.at \in {"create", "bump"} \cup MigrateRebuilding => k.to = 2,
         k.at \in MigrateRebuilding => proc[p].at \in MigrateRebuilding,
         k.at \in {"drop", "rename"} => aside.rows = TRUE
  PROVE  MigrateInv' /\ MG!KeepsApplied
<1>0. audit \in MigrateAudits /\ plans \in MigratePlans /\ schemaItems \in BOOLEAN /\ MigrateTablesHold
  BY MigrateTypesOf DEF MigrateInv
<1>1. MigrateInv'
  BY <1>0, MigrateMove DEF MigrateTablesHold
<1> QED BY <1>0, <1>1 DEF MG!KeepsApplied, MigrateTablesHold

(* A process that has migrated goes on to the next version or is done. *)
LEMMA MigrateGoes ==
  ASSUME MigrateBounds, NEW p \in Procs, NEW to \in 1..LastVersion, MG!Migrated(p, to)
  PROVE  /\ schemaVersion' \in 1..LastVersion
         /\ \E k \in MigrateWorks : proc' = [proc EXCEPT ![p] = k] /\ k.at \in {"idle", "next"} /\ (k.at = "next" => k.to # 0)
<1>1. CASE to = LastVersion
  <2>1. proc' = [proc EXCEPT ![p] = MG!Idle] /\ schemaVersion' = to
    BY <1>1 DEF MG!Migrated, MG!Throws
  <2> QED BY <2>1, MigrateIdleType
<1>2. CASE to # LastVersion
  <2> PICK n : n = to + 1
    OBVIOUS
  <2>1. n \in 0..LastVersion /\ n # 0
    BY <1>2 DEF MigrateBounds
  <2> PICK k : k = [at |-> "next", to |-> n]
    OBVIOUS
  <2>2. k \in MigrateWorks
    BY <2>1, MigrateTableTypes DEF MG!Steps
  <2>3. proc' = [proc EXCEPT ![p] = k] /\ schemaVersion' = to
    BY <1>2 DEF MG!Migrated, MG!Goes
  <2> QED BY <2>1, <2>2, <2>3
<1> QED BY <1>1, <1>2

(* Nothing else changes then. *)
LEMMA MigrateGoesOnly ==
  ASSUME MigrateBounds, MigrateInv, NEW p \in Procs, NEW to \in 1..LastVersion, MG!Migrated(p, to), UNCHANGED <<audit, aside, plans, schemaItems, ambiguous>>
  PROVE  MigrateInv' /\ MG!KeepsApplied
<1>1. PICK k \in MigrateWorks : proc' = [proc EXCEPT ![p] = k] /\ k.at \in {"idle", "next"} /\ (k.at = "next" => k.to # 0)
  BY MigrateGoes
<1>2. schemaVersion' \in 1..LastVersion
  BY MigrateGoes
<1> QED BY <1>1, <1>2, MigrateMoveOnly DEF MigrateRebuilding

(* A process that throws leaves the tables. *)
LEMMA MigrateThrowsOnly ==
  ASSUME MigrateBounds, MigrateInv, NEW p \in Procs, MG!Throws(p), UNCHANGED <<schemaVersion, audit, aside, plans, schemaItems, ambiguous>>
  PROVE  MigrateInv' /\ MG!KeepsApplied
<1>1. proc' = [proc EXCEPT ![p] = MG!Idle] /\ schemaVersion' \in 1..LastVersion
  BY MigrateTypesOf DEF MG!Throws, MigrateInv
<1> QED BY <1>1, MigrateIdleType, MigrateMoveOnly DEF MigrateRebuilding

(* A process that goes on has a version to go to. *)
LEMMA MigrateVersions ==
  ASSUME MigrateBounds, MigrateInv, NEW p \in Procs, proc[p].at = "next" \/ proc[p].at = "bump" PROVE proc[p].to \in 1..LastVersion
<1>1. proc[p] \in MigrateWorks /\ proc[p].to # 0
  BY MigrateTypesOf DEF MigrateInv, MigrateProcOK
<1>2. proc[p].to \in 0..LastVersion
  BY <1>1 DEF MigrateWorks
<1> QED BY <1>1, <1>2 DEF MigrateBounds

(* A process opens the file and reads its version. *)
LEMMA MigrateOpensKeep ==
  ASSUME MigrateBounds, MigrateInv, NEW p \in Procs, MG!Open(p) \/ MG!ReadVersion(p) PROVE MigrateInv' /\ MG!KeepsApplied
<1>0. audit \in MigrateAudits /\ plans \in MigratePlans /\ schemaVersion \in 1..LastVersion /\ schemaItems \in BOOLEAN /\ MigrateTablesHold
  BY MigrateTypesOf DEF MigrateInv
<1>1. CASE MG!Open(p)
  <2> PICK k : k = [at |-> "read", to |-> 0]
    OBVIOUS
  <2>1. k \in MigrateWorks
    BY MigrateTableTypes DEF MG!Steps, MigrateBounds
  <2>2. proc' = [proc EXCEPT ![p] = k] /\ UNCHANGED <<schemaVersion, aside, plans, schemaItems, ambiguous>>
    BY <1>1 DEF MG!Open, MG!Goes
  <2> PICK t : t = [form |-> "free", rows |-> FALSE]
    OBVIOUS
  <2>3. t \in MigrateAudits
    BY MigrateTableTypes
  <2>4. audit' = IF audit.form = "none" THEN t ELSE audit
    BY <1>1 DEF MG!Open
  <2>5. audit' \in MigrateAudits /\ (audit'.form = "none" => audit'.rows = FALSE) /\ (audit'.rows = TRUE \/ aside.rows = TRUE)
    BY <1>0, <2>3, <2>4 DEF MigrateTablesHold
  <2>6. MigrateInv'
    BY <1>0, <2>1, <2>2, <2>5, MigrateMove DEF MigrateTablesHold, MigrateRebuilding
  <2> QED BY <1>0, <2>2, <2>6 DEF MG!KeepsApplied, MigrateTablesHold
<1>2. CASE MG!ReadVersion(p) /\ schemaVersion >= LastVersion
  BY <1>2, MigrateThrowsOnly DEF MG!ReadVersion
<1>3. CASE MG!ReadVersion(p) /\ ~(schemaVersion >= LastVersion)
  <2> PICK n : n = schemaVersion + 1
    OBVIOUS
  <2>1. n \in 0..LastVersion /\ n # 0
    BY <1>0, <1>3 DEF MigrateBounds
  <2> PICK k : k = [at |-> "next", to |-> n]
    OBVIOUS
  <2>2. k \in MigrateWorks
    BY <2>1, MigrateTableTypes DEF MG!Steps
  <2>3. proc' = [proc EXCEPT ![p] = k] /\ UNCHANGED <<schemaVersion, audit, aside, plans, schemaItems, ambiguous>>
    BY <1>3 DEF MG!ReadVersion, MG!Goes
  <2> QED BY <1>0, <2>1, <2>2, <2>3, MigrateMoveOnly DEF MigrateRebuilding
<1> QED BY <1>1, <1>2, <1>3

(* The audit table is to be rebuilt, and its copy created. *)
LEMMA MigrateRebuildsKeep ==
  ASSUME MigrateBounds, MigrateInv, NEW p \in Procs, MG!RebuildAudit(p) \/ MG!CreateAside(p) PROVE MigrateInv' /\ MG!KeepsApplied
<1>0. /\ audit \in MigrateAudits /\ aside \in MigrateAsides /\ plans \in MigratePlans /\ schemaVersion \in 1..LastVersion /\ schemaItems \in BOOLEAN
      /\ ambiguous \in BOOLEAN /\ proc \in [Procs -> MigrateWorks] /\ MigrateTablesHold /\ proc[p] \in MigrateWorks
  BY MigrateTypesOf DEF MigrateInv
<1>a. 2 \in 0..LastVersion /\ 2 \in 1..LastVersion
  BY <1>0 DEF MG!RebuildAudit, MG!CreateAside, MigrateInv, MigrateProcOK, MigrateWorks, MigrateBounds
<1>1. CASE MG!RebuildAudit(p) /\ audit.form # "checked"
  BY <1>1, <1>a, MigrateGoesOnly DEF MG!RebuildAudit
<1>2. CASE MG!RebuildAudit(p) /\ audit.form = "checked"
  <2> PICK k : k = [at |-> "create", to |-> 2]
    OBVIOUS
  <2>1. k \in MigrateWorks
    BY <1>a, MigrateTableTypes DEF MG!Steps
  <2>2. proc' = [proc EXCEPT ![p] = k] /\ UNCHANGED <<schemaVersion, audit, aside, plans, schemaItems, ambiguous>>
    BY <1>2 DEF MG!RebuildAudit, MG!Goes
  <2> QED BY <1>0, <2>1, <2>2, MigrateMoveOnly DEF MigrateRebuilding
<1>3. CASE MG!CreateAside(p) /\ aside.form # "none"
  BY <1>3, MigrateThrowsOnly DEF MG!CreateAside
<1>4. CASE MG!CreateAside(p) /\ aside.form = "none"
  <2> PICK k : k = [at |-> "copy", to |-> 2]
    OBVIOUS
  <2>1. k \in MigrateWorks
    BY <1>a, MigrateTableTypes DEF MG!Steps
  <2> PICK t : t = [form |-> "free", rows |-> FALSE]
    OBVIOUS
  <2>2. t \in MigrateAsides
    BY MigrateTableTypes
  <2>3. proc' = [proc EXCEPT ![p] = k] /\ aside' = t /\ UNCHANGED <<schemaVersion, audit, plans, schemaItems, ambiguous>>
    BY <1>4 DEF MG!CreateAside, MG!Goes
  <2>4. proc' \in [Procs -> MigrateWorks] /\ \A q \in Procs : proc'[q] = IF q = p THEN k ELSE proc[q]
    BY <1>0, <2>1, <2>3
  <2>5. MG!TypeOK'
    BY <1>0, <2>2, <2>3, <2>4, MigrateTypesNext
  <2>6. \A q \in Procs : proc[q].at \notin MigrateRebuilding
    BY <1>4 DEF MigrateInv, MigrateProcOK
  <2>7. MigrateAloneAside'
    BY <2>4, <2>6 DEF MigrateAloneAside
  <2>8. MigrateTablesHold'
    BY <1>0, <1>4, <2>3 DEF MigrateTablesHold
  <2>9. ASSUME NEW q \in Procs PROVE MigrateProcOK(q)'
    <3>1. CASE q = p
      BY <2>3, <2>4, <3>1 DEF MigrateProcOK
    <3>2. CASE q # p
      BY <2>3, <2>4, <2>6, <3>2 DEF MigrateInv, MigrateProcOK, MigrateRebuilding
    <3> QED BY <3>1, <3>2
  <2>10. MG!KeepsApplied
    BY <1>0, <2>3 DEF MG!KeepsApplied, MigrateTablesHold
  <2> QED BY <2>5, <2>7, <2>8, <2>9, <2>10 DEF MigrateInv
<1> QED BY <1>1, <1>2, <1>3, <1>4

(* The events are copied. *)
LEMMA MigrateCopyKeeps ==
  ASSUME MigrateBounds, MigrateInv, NEW p \in Procs, MG!Copy(p) PROVE MigrateInv' /\ MG!KeepsApplied
<1>0. /\ audit \in MigrateAudits /\ aside \in MigrateAsides /\ plans \in MigratePlans /\ schemaVersion \in 1..LastVersion /\ schemaItems \in BOOLEAN
      /\ ambiguous \in BOOLEAN /\ proc \in [Procs -> MigrateWorks] /\ MigrateTablesHold /\ proc[p] \in MigrateWorks
  BY MigrateTypesOf DEF MigrateInv
<1>a. 2 \in 0..LastVersion /\ aside.form = "free"
  BY <1>0 DEF MG!Copy, MigrateInv, MigrateProcOK, MigrateWorks, MigrateRebuilding
<1> PICK k : k = [at |-> "drop", to |-> 2]
  OBVIOUS
<1>1. k \in MigrateWorks
  BY <1>a, MigrateTableTypes DEF MG!Steps
<1> PICK t : t = [form |-> "free", rows |-> TRUE]
  OBVIOUS
<1>2. t \in MigrateAsides
  BY MigrateTableTypes
<1>b. (aside.rows \/ audit.rows) = TRUE
  BY <1>0 DEF MigrateTablesHold
<1>3. aside' = t
  <2>1. aside' = [aside EXCEPT !.rows = TRUE]
    BY <1>b, Zenon DEF MG!Copy
  <2> PICK n : n = [aside EXCEPT !.rows = TRUE]
    OBVIOUS
  <2>2. n = [form |-> aside.form, rows |-> TRUE]
    BY <1>0 DEF MigrateAsides
  <2> QED BY <1>a, <2>1, <2>2
<1>4. proc' = [proc EXCEPT ![p] = k] /\ UNCHANGED <<schemaVersion, audit, plans, schemaItems, ambiguous>>
  BY DEF MG!Copy, MG!Goes
<1>5. proc' \in [Procs -> MigrateWorks] /\ \A q \in Procs : proc'[q] = IF q = p THEN k ELSE proc[q]
  BY <1>0, <1>1, <1>4
<1>6. MG!TypeOK'
  BY <1>0, <1>2, <1>3, <1>4, <1>5, MigrateTypesNext
<1>7. MigrateAloneAside'
  BY <1>5 DEF MG!Copy, MigrateInv, MigrateAloneAside, MigrateRebuilding
<1>8. MigrateTablesHold'
  BY <1>0, <1>3, <1>4 DEF MigrateTablesHold
<1>9. ASSUME NEW q \in Procs PROVE MigrateProcOK(q)'
  <2>1. CASE q = p
    BY <1>3, <1>5, <2>1 DEF MigrateProcOK
  <2>2. CASE q # p
    BY <1>3, <1>5, <2>2 DEF MigrateInv, MigrateProcOK
  <2> QED BY <2>1, <2>2
<1>10. MG!KeepsApplied
  BY <1>0, <1>4 DEF MG!KeepsApplied, MigrateTablesHold
<1> QED BY <1>6, <1>7, <1>8, <1>9, <1>10 DEF MigrateInv

(* The old table is dropped. *)
LEMMA MigrateDropKeeps ==
  ASSUME MigrateBounds, MigrateInv, NEW p \in Procs, MG!Drop(p) PROVE MigrateInv' /\ MG!KeepsApplied
<1>0. /\ plans \in MigratePlans /\ schemaVersion \in 1..LastVersion /\ schemaItems \in BOOLEAN /\ proc[p] \in MigrateWorks /\ MigrateTablesHold
      /\ aside.rows = TRUE /\ proc[p].at \in MigrateRebuilding
  BY MigrateTypesOf DEF MigrateInv, MG!Drop, MigrateProcOK, MigrateRebuilding
<1>a. 2 \in 0..LastVersion
  BY <1>0 DEF MigrateInv, MigrateProcOK, MigrateWorks
<1> PICK k : k = [at |-> "rename", to |-> 2]
  OBVIOUS
<1>1. k \in MigrateWorks
  BY <1>a, MigrateTableTypes DEF MG!Steps
<1>2. proc' = [proc EXCEPT ![p] = k] /\ audit' = MG!NoTable /\ UNCHANGED <<schemaVersion, aside, plans, schemaItems, ambiguous>>
  BY DEF MG!Drop, MG!Goes
<1>3. MigrateInv'
  BY <1>0, <1>1, <1>2, MigrateEmpty, MigrateMove DEF MigrateTablesHold
<1> QED BY <1>0, <1>2, <1>3 DEF MG!KeepsApplied, MigrateTablesHold

(* The copy is renamed. *)
LEMMA MigrateRenameKeeps ==
  ASSUME MigrateBounds, MigrateInv, NEW p \in Procs, MG!Rename(p) PROVE MigrateInv' /\ MG!KeepsApplied
<1>0. /\ audit \in MigrateAudits /\ aside \in MigrateAsides /\ plans \in MigratePlans /\ schemaVersion \in 1..LastVersion /\ schemaItems \in BOOLEAN
      /\ ambiguous \in BOOLEAN /\ proc \in [Procs -> MigrateWorks] /\ MigrateTablesHold /\ proc[p] \in MigrateWorks
  BY MigrateTypesOf DEF MigrateInv
<1>a. 2 \in 0..LastVersion /\ aside.rows = TRUE /\ aside.form = "free" /\ proc[p].at \in MigrateRebuilding
  BY <1>0 DEF MG!Rename, MigrateInv, MigrateProcOK, MigrateWorks, MigrateRebuilding
<1>b. CASE audit.form # "none"
  BY <1>b, MigrateThrowsOnly DEF MG!Rename
<1>c. CASE audit.form = "none"
  <2> PICK k : k = [at |-> "bump", to |-> 2]
    OBVIOUS
  <2>1. k \in MigrateWorks
    BY <1>a, MigrateTableTypes DEF MG!Steps
  <2>2. proc' = [proc EXCEPT ![p] = k] /\ audit' = aside /\ aside' = MG!NoTable /\ UNCHANGED <<schemaVersion, plans, schemaItems, ambiguous>>
    BY <1>c DEF MG!Rename, MG!Goes
  <2>3. proc' \in [Procs -> MigrateWorks] /\ \A q \in Procs : proc'[q] = IF q = p THEN k ELSE proc[q]
    BY <1>0, <2>1, <2>2
  <2> PICK r \in BOOLEAN : aside = [form |-> "free", rows |-> r]
    BY <1>0, <1>a, Zenon DEF MigrateAsides
  <2>4. aside \in MigrateAudits
    BY MigrateTableTypes
  <2>5. MG!TypeOK'
    BY <1>0, <2>2, <2>3, <2>4, MigrateEmpty, MigrateTypesNext
  <2>6. \A q \in Procs : q # p => proc[q].at \notin MigrateRebuilding
    BY <1>a DEF MigrateInv, MigrateAloneAside
  <2>7. MigrateAloneAside' /\ \A q \in Procs : MigrateProcOK(q)'
    <3>1. ASSUME NEW q \in Procs PROVE proc'[q].at \notin MigrateRebuilding
      BY <2>3, <2>6 DEF MigrateRebuilding
    <3>2. MigrateAloneAside'
      BY <3>1 DEF MigrateAloneAside
    <3>3. ASSUME NEW q \in Procs PROVE MigrateProcOK(q)'
      BY <2>3, <3>1 DEF MigrateInv, MigrateProcOK, MigrateRebuilding
    <3> QED BY <3>2, <3>3
  <2>8. MigrateTablesHold'
    BY <1>0, <1>a, <2>2, MigrateEmpty DEF MigrateTablesHold
  <2>9. MG!KeepsApplied
    BY <1>0, <2>2 DEF MG!KeepsApplied, MigrateTablesHold
  <2> QED BY <2>5, <2>7, <2>8, <2>9 DEF MigrateInv
<1> QED BY <1>b, <1>c

(* The plan table is added and rebuilt. *)
LEMMA MigratePlansKeep ==
  ASSUME MigrateBounds, MigrateInv, NEW p \in Procs, MG!AddPlans(p) \/ MG!RebuildPlans(p) PROVE MigrateInv' /\ MG!KeepsApplied
<1>0. /\ audit \in MigrateAudits /\ plans \in MigratePlans /\ plans.rows \in BOOLEAN /\ plans.applied \in BOOLEAN /\ schemaItems \in BOOLEAN /\ MigrateTablesHold
  BY MigrateTypesOf DEF MigrateInv, MigratePlans
<1> PICK to : to = proc[p].to
  OBVIOUS
<1>1. to \in 1..LastVersion
  BY MigrateVersions DEF MG!AddPlans, MG!RebuildPlans
<1>2. MG!Migrated(p, to) /\ UNCHANGED <<audit, aside, ambiguous>>
  BY DEF MG!AddPlans, MG!RebuildPlans
<1>3. PICK k \in MigrateWorks : proc' = [proc EXCEPT ![p] = k] /\ k.at \in {"idle", "next"} /\ (k.at = "next" => k.to # 0)
  BY <1>1, <1>2, MigrateGoes
<1>4. schemaVersion' \in 1..LastVersion
  BY <1>1, <1>2, MigrateGoes
<1>5. schemaItems' \in BOOLEAN
  <2>1. schemaItems' = schemaItems \/ schemaItems' = (schemaItems /\ ~MG!RebuildsPlans)
    BY DEF MG!AddPlans, MG!RebuildPlans
  <2> QED BY <1>0, <2>1, Zenon
<1>6. plans' \in MigratePlans /\ (plans' = plans \/ (plans.form # "v11" /\ plans'.applied = FALSE) \/ (plans.form # "v11" /\ plans'.applied = plans.applied))
  <2>1. CASE MG!AddPlans(p) /\ plans.form = "none"
    <3>1. plans' = [plans EXCEPT !.form = "v6"]
      BY <2>1 DEF MG!AddPlans
    <3>2. plans' = [form |-> "v6", rows |-> plans.rows, applied |-> plans.applied]
      BY <1>0, <3>1 DEF MigratePlans
    <3>3. plans' \in MigratePlans
      BY <1>0, <3>2, MigrateTableTypes
    <3> QED BY <2>1, <3>2, <3>3
  <2>2. CASE MG!RebuildPlans(p) /\ MG!RebuildsPlans
    <3>1. plans' = [plans EXCEPT !.form = "v11", !.applied = FALSE]
      BY <2>2 DEF MG!RebuildPlans
    <3>2. plans' = [form |-> "v11", rows |-> plans.rows, applied |-> FALSE]
      BY <1>0, <3>1 DEF MigratePlans
    <3>3. plans' \in MigratePlans
      BY <1>0, <3>2, MigrateTableTypes
    <3> QED BY <2>2, <3>2, <3>3 DEF MG!RebuildsPlans
  <2>3. CASE plans' = plans
    BY <1>0, <2>3
  <2> QED BY <2>1, <2>2, <2>3 DEF MG!AddPlans, MG!RebuildPlans
<1>7. plans'.applied = TRUE => plans'.form = "v11" /\ plans'.rows = TRUE
  BY <1>0, <1>6 DEF MigrateTablesHold
<1>8. MigrateInv'
  BY <1>0, <1>2, <1>3, <1>4, <1>5, <1>6, <1>7, MigrateMove DEF MigrateTablesHold, MigrateRebuilding
<1>9. plans.applied = TRUE => plans'.applied = TRUE /\ plans'.rows = TRUE
  BY <1>0, <1>6 DEF MigrateTablesHold
<1>10. MG!KeepsApplied
  <2>1. plans.applied => plans.applied = TRUE
    BY <1>0
  <2> QED BY <1>9, <2>1 DEF MG!KeepsApplied
<1> QED BY <1>8, <1>10

(* The other migrations, and a crash. *)
LEMMA MigrateOthersKeep ==
  ASSUME MigrateBounds, MigrateInv, NEW p \in Procs, MG!Bump(p) \/ MG!Backfill(p) \/ MG!AddTables(p) \/ MG!Crash(p) PROVE MigrateInv' /\ MG!KeepsApplied
<1>1. CASE MG!Bump(p)
  <2>1. 2 \in 1..LastVersion
    BY <1>1, MigrateVersions DEF MG!Bump, MigrateInv, MigrateProcOK
  <2> QED BY <1>1, <2>1, MigrateGoesOnly DEF MG!Bump
<1>2. CASE MG!Backfill(p)
  <2>1. 12 \in 1..LastVersion
    BY <1>2, MigrateVersions DEF MG!Backfill
  <2> QED BY <1>2, <2>1, MigrateGoesOnly, MigrateThrowsOnly DEF MG!Backfill
<1>3. CASE MG!AddTables(p)
  <2>1. proc[p].to \in 1..LastVersion
    BY <1>3, MigrateVersions DEF MG!AddTables
  <2> QED BY <1>3, <2>1, MigrateGoesOnly DEF MG!AddTables
<1>4. CASE MG!Crash(p)
  BY <1>4, MigrateThrowsOnly DEF MG!Crash
<1> QED BY <1>1, <1>2, <1>3, <1>4

(* What happens beside the migrations. *)
LEMMA MigrateBetweenKeep ==
  ASSUME MigrateBounds, MigrateInv, MG!ApplyPlan \/ MG!Disambiguate \/ UNCHANGED MG!vars PROVE MigrateInv' /\ MG!KeepsApplied
<1>0. /\ audit \in MigrateAudits /\ aside \in MigrateAsides /\ plans \in MigratePlans /\ schemaVersion \in 1..LastVersion /\ schemaItems \in BOOLEAN
      /\ ambiguous \in BOOLEAN /\ proc \in [Procs -> MigrateWorks] /\ MigrateTablesHold
  BY MigrateTypesOf DEF MigrateInv
<1>1. UNCHANGED <<schemaVersion, audit, aside, schemaItems, proc>>
  BY DEF MG!ApplyPlan, MG!Disambiguate, MG!vars
<1>2. ambiguous' \in BOOLEAN
  BY <1>0 DEF MG!ApplyPlan, MG!Disambiguate, MG!vars
<1>3. plans' \in MigratePlans /\ (plans'.applied = TRUE => plans'.form = "v11" /\ plans'.rows = TRUE) /\ (plans.applied = TRUE => plans'.applied = TRUE)
  <2>1. CASE MG!ApplyPlan
    <3>1. plans.rows = TRUE /\ plans.form = "v11"
      BY <1>0, <2>1 DEF MG!ApplyPlan, MigratePlans
    <3>2. plans' = [form |-> "v11", rows |-> TRUE, applied |-> TRUE]
      BY <1>0, <2>1, <3>1 DEF MG!ApplyPlan, MigratePlans
    <3>3. plans' \in MigratePlans
      BY <3>2, MigrateTableTypes
    <3> QED BY <3>2, <3>3
  <2>2. CASE MG!Disambiguate \/ UNCHANGED MG!vars
    <3>1. plans' = plans
      BY <2>2 DEF MG!Disambiguate, MG!vars
    <3> QED BY <1>0, <3>1 DEF MigrateTablesHold
  <2> QED BY <2>1, <2>2
<1>4. MG!TypeOK'
  BY <1>0, <1>1, <1>2, <1>3, MigrateTypesNext
<1>5. MigrateTablesHold'
  BY <1>0, <1>1, <1>3 DEF MigrateTablesHold
<1>6. MigrateAloneAside' /\ \A p \in Procs : MigrateProcOK(p)'
  BY <1>1 DEF MigrateInv, MigrateAloneAside, MigrateProcOK
<1>7. MG!KeepsApplied
  <2>1. plans.applied => plans.applied = TRUE
    BY <1>0 DEF MigratePlans
  <2> QED BY <1>3, <2>1 DEF MG!KeepsApplied
<1> QED BY <1>4, <1>5, <1>6, <1>7 DEF MigrateInv

(* So every step keeps the invariant. *)
LEMMA MigrateNextKeeps == ASSUME MigrateBounds, MigrateInv, [MG!Next]_(MG!vars) PROVE MigrateInv' /\ MG!KeepsApplied
<1>1. ASSUME NEW p \in Procs,
             \/ MG!Open(p) \/ MG!ReadVersion(p) \/ MG!RebuildAudit(p) \/ MG!CreateAside(p) \/ MG!Copy(p)
             \/ MG!Drop(p) \/ MG!Rename(p) \/ MG!Bump(p) \/ MG!AddPlans(p) \/ MG!RebuildPlans(p)
             \/ MG!Backfill(p) \/ MG!AddTables(p) \/ MG!Crash(p)
      PROVE  MigrateInv' /\ MG!KeepsApplied
  BY <1>1, MigrateOpensKeep, MigrateRebuildsKeep, MigrateCopyKeeps, MigrateDropKeeps, MigrateRenameKeeps, MigratePlansKeep, MigrateOthersKeep
<1> QED BY <1>1, MigrateBetweenKeep DEF MG!Next

(* What the run checks follows. *)
LEMMA MigrateSomewhere == ASSUME MigrateInv PROVE MG!EventsAreSomewhere
BY DEF MigrateInv, MigrateTablesHold, MG!EventsAreSomewhere

(* The constants are so. *)
LEMMA MigrateBoundsHold == MigrateBounds
BY NumbersAssumption DEF MigrateBounds

(* A step of the whole is one of this part, if it is its turn. *)
LEMMA MigrateTurn ==
  ASSUME [Next]_vars
  PROVE  part' = part /\ (part = "migrations" => [MG!Next]_(MG!vars))
<1>1. part' = part
  BY DEF Next, vars, Only
<1>2. part = "migrations" => [MG!Next]_(MG!vars)
  BY DEF Next, vars, Only, MG!vars, migrationsVars
<1> QED BY <1>1, <1>2

(* So the invariant holds whenever this part moves. *)
LEMMA MigrateAlways == Spec => [](part = "migrations" => MigrateInv)
<1>1. Init => (part = "migrations" => MigrateInv)
  BY MigrateBoundsHold, MigrateTypeInit DEF Init
<1>2. (part = "migrations" => MigrateInv) /\ [Next]_vars => (part = "migrations" => MigrateInv)'
  BY MigrateBoundsHold, MigrateNextKeeps, MigrateTurn
<1> QED BY <1>1, <1>2, PTL DEF Spec

-----------------------------------------------------------------------------
(* launcher.ts, daemon-lock.ts: whatever becomes of its lock, the daemon that *)
(* listens loses the port by its own stop or crash only, and until something  *)
(* is lost a launcher that ends leaves one that listens or is about to, for   *)
(* any number of launchers and hanging probes.                                *)
THEOREM DaemonsStay == Spec => DaemonStays
<1>1. (part = "daemon" => DaemonInv /\ DaemonRace) /\ [Next]_vars => (part = "daemon" => DL!PortKept /\ DL!GivesWay)
  BY DaemonBoundsHold, DaemonNextKeeps, DaemonRaceKeeps, DaemonTurn
<1>2. Spec => [][part = "daemon" => DL!PortKept /\ DL!GivesWay]_vars
  BY <1>1, DaemonAlways, PTL DEF Spec
<1> QED BY <1>2 DEF DaemonStays

(* server-lifecycle.ts, http-server.ts: an exit with code 0 has closed what   *)
(* was open, an idle one has cut off no call, the daemon goes down with no    *)
(* session registered, and a deleted session runs no further tool, for any    *)
(* sessions, requests and calls.                                              *)
THEOREM NothingIsLeft == Spec => []NothingLeftBehind
<1>1. (part = "lifecycle" => LifeInv) /\ (part = "http" => HttpInv) => NothingLeftBehind
  BY HttpLeft DEF LifeInv, NothingLeftBehind
<1> QED BY <1>1, LifeAlways, HttpAlways, PTL

(* capability.ts: no server accepts a token that had been withdrawn when it   *)
(* started, and only one of the admin profile raises trust or sensitivity,    *)
(* for any operators, servers and tokens.                                     *)
THEOREM CapabilityHolds == Spec => []CapabilitySound
<1>1. (part = "capability" => CapInv) => CapabilitySound
  BY CapSound DEF CapInv, CapabilitySound
<1> QED BY <1>1, CapAlways, PTL
=============================================================================
