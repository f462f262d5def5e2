------------------------------ MODULE MemoryWrites ------------------------------
(***************************************************************************)
(* The write service (src/services/memory-write-service.ts): remember,     *)
(* update_memory, supersede_memory, merge_memories and forget_memory, with *)
(* the idempotency slots of src/services/idempotency.ts, as they run in    *)
(* several server processes that share one SQLite file.                    *)
(*                                                                         *)
(* A handler is synchronous code: inside one process nothing interleaves   *)
(* with it, but every SQL statement before its BEGIN IMMEDIATE transaction *)
(* sees what the other processes have committed so far.  A call therefore  *)
(* advances through                                                        *)
(*     Call (early replay probe) -> Peek (status checks) ->                *)
(*     EvaluateBudget -> Commit (one transaction) -> Reply                 *)
(* and its process may die before any of them (Crash).  A client that got  *)
(* no answer may send the same call again, to any process.                 *)
(*                                                                         *)
(* effects, casWins and told are history variables: they record what was   *)
(* applied and what clients were told, and no action reads them, except    *)
(* that Call notes whether this client call repeats one already answered.  *)
(***************************************************************************)
EXTENDS MemoryStore, FiniteSets, FiniteSetsExt

CONSTANTS
    Procs,          \* server processes on the same database file
    Keys,           \* idempotency keys
    Requests,       \* the calls clients make
    Seed,           \* memories written earlier, all at revision 1
    DefaultTier,    \* the tier a memory gets when none is asked for ("working")
    MaxRev,         \* bound: no update once a row is at this revision
    MaxEntries,     \* budget.max_active_entries
    MaxChars        \* budget.max_total_chars

Creators == {"remember", "supersede_memory", "merge_memories"}
Tools == Creators \cup {"update_memory", "forget_memory"}

\* ids: the memories the call is about (none for remember); lists: what a
\* remember gives as its supersedes, ids nobody looks up (the list of a
\* supersede or a merge is overwritten by its ids); patch: the fields of an
\* update, or the status, title, text and tier of a new entry; cas: the caller
\* passes expected_revision; confirm: confirm_write.
Request ==
    [op : Tools, key : Keys \cup {None}, ids : SUBSET Ids, lists : SUBSET Ids,
     patch : Patch, cas : BOOLEAN, confirm : BOOLEAN]

ASSUME RequestsAssumption ==
    /\ Requests \subseteq Request
    /\ \A r \in Requests :
        /\ IF r.op = "remember" THEN r.ids = {} ELSE r.lists = {}
        /\ r.op \in {"update_memory", "forget_memory"} => \E i \in Ids : r.ids = {i}
        /\ r.op \in {"update_memory", "forget_memory"} \/ ~r.cas
        /\ r.op = "supersede_memory" => r.ids # {}
        /\ r.op \in Creators => r.patch.title \in Nat /\ r.patch.text \in Nat /\ r.patch.tier \in Tiers
        /\ r.patch.status \in {"active", "archived", None}
        /\ r.patch.chars = None /\ r.patch.by = None

ASSUME BoundsAssumption ==
    /\ Seed \subseteq Ids /\ DefaultTier \in Tiers
    /\ MaxRev \in Nat \ {0} /\ MaxEntries \in Nat /\ MaxChars \in Nat
    /\ None \notin Keys \cup Requests

VARIABLES
    entries,    \* memory_entries: id -> row
    history,    \* memory_revisions: id -> the snapshots recorded for it
    slots,      \* mutation_requests_v2: (tool, key) -> request hash and result
    call,       \* the call each process is running
    effects,    \* history: business effects committed under each slot
    casWins,    \* history: compare-and-set writes that won, by row and revision
    told        \* history: the ok results clients received, by slot

vars == <<entries, history, slots, call, effects, casWins, told>>

Slots == Tools \X Keys
Codes == {"ok", "not_found", "invalid_state", "capacity_exceeded",
          "duplicate_candidate", "stale_revision", "idempotency_mismatch"}
Answer == [code : Codes, id : Ids \cup {None}, chars : Nat]
Hash == [req : Requests, exp : 0 .. MaxRev]
SlotRow == [hash : Hash, ans : Answer]

ASSUME NoneIsNoAnswer == None \notin Answer \cup SlotRow

PCs == {"idle", "peek", "budget", "commit", "reply"}
CallState ==
    [pc : PCs, req : Requests \cup {None}, exp : 0 .. MaxRev,
     seen : [Ids -> Entry \cup {None}], ans : Answer \cup {None}, again : BOOLEAN]

Idle ==
    [pc |-> "idle", req |-> None, exp |-> 0, seen |-> [i \in Ids |-> None],
     ans |-> None, again |-> FALSE]

Failure(code) == [code |-> code, id |-> None, chars |-> 0]
\* Mutant: the two arguments swapped.
OkSwapped(i, chars) == [code |-> "ok", id |-> chars, chars |-> i]

Ok(i, chars) == [code |-> "ok", id |-> i, chars |-> chars]

Slot(r) == <<r.op, r.key>>
HashOf(c) == [req |-> c.req, exp |-> c.exp]

\* the memory an update or a forget names
Target(r) == CHOOSE i \in Ids : r.ids = {i}

SeedEntry == NewEntry("active", 1, 1, DefaultTier, {})

Init ==
    /\ entries = [i \in Ids |-> IF i \in Seed THEN SeedEntry ELSE None]
    /\ history = [i \in Ids |-> IF i \in Seed THEN {SeedEntry} ELSE {}]
    /\ slots = [s \in Slots |-> None]
    /\ call = [p \in Procs |-> Idle]
    /\ effects = [s \in Slots |-> 0]
    /\ casWins = [w \in Ids \X (1 .. MaxRev) |-> 0]
    /\ told = [s \in Slots |-> {}]

tables == <<entries, history, slots>>
ghosts == <<effects, casWins, told>>

--------------------------------------------------------------------------------
(* Idempotency slots *)

\* reserveIdempotency and tryReplayOnly classify a slot the same way.  A row
\* is inserted and completed in one transaction, so no process ever sees it
\* in state pending.
Classify(slot, hash) ==
    IF slots[slot] = None THEN "fresh"
    ELSE IF slots[slot].hash = hash THEN "replay" ELSE "rejected"

StoredAnswer(slot, hash) ==
    IF Classify(slot, hash) = "replay" THEN slots[slot].ans ELSE Failure("idempotency_mismatch")

\* Mutant: no tool probes before its status checks.
ProbesNever(r) == FALSE

\* update_memory is the one tool without the early probe.
Probes(r) == r.key # None /\ r.op # "update_memory"

--------------------------------------------------------------------------------
(* The steps of a call *)

Answered(c, ans) == [c EXCEPT !.pc = "reply", !.ans = ans]

FirstStep(r) == IF r.op = "remember" THEN "budget" ELSE "peek"

\* A client calls a tool.  With expected_revision it sends a revision it read
\* earlier, so one the row has had.
Call(p, r, x) ==
    /\ call[p].pc = "idle"
    /\ IF r.cas THEN entries[Target(r)] # None /\ x \in 1 .. entries[Target(r)].rev ELSE x = 0
    /\ LET hash == [req |-> r, exp |-> x]
           c == [Idle EXCEPT
                    !.pc = FirstStep(r), !.req = r, !.exp = x,
                    !.again = r.key # None /\ \E t \in told[Slot(r)] : t.hash = hash]
       IN call' = [call EXCEPT ![p] =
                     IF Probes(r) /\ Classify(Slot(r), hash) # "fresh"
                     THEN Answered(c, StoredAnswer(Slot(r), hash))
                     ELSE c]
    /\ UNCHANGED <<tables, ghosts>>

\* Mutant: the status of a peeked row is not checked.
PeekAnyStatus(p) ==
    LET c == call[p]
        left == {i \in c.req.ids : c.seen[i] = None}
        next == IF c.req.op = "forget_memory" THEN "commit" ELSE "budget"
    IN /\ c.pc = "peek"
       /\ \E i \in left :
            call' = [call EXCEPT ![p] =
                IF entries[i] = None THEN Answered(c, Failure("not_found"))
                ELSE [c EXCEPT !.seen[i] = entries[i], !.pc = IF left = {i} THEN next ELSE "peek"]]
       /\ UNCHANGED <<tables, ghosts>>

\* One peekEntry per named memory, each a statement of its own; everything but
\* forget_memory refuses a row that is neither active nor archived.
Peek(p) ==
    LET c == call[p]
        left == {i \in c.req.ids : c.seen[i] = None}
        next == IF c.req.op = "forget_memory" THEN "commit" ELSE "budget"
        read(i) == [c EXCEPT !.seen[i] = entries[i], !.pc = IF left = {i} THEN next ELSE "peek"]
    IN /\ c.pc = "peek"
       /\ \E i \in left :
            call' = [call EXCEPT ![p] =
                IF entries[i] = None THEN Answered(c, Failure("not_found"))
                ELSE IF c.req.op # "forget_memory" /\ entries[i].status \notin {"active", "archived"}
                     THEN Answered(c, Failure("invalid_state"))
                     ELSE read(i)]
       /\ UNCHANGED <<tables, ghosts>>

\* Mutant: char_count is left as it was.
UpdatePatchUncounted(c) == c.req.patch

\* updateMemory computes char_count from the row it peeked, and only when the
\* patch touches body or tags; the title in that sum is always the peeked one.
UpdatePatch(c) ==
    LET cur == c.seen[Target(c.req)]
    IN [c.req.patch EXCEPT !.chars =
            IF @ = None /\ c.req.patch.text # None THEN Size(cur.title, c.req.patch.text) ELSE @]

\* Mutant: the replacement does not list what it supersedes.
ReplacementUnlinked(c) ==
    NewEntry(Given(c.req.patch.status, "active"),
             c.req.patch.title, c.req.patch.text, c.req.patch.tier, c.req.lists)

\* The entry a remember, supersede or merge creates, active unless it asks for
\* archived.
Replacement(c) ==
    NewEntry(Given(c.req.patch.status, "active"),
             c.req.patch.title, c.req.patch.text, c.req.patch.tier, c.req.ids \cup c.req.lists)

Candidate(c) ==
    IF c.req.op \in Creators THEN Replacement(c)
    ELSE Patched(c.seen[Target(c.req)], UpdatePatch(c))

\* active rows the candidate is weighed against: not the ones it replaces
Others(c) ==
    LET excluded == {i \in c.req.ids : c.req.op = "update_memory" \/ Live(c.seen[i])}
    IN {i \in Ids : Live(entries[i])} \ excluded

CharsOf(rows, I) == MapThenSumSet(LAMBDA i : rows[i].chars, I)

\* Mutant: the candidate itself is not counted.
ExceedsBefore(c) == Cardinality(Others(c)) > MaxEntries \/ CharsOf(entries, Others(c)) > MaxChars

Exceeds(c) ==
    LET cand == Candidate(c)
        more == IF cand.status = "active" THEN 1 ELSE 0
    IN \/ Cardinality(Others(c)) + more > MaxEntries
       \/ CharsOf(entries, Others(c)) + more * cand.chars > MaxChars

\* One listEntries statement feeds usage and duplicate detection.  Whether the
\* title or body of an active row equals the candidate's is left open.
EvaluateBudget(p) ==
    LET c == call[p]
        mayBeDuplicate == c.req.op = "remember" /\ ~c.req.confirm /\ Others(c) # {}
        outcomes ==
            IF Exceeds(c) THEN {Answered(c, Failure("capacity_exceeded"))}
            ELSE {[c EXCEPT !.pc = "commit"]} \cup
                 (IF mayBeDuplicate THEN {Answered(c, Failure("duplicate_candidate"))} ELSE {})
    IN /\ c.pc = "budget"
       /\ \E c2 \in outcomes : call' = [call EXCEPT ![p] = c2]
       /\ UNCHANGED <<tables, ghosts>>

\* Mutant: superseding records no revision of the old row.
WriteUnrecorded(I, rows, snapshots) ==
    /\ entries' = [i \in Ids |-> IF i \in I THEN rows[i] ELSE entries[i]]
    /\ history' = [i \in Ids |-> IF i \in I /\ rows[i].by = None THEN history[i] \cup {snapshots[i]} ELSE history[i]]

\* Mutant: the snapshot is taken before superseded_by is set.
WriteEarlySnapshot(I, rows, snapshots) ==
    /\ entries' = [i \in Ids |-> IF i \in I THEN rows[i] ELSE entries[i]]
    /\ history' = [i \in Ids |->
          IF i \in I THEN history[i] \cup {[snapshots[i] EXCEPT !.by = None]} ELSE history[i]]

\* The effect of a transaction on the two tables: every row in I gets a new
\* image, and a revision that holds its snapshot.
Write(I, rows, snapshots) ==
    /\ entries' = [i \in Ids |-> IF i \in I THEN rows[i] ELSE entries[i]]
    /\ history' = [i \in Ids |-> IF i \in I THEN history[i] \cup {snapshots[i]} ELSE history[i]]

\* completeIdempotency and the return of the handler
Finish(p, ans) ==
    LET c == call[p]
        keyed == c.req.key # None
        won == c.exp # 0 /\ ans.code = "ok"
    IN /\ slots' = IF keyed THEN [slots EXCEPT ![Slot(c.req)] = [hash |-> HashOf(c), ans |-> ans]]
                   ELSE slots
       /\ call' = [call EXCEPT ![p] = Answered(c, ans)]
       /\ effects' = IF keyed /\ ans.code = "ok" THEN [effects EXCEPT ![Slot(c.req)] = @ + 1] ELSE effects
       /\ casWins' = IF won THEN [casWins EXCEPT ![<<Target(c.req), c.exp>>] = @ + 1] ELSE casWins
       /\ UNCHANGED told

\* Mutant: the transaction relies on the early probe.
FreshUnchecked(p) == call[p].pc = "commit"

\* The transaction runs its work: the slot is free, or the call has no key.
Fresh(p) ==
    LET c == call[p]
    IN /\ c.pc = "commit"
       /\ c.req.key # None => Classify(Slot(c.req), HashOf(c)) = "fresh"

\* commitPreparedRemember
CommitRemember(p) ==
    /\ Fresh(p) /\ call[p].req.op = "remember"
    /\ \E n \in Ids :
        LET new == [i \in {n} |-> Replacement(call[p])]
        IN /\ entries[n] = None
           /\ Write({n}, new, new)
           /\ Finish(p, Ok(n, 0))

\* runUpdate without expected_revision: the row is read again inside the
\* transaction, its status is not.
CommitUpdate(p) ==
    LET c == call[p]
        new == [i \in c.req.ids |-> UpdatedRow(entries[i], UpdatePatch(c))]
    IN /\ Fresh(p) /\ c.req.op = "update_memory" /\ ~c.req.cas
       /\ entries[Target(c.req)].rev < MaxRev
       /\ Write(c.req.ids, new, new)
       /\ Finish(p, Ok(Target(c.req), 0))

\* updateEntryWithRevision finds another revision: nothing is written, and the
\* failure becomes the result stored for the key.
CommitCasMiss(p) ==
    LET c == call[p]
    IN /\ Fresh(p) /\ c.req.cas
       /\ entries[Target(c.req)].rev # c.exp
       /\ Finish(p, Failure(IF c.req.op = "forget_memory" THEN "not_found" ELSE "stale_revision"))
       /\ UNCHANGED <<entries, history>>

\* Mutant: expected_revision is not compared.
CommitCasUpdateUnchecked(p) ==
    LET c == call[p]
    IN /\ Fresh(p) /\ c.req.op = "update_memory" /\ c.req.cas
       /\ entries[Target(c.req)].rev < MaxRev
       /\ Write(c.req.ids, [i \in c.req.ids |-> CasUpdatedRow(entries[i], UpdatePatch(c))],
                           [i \in c.req.ids |-> Patched(entries[i], UpdatePatch(c))])
       /\ Finish(p, Ok(Target(c.req), 0))

CommitCasUpdate(p) ==
    LET c == call[p]
    IN /\ Fresh(p) /\ c.req.op = "update_memory" /\ c.req.cas
       /\ entries[Target(c.req)].rev = c.exp /\ c.exp < MaxRev
       /\ Write(c.req.ids, [i \in c.req.ids |-> CasUpdatedRow(entries[i], UpdatePatch(c))],
                           [i \in c.req.ids |-> Patched(entries[i], UpdatePatch(c))])
       /\ Finish(p, Ok(Target(c.req), 0))

\* forgetMemory: no status check, so a superseded row can be forgotten too.
CommitForget(p) ==
    LET c == call[p]
        old == c.seen[Target(c.req)]
        new == [i \in c.req.ids |-> UpdatedRow(entries[i], Forgetting)]
    IN /\ Fresh(p) /\ c.req.op = "forget_memory"
       /\ c.req.cas => entries[Target(c.req)].rev = c.exp
       /\ entries[Target(c.req)].rev < MaxRev
       /\ Write(c.req.ids, new, new)
       /\ Finish(p, Ok(Target(c.req), IF old.status = "active" THEN old.chars ELSE 0))

\* runApply of supersedeMemory and mergeMemories: the replacement and every
\* old row in one transaction.
CommitSupersede(p) ==
    LET c == call[p]
    IN /\ Fresh(p) /\ c.req.op \in {"supersede_memory", "merge_memories"}
       /\ \A i \in c.req.ids : entries[i].rev < MaxRev
       /\ \E n \in Ids :
            LET new == [i \in c.req.ids \cup {n} |->
                          IF i = n THEN Replacement(c) ELSE UpdatedRow(entries[i], Superseding(n))]
            IN /\ entries[n] = None
               /\ Write(c.req.ids \cup {n}, new, new)
               /\ Finish(p, Ok(n, 0))

\* The slot was taken between the probe and the transaction (or there was no
\* probe): replay or refuse, nothing is written.
CommitReplay(p) ==
    LET c == call[p]
    IN /\ c.pc = "commit" /\ c.req.key # None
       /\ Classify(Slot(c.req), HashOf(c)) # "fresh"
       /\ call' = [call EXCEPT ![p] = Answered(c, StoredAnswer(Slot(c.req), HashOf(c)))]
       /\ UNCHANGED <<tables, ghosts>>

Reply(p) ==
    LET c == call[p]
        s == Slot(c.req)
    IN /\ c.pc = "reply"
       /\ call' = [call EXCEPT ![p] = Idle]
       /\ told' = IF c.req.key # None /\ c.ans.code = "ok"
                  THEN [told EXCEPT ![s] = @ \cup {[hash |-> HashOf(c), ans |-> c.ans]}] ELSE told
       /\ UNCHANGED <<tables, effects, casWins>>

\* The process dies, or SQLITE_BUSY throws: an open transaction rolls back,
\* a committed one stays, the client learns nothing.
Crash(p) ==
    /\ call[p].pc # "idle"
    /\ call' = [call EXCEPT ![p] = Idle]
    /\ UNCHANGED <<tables, ghosts>>

Commit(p) ==
    \/ CommitRemember(p) \/ CommitUpdate(p) \/ CommitCasMiss(p) \/ CommitCasUpdate(p)
    \/ CommitForget(p) \/ CommitSupersede(p) \/ CommitReplay(p)

Next ==
    \E p \in Procs :
        \/ \E r \in Requests, x \in 0 .. MaxRev : Call(p, r, x)
        \/ Peek(p) \/ EvaluateBudget(p) \/ Commit(p) \/ Reply(p) \/ Crash(p)

Spec == Init /\ [][Next]_vars
--------------------------------------------------------------------------------
(* Properties *)

\* Shape of every variable.
TypeOK ==
    /\ entries \in [Ids -> Entry \cup {None}]
    /\ history \in [Ids -> SUBSET Entry]
    /\ slots \in [Slots -> SlotRow \cup {None}]
    /\ call \in [Procs -> CallState]
    /\ effects \in [Slots -> Nat]
    /\ casWins \in [Ids \X (1 .. MaxRev) -> Nat]
    /\ told \in [Slots -> SUBSET SlotRow]

\* The audit chain that src/doctor/checks/revision-integrity.ts demands: the
\* revisions of a memory are 1, 2, ... up to the row's revision, each recorded
\* once, whatever mix of processes wrote them and wherever they died.
RevisionChain ==
    \A i \in Ids :
        IF entries[i] = None THEN history[i] = {}
        ELSE /\ {h.rev : h \in history[i]} = 1 .. entries[i].rev
             /\ \A g, h \in history[i] : g.rev = h.rev => g = h

\* The latest snapshot is the row as stored, except for the tier column.
LatestSnapshot ==
    \A i \in Ids : \A h \in history[i] :
        h.rev = entries[i].rev => SameButTier(entries[i], h)

\* A key takes effect at most once under retries, crashes and two processes
\* that run it at the same time, and every client that was told ok was told
\* the one result that the slot holds.
ExactlyOnce ==
    \A s \in Slots :
        /\ effects[s] = IF slots[s] # None /\ slots[s].ans.code = "ok" THEN 1 ELSE 0
        /\ told[s] # {} => told[s] = {slots[s]}

\* A client call that repeats one already answered ok is answered with that
\* same result, whatever happened to the memory in between.
RetryReplays ==
    \A p \in Procs :
        call[p].pc = "reply" /\ call[p].again =>
            [hash |-> HashOf(call[p]), ans |-> call[p].ans] \in told[Slot(call[p].req)]

\* Of all the clients that read a memory at one revision and write it back
\* with expected_revision, at most one wins.
CasOneWinner == \A w \in DOMAIN casWins : casWins[w] <= 1

\* No call pushes the active memories past the configured budget.
WithinBudget ==
    LET active == {i \in Ids : Live(entries[i])}
    IN Cardinality(active) <= MaxEntries /\ CharsOf(entries, active) <= MaxChars

\* A forgotten memory has no body and no tags left.
ForgottenIsCleared ==
    \A i \in Ids : entries[i] # None /\ entries[i].status = "forgotten" =>
        entries[i].text = 0 /\ entries[i].chars = 0

\* Once forgotten or superseded, a memory never becomes active or archived
\* again, and a forgotten one stays forgotten.
NeverRevived ==
    [][\A i \in Ids : entries[i] # None =>
        /\ entries[i].status = "forgotten" => entries'[i].status = "forgotten"
        /\ entries[i].status = "superseded" => entries'[i].status \in {"superseded", "forgotten"}]_vars

\* The memory a superseded row points to is one that lists it in supersedes.
SupersededByLists ==
    \A i \in Ids : entries[i] # None /\ entries[i].by # None =>
        /\ entries[entries[i].by] # None
        /\ i \in entries[entries[i].by].sup

\* A memory is replaced at most once, while it may still be written, and by a
\* memory created in the same transaction; it keeps that link for good, however
\* often later calls supersede, merge or list it.
ReplacedOnce ==
    [][\A i \in Ids : entries[i] # None /\ entries'[i].by # entries[i].by =>
        /\ entries[i].by = None /\ entries[i].status \in {"active", "archived"}
        /\ entries'[i].status = "superseded"
        /\ entries[entries'[i].by] = None]_vars

\* char_count of a memory that was not forgotten counts the whole of its
\* present text, and a title that it has had: a patch of body or tags counts the
\* title found at that time, a patch of the title counts nothing.
CharCountOfATitle ==
    \A i \in Ids : entries[i] # None /\ entries[i].status # "forgotten" =>
        \E h \in history[i] : entries[i].chars = Size(h.title, entries[i].text)

\* The code does not keep these two: a remember may list any memory, replaced
\* or not, ...
OneReplacement ==
    \A i, j \in Ids : entries[j] # None /\ i \in entries[j].sup => entries[i] # None /\ entries[i].by = j

\* ... and after a patch of the title char_count is that of the old one.
CharCountExact ==
    \A i \in Ids : Live(entries[i]) => entries[i].chars = Size(entries[i].title, entries[i].text)

\* Under crashes, retries and interleaving, the tables only ever take the
\* steps of VersionedStore: a call's whole effect and its key's result land
\* together, and a key's result is final.
Store == INSTANCE VersionedStore WITH
    Results <- Answer,
    version <- [i \in Ids |-> IF entries[i] = None THEN 0 ELSE entries[i].rev],
    log     <- [i \in Ids |-> {h.rev : h \in history[i]}],
    result  <- [s \in Slots |-> IF slots[s] = None THEN None ELSE slots[s].ans]

AtomicStore == Store!Spec
================================================================================
