--------------------------- MODULE HistoryBundles ---------------------------
(* What an export holds and what an import reads of it: the export command    *)
(* lists entries and then, for a full history, their rows in statements of no *)
(* transaction (canonical-model.ts); the import reads file after file and     *)
(* verifies them last (migration-adapter.ts, importer.ts), while the database  *)
(* is written and the scope is exported again. How an export is published is   *)
(* in Publication, how an import is applied in ImportBatches.                  *)

EXTENDS Naturals, FiniteSets

CONSTANTS
  Memories,      \* each with a topic, hence a topic file, of its own
  Modes,         \* history modes: snapshot, full_history
  MaxRev,        \* bound on the revisions of a memory
  MaxExports,    \* bound on exports
  None

VARIABLES
  rev,           \* memory_entries: the revision of each memory
  history,       \* memory_revisions
  export,        \* the export that runs
  live,          \* the published scope directory
  exports,       \* the number of exports published
  import,        \* the import that runs
  moments        \* every state the entries were in

vars == <<rev, history, export, live, exports, import, moments>>

Revs == [Memories -> 0..MaxRev]
Histories == [Memories -> SUBSET (1..MaxRev)]
NoRevs == [m \in Memories |-> 0]
NoHistory == [m \in Memories |-> {}]
Scope == [mode : Modes, entries : Revs, history : Histories]
NoExport == [step |-> "idle", mode |-> "snapshot", entries |-> NoRevs, history |-> NoHistory, left |-> {}]
NoImport == [step |-> "idle", entries |-> NoRevs, history |-> NoHistory, left |-> {}, manifest |-> None]

TypeOK ==
  /\ rev \in Revs /\ history \in Histories
  /\ export \in [step : {"idle", "history"}, mode : Modes, entries : Revs, history : Histories,
                 left : SUBSET Memories]
  /\ live \in Scope \cup {None} /\ exports \in 0..MaxExports
  /\ import \in [step : {"idle", "bundle", "hash", "manifest", "topics", "verify", "files", "v1", "v3"},
                 entries : Revs, history : Histories, left : SUBSET Memories,
                 manifest : Scope \cup {None}]

Init ==
  /\ rev = [m \in Memories |-> 1]
  /\ history = [m \in Memories |-> {1}]
  /\ export = NoExport /\ live = None /\ exports = 0 /\ import = NoImport
  /\ moments = {rev}

(* A write of the write service has its revision row, one of a sweep or of a *)
(* confirmation of trust has none.                                           *)
Write(m, recorded) ==
  /\ rev[m] < MaxRev
  /\ rev' = [rev EXCEPT ![m] = @ + 1]
  /\ history' = IF recorded THEN [history EXCEPT ![m] = @ \cup {rev[m] + 1}] ELSE history
  /\ moments' = moments \cup {rev'}
  /\ UNCHANGED <<export, live, exports, import>>

-----------------------------------------------------------------------------
UnchangedByExport == UNCHANGED <<rev, history, import, moments>>

(* exportCommand: the entries in one statement; buildFullHistoryBundle: *)
ListEntries(mode) ==
  /\ export = NoExport /\ exports < MaxExports
  /\ export' = [step |-> "history", mode |-> mode, entries |-> rev, history |-> NoHistory,
                left |-> IF mode = "full_history" THEN Memories ELSE {}]
  /\ UnchangedByExport /\ UNCHANGED <<live, exports>>

(* for each of them its revisions, all there are by then. *)
ListRevisions(m) ==
  /\ export.step = "history" /\ m \in export.left
  /\ export' = [export EXCEPT !.left = @ \ {m}, !.history = [@ EXCEPT ![m] = history[m]]]
  /\ UnchangedByExport /\ UNCHANGED <<live, exports>>

(* stageScope and publishStagedScope: topic files, bundle and a manifest of   *)
(* their hashes, which replace the directory together.                        *)
Publish ==
  /\ export.step = "history" /\ export.left = {}
  /\ live' = [mode |-> export.mode, entries |-> export.entries, history |-> export.history]
  /\ exports' = exports + 1
  /\ export' = NoExport
  /\ UnchangedByExport

-----------------------------------------------------------------------------
UnchangedByImport == UNCHANGED <<rev, history, export, live, exports, moments>>
Goes(step) == import' = [import EXCEPT !.step = step] /\ UnchangedByImport

(* detectBundleGeneration: by what is in the directory. *)
Detect ==
  /\ import = NoImport /\ live # None
  /\ Goes(IF live.mode = "full_history" THEN "bundle" ELSE "manifest")

(* normaliseV3Bundle: the bundle, if it is still there, *)
ReadBundle ==
  /\ import.step = "bundle"
  /\ import' = IF live.mode = "full_history"
               THEN [import EXCEPT !.step = "hash", !.entries = live.entries, !.history = live.history]
               ELSE NoImport
  /\ UnchangedByImport

(* and its hash in the manifest, if that has one. *)
HashMatches == live.mode = "full_history" => live.entries = import.entries /\ live.history = import.history
CheckHash ==
  /\ import.step = "hash"
  /\ IF HashMatches THEN Goes("verify") ELSE import' = NoImport /\ UnchangedByImport

(* A canonical bundle: the manifest, of which only the time is used, and the  *)
(* topic files.                                                               *)
ReadManifest ==
  /\ import.step = "manifest"
  /\ import' = [import EXCEPT !.step = "topics", !.left = Memories]
  /\ UnchangedByImport

ReadTopic(m) ==
  /\ import.step = "topics" /\ m \in import.left
  /\ import' = [import EXCEPT !.left = @ \ {m}, !.entries = [@ EXCEPT ![m] = live.entries[m]]]
  /\ UnchangedByImport

EndTopics ==
  /\ import.step = "topics" /\ import.left = {}
  /\ Goes("verify")

(* preflightImport: the manifest is read again, and compared with the files   *)
(* as they are now.                                                           *)
StartVerify ==
  /\ import.step = "verify"
  /\ import' = [import EXCEPT !.step = "files", !.manifest = live]
  /\ UnchangedByImport

VerifyManifest ==
  /\ import.step = "files"
  /\ import' = IF live # import.manifest THEN NoImport
               ELSE [import EXCEPT !.step = IF import.history = NoHistory THEN "v1" ELSE "v3",
                                   !.manifest = None]
  /\ UnchangedByImport

EndImport ==
  /\ import.step \in {"v1", "v3"}
  /\ import' = NoImport /\ UnchangedByImport

Next ==
  \/ \E m \in Memories, recorded \in BOOLEAN : Write(m, recorded)
  \/ \E mode \in Modes : ListEntries(mode)
  \/ \E m \in Memories : ListRevisions(m) \/ ReadTopic(m)
  \/ Publish \/ Detect \/ ReadBundle \/ CheckHash \/ ReadManifest \/ EndTopics
  \/ StartVerify \/ VerifyManifest \/ EndImport

Spec == Init /\ [][Next]_vars

-----------------------------------------------------------------------------
(* An import of a full history brings entries that were in the database at    *)
(* one moment, whichever exports are published while it reads.                *)
EntriesWereAtOnce == import.step = "v3" => import.entries \in moments

(* The history of a bundle reaches the entry it is of, if the database's did:  *)
(* it is read after the entries.                                               *)
HistoryReachesEntry ==
  import.step = "v3" =>
    \A m \in Memories : import.entries[m] \in history[m] => import.entries[m] \in import.history[m]

BundlesHold == EntriesWereAtOnce /\ HistoryReachesEntry

(* The history of a bundle ends with the entry it is of. *)
HistoryStopsAtEntry ==
  import.step = "v3" => \A m \in Memories : import.history[m] \subseteq 1..import.entries[m]

(* An import of topic files brings entries of one export: they are verified.  *)
SnapshotIsOne == import.step = "v1" => import.entries \in moments
=============================================================================
