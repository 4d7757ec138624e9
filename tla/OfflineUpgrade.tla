--------------------------- MODULE OfflineUpgrade ---------------------------
(***************************************************************************)
(* `cedegrid state upgrade` (upgrade.rs) on one 0.1 state directory, with  *)
(* a process that dies between any two of its durable steps or in the      *)
(* middle of writing a JSON record, and is started again.                  *)
(*                                                                         *)
(* A durable directory is copied to a bundle, the operation is recorded,   *)
(* and one transaction moves the schema to 5 and holds unfinished work.  A *)
(* replay directory is only marked: the next agent start quarantines it    *)
(* and rebuilds it from the coordinator (start_replay_session).  0.1       *)
(* services know nothing of namespace.json; 0.2 services and tools are     *)
(* admitted by its phase.  The locks that make one 0.2 process at a time   *)
(* run here are the subject of module Namespace.                           *)
(***************************************************************************)
EXTENDS Naturals

CONSTANTS
    Replay,        \* the storage profile is burst_replay_delete_extra
    Tasks, Writers, \* work in the ledger; 0.1 workloads and supervisors that may live
    Paths,         \* bundle locations the operator may name
    MaxOutputs,    \* bound: outputs 0.1 workloads write
    MaxCrashes     \* bound: interrupted processes

UpgradeAssumption ==
    Replay \in BOOLEAN /\ MaxOutputs \in Nat /\ MaxCrashes \in Nat

VARIABLES
    phase,       \* phase in namespace.json
    dir,         \* the state directory: schema, whether rebuilt, ledger, holds, outputs
    quarantined, \* schemas of directories a recovery renamed away
    bundles,     \* upgrade bundles by path
    operation,   \* upgrade-operation.json and the bundle it names
    marker,      \* legacy-replay-upgrade.json
    complete,    \* upgrade-complete.json
    pc, path,    \* step of the process at work; its --backup argument
    legacy,      \* a 0.1 service holds its service lock
    writers,     \* 0.1 workloads and supervisors alive
    opened,      \* a 0.2 service or tool has the store open
    report,      \* the last upgrade printed its report
    retried,     \* history: held tasks an operator retried
    crashes

vars == <<phase, dir, quarantined, bundles, operation, marker, complete, pc, path, legacy,
          writers, opened, report, retried, crashes>>
world == <<legacy, writers, opened, retried, crashes>>
files == <<bundles, operation, marker, complete>>

Absent == 0
Legacy == 4           \* schema 2, 3 or 4 of release 0.1, by profile
SCHEMA_VERSION == 5
Status == {"none", "queued", "held", "completed"}
Files == {"none", "torn", "full"}
Phases == {"missing", "ready", "fencing", "initializing", "awaiting_readiness"}
UpgradeSteps == {"bundle", "copy", "operation", "intent", "marker", "migrate", "complete", "ready"}
RecoverySteps == {"require", "quarantine", "initialize", "build", "import", "await", "activate"}
NoWork == [t \in Tasks |-> "none"]
Content == [tasks |-> dir.tasks, outputs |-> dir.outputs]
EmptyBundle == [made |-> "none", tasks |-> NoWork, outputs |-> 0]

Init ==
    /\ phase = "missing"
    /\ dir \in {[schema |-> Legacy, whole |-> TRUE, tasks |-> w, outputs |-> 0] :
                   w \in [Tasks -> {"none", "queued", "completed"}]}
    /\ quarantined = {}
    /\ bundles = [p \in Paths |-> EmptyBundle]
    /\ operation = [file |-> "none", path |-> CHOOSE p \in Paths : TRUE]
    /\ marker = "none" /\ complete = "none"
    /\ pc = "idle" /\ path \in Paths
    /\ legacy = TRUE
    /\ writers \in SUBSET Writers
    /\ opened = FALSE /\ report = FALSE
    /\ retried = {}
    /\ crashes = 0

-----------------------------------------------------------------------------
(* Release 0.1, until the operator stops it for good: it is not started again  *)
(* once an upgrade was recorded.  Its workloads outlive it.                    *)
LegacyService ==
    \/ /\ legacy /\ legacy' = FALSE
       /\ UNCHANGED <<dir, writers>>
    \/ /\ ~legacy /\ pc = "idle" /\ operation.file = "none" /\ dir.schema = Legacy
       /\ legacy' = TRUE
       /\ UNCHANGED <<dir, writers>>
    \/ /\ legacy /\ dir.schema = Legacy
       /\ \E t \in Tasks :
             /\ dir.tasks[t] # "completed"
             /\ dir' = [dir EXCEPT !.tasks[t] = IF @ = "none" THEN "queued" ELSE "completed"]
       /\ UNCHANGED <<legacy, writers>>
LegacyWriter(w) ==
    /\ w \in writers
    /\ \/ writers' = writers \ {w} /\ UNCHANGED dir
       \/ /\ dir.schema = Legacy /\ dir.outputs < MaxOutputs
          /\ dir' = [dir EXCEPT !.outputs = @ + 1]
          /\ UNCHANGED writers
    /\ UNCHANGED legacy
Release01 ==
    /\ LegacyService \/ \E w \in Writers : LegacyWriter(w)
    /\ UNCHANGED <<phase, quarantined, files, pc, path, opened, report, retried, crashes>>

-----------------------------------------------------------------------------
(* Release 0.2 services and tools. *)
Admitted(ph) == IF ph = "missing" THEN "ready" ELSE ph

\* Namespace::acquire and reject_legacy_before_mutation.
Open ==
    /\ pc = "idle" /\ ~opened
    /\ phase \in {"missing", "ready"}
    /\ dir.schema = SCHEMA_VERSION
    /\ phase' = Admitted(phase)
    /\ opened' = TRUE
    /\ report' = FALSE
    /\ UNCHANGED <<dir, quarantined, files, pc, path, legacy, writers, retried, crashes>>

Close ==
    /\ opened /\ opened' = FALSE
    /\ UNCHANGED <<phase, dir, quarantined, files, pc, path, legacy, writers, report, retried, crashes>>

\* The coordinator: submit, complete, and the operator's explicit retry, the
\* only request that clears a hold.
Work(t) ==
    /\ opened /\ ~Replay
    /\ \/ dir.tasks[t] = "none" /\ dir' = [dir EXCEPT !.tasks[t] = "queued"] /\ UNCHANGED retried
       \/ dir.tasks[t] = "queued" /\ dir' = [dir EXCEPT !.tasks[t] = "completed"] /\ UNCHANGED retried
       \/ /\ dir.tasks[t] = "held"
          /\ dir' = [dir EXCEPT !.tasks[t] = "queued"]
          /\ retried' = retried \cup {t}
    /\ UNCHANGED <<phase, quarantined, files, pc, path, legacy, writers, opened, report, crashes>>

-----------------------------------------------------------------------------
(* upgrade. *)
Resumed == operation.file = "full"

\* verify_bundle: every recorded file is there with its size and digest.
Verified(p) == bundles[p].made = "full"

\* legacy_locks and verify_writer_quiescence: no 0.1 service holds its lock, and
\* every recorded workload, managed child and supervisor identity is absent.
Quiescent == ~legacy /\ writers = {}

\* What is checked before anything is written.  A torn operation record does
\* not parse; a recorded one is resumed with the same bundle and no other.
Inspected(p) ==
    /\ operation.file # "torn"
    /\ IF Resumed THEN operation.path = p /\ Verified(p) ELSE bundles[p].made = "none"
    /\ dir.schema = Legacy \/ (dir.schema = SCHEMA_VERSION /\ Resumed)

AlreadyComplete == dir.schema = SCHEMA_VERSION /\ complete # "none"

\* Maintenance::exclusive persists a missing namespace.json before the checks.
Begin(p, step, printed) ==
    /\ pc = "idle" /\ ~opened
    /\ phase' = Admitted(phase)
    /\ pc' = step
    /\ path' = p
    /\ report' = printed
    /\ UNCHANGED <<dir, quarantined, files, world>>

\* A finished upgrade that is run again prints the recorded report.
ReportAgain(p) ==
    /\ ~legacy /\ Inspected(p) /\ AlreadyComplete
    /\ Begin(p, "idle", complete = "full")

StartUpgrade(p) ==
    /\ Inspected(p) /\ ~AlreadyComplete /\ Quiescent
    /\ Begin(p, IF Resumed THEN "intent" ELSE "bundle", FALSE)

RefuseUpgrade(p) ==
    /\ ~(Inspected(p) /\ (Quiescent \/ (AlreadyComplete /\ ~legacy)))
    /\ Begin(p, "idle", FALSE)

Then(step) == pc' = step /\ UNCHANGED <<path, report, world>>

CreateBundle ==
    /\ pc = "bundle"
    /\ bundles' = [bundles EXCEPT ![path].made = "partial"]
    /\ Then("copy")
    /\ UNCHANGED <<phase, dir, quarantined, operation, marker, complete>>

\* copy_tree, the manifest, and the directory syncs.
CopyTree ==
    /\ pc = "copy"
    /\ bundles' = [bundles EXCEPT ![path] = [made |-> "full", tasks |-> Content.tasks,
                                             outputs |-> Content.outputs]]
    /\ Then("operation")
    /\ UNCHANGED <<phase, dir, quarantined, operation, marker, complete>>

WriteOperation ==
    /\ pc = "operation"
    /\ operation' = [file |-> "full", path |-> path]
    /\ Then("intent")
    /\ UNCHANGED <<phase, dir, quarantined, bundles, marker, complete>>

\* Maintenance::record_intent: nobody is admitted from here on.
RecordIntent ==
    /\ pc = "intent" /\ Verified(path)
    /\ phase' = "fencing"
    /\ Then(IF Replay THEN "marker" ELSE "migrate")
    /\ UNCHANGED <<dir, quarantined, files>>

WriteMarker ==
    /\ pc = "marker"
    /\ marker' = IF marker = "none" THEN "full" ELSE marker
    /\ Then("complete")
    /\ UNCHANGED <<phase, dir, quarantined, bundles, operation, complete>>

\* Faulty: only attempts are held, the queue stays as it was.
MigrateWithoutHolds ==
    /\ pc = "migrate"
    /\ dir' = [dir EXCEPT !.schema = SCHEMA_VERSION]
    /\ Then("complete")
    /\ UNCHANGED <<phase, quarantined, files>>

\* migrate_database: one transaction.
Migrate ==
    /\ pc = "migrate"
    /\ dir' = [dir EXCEPT !.schema = SCHEMA_VERSION,
                          !.tasks = [t \in Tasks |-> IF @[t] = "queued" THEN "held" ELSE @[t]]]
    /\ Then("complete")
    /\ UNCHANGED <<phase, quarantined, files>>

WriteComplete ==
    /\ pc = "complete"
    /\ complete' = IF complete = "none" THEN "full" ELSE complete
    /\ Then("ready")
    /\ UNCHANGED <<phase, dir, quarantined, bundles, operation, marker>>

SetReady ==
    /\ pc = "ready"
    /\ phase' = "ready"
    /\ pc' = "idle"
    /\ report' = TRUE
    /\ UNCHANGED <<dir, quarantined, files, path, world>>

-----------------------------------------------------------------------------
(* start_replay_session, as far as it touches the directory. *)
StartRecovery ==
    /\ Replay
    /\ pc = "idle" /\ ~opened
    /\ phase' = "fencing"
    /\ pc' = "require"
    /\ report' = FALSE
    /\ UNCHANGED <<dir, quarantined, files, path, world>>

\* require_replay_upgrade and the 0.1 agent lock.
RequireReplayUpgrade == (dir.schema = Legacy => marker # "none") /\ ~legacy

RecoveryStep ==
    \/ /\ pc = "require"
       /\ Then(IF RequireReplayUpgrade THEN "quarantine" ELSE "idle")
       /\ UNCHANGED <<phase, dir, quarantined, files>>
    \/ /\ pc = "quarantine"
       /\ quarantined' = quarantined \cup ({dir.schema} \ {Absent})
       /\ dir' = [schema |-> Absent, whole |-> FALSE, tasks |-> NoWork, outputs |-> 0]
       /\ Then("initialize")
       /\ UNCHANGED <<phase, files>>
    \/ /\ pc = "initialize"
       /\ phase' = "initializing"
       /\ Then("build")
       /\ UNCHANGED <<dir, quarantined, files>>
    \/ /\ pc = "build"
       /\ dir' = [dir EXCEPT !.schema = SCHEMA_VERSION]
       /\ Then("import")
       /\ UNCHANGED <<phase, quarantined, files>>
    \/ /\ pc = "import"
       /\ dir' = [dir EXCEPT !.whole = TRUE]
       /\ Then("await")
       /\ UNCHANGED <<phase, quarantined, files>>
    \/ /\ pc = "await"
       /\ phase' = "awaiting_readiness"
       /\ Then("activate")
       /\ UNCHANGED <<dir, quarantined, files>>
    \/ /\ pc = "activate"
       /\ phase' = "ready"
       /\ opened' = TRUE
       /\ pc' = "idle"
       /\ UNCHANGED <<dir, quarantined, files, path, legacy, writers, report, retried, crashes>>

-----------------------------------------------------------------------------
\* The process at work dies.  write_new_json creates the file before it writes
\* it: a record that was being written may be left torn.
Torn(step, file) ==
    \/ UNCHANGED file
    \/ pc = step /\ file = "none" /\ file' = "torn"
Crash ==
    /\ pc # "idle" /\ crashes < MaxCrashes
    /\ crashes' = crashes + 1
    /\ pc' = "idle"
    /\ \/ UNCHANGED operation
       \/ pc = "operation" /\ operation' = [file |-> "torn", path |-> path]
    /\ Torn("marker", marker)
    /\ Torn("complete", complete)
    /\ UNCHANGED <<phase, dir, quarantined, bundles, path, legacy, writers, opened, report, retried>>

Next ==
    \/ Release01
    \/ Open \/ Close \/ \E t \in Tasks : Work(t)
    \/ \E p \in Paths : ReportAgain(p) \/ StartUpgrade(p) \/ RefuseUpgrade(p)
    \/ CreateBundle \/ CopyTree \/ WriteOperation \/ RecordIntent
    \/ WriteMarker \/ Migrate \/ WriteComplete \/ SetReady
    \/ StartRecovery \/ RecoveryStep
    \/ Crash

Spec == Init /\ [][Next]_vars

-----------------------------------------------------------------------------
TypeOK ==
    /\ phase \in Phases
    /\ dir \in [schema : {Absent, Legacy, SCHEMA_VERSION}, whole : BOOLEAN,
                tasks : [Tasks -> Status], outputs : 0..MaxOutputs]
    /\ quarantined \subseteq {Legacy, SCHEMA_VERSION}
    /\ bundles \in [Paths -> [made : {"none", "partial", "full"}, tasks : [Tasks -> Status],
                              outputs : 0..MaxOutputs]]
    /\ operation \in [file : Files, path : Paths]
    /\ marker \in Files /\ complete \in Files
    /\ pc \in {"idle"} \cup UpgradeSteps \cup RecoverySteps
    /\ path \in Paths
    /\ legacy \in BOOLEAN /\ writers \subseteq Writers
    /\ opened \in BOOLEAN /\ report \in BOOLEAN
    /\ retried \subseteq Tasks
    /\ crashes \in 0..MaxCrashes

\* The bundle kept for a rollback is the directory as 0.1 left it, whatever was
\* interrupted in between: once the operation is recorded, the bundle it names
\* equals the directory until the migration or the quarantine changes it
\* (legacy_locks, verify_writer_quiescence, copy_tree, upgrade-operation.json).
BundleIsOriginal ==
    operation.file = "full" /\ dir.schema = Legacy =>
        /\ bundles[operation.path].made = "full"
        /\ bundles[operation.path].tasks = dir.tasks
        /\ bundles[operation.path].outputs = dir.outputs

\* Nothing 0.1 wrote is lost: its directory stays in place until a recorded and
\* complete bundle has it (upgrade, require_replay_upgrade, quarantine_replay_state).
LegacyIsBundled ==
    dir.schema # Legacy => operation.file = "full" /\ bundles[operation.path].made = "full"

\* What 0.1 left unfinished is queued under 0.2 only after an explicit retry,
\* and what it had completed stays completed (migrate_database).
LegacyIsHeld ==
    ~Replay /\ opened => \A t \in Tasks :
        LET before == bundles[operation.path].tasks[t] IN
        /\ before = "queued" /\ t \notin retried => dir.tasks[t] = "held"
        /\ before = "completed" => dir.tasks[t] = "completed"

\* Running the upgrade again never puts work of 0.2 on hold
\* (upgrade-complete.json; a condition on steps).
HoldsNoNewWork ==
    \A t \in Tasks :
        dir.schema = SCHEMA_VERSION /\ dir.tasks[t] = "queued" => dir'.tasks[t] # "held"

\* docs/release-0.2-spec.md:173: an interrupted upgrade resumes or remains
\* blocked.  When the command reports the finished upgrade of a durable
\* directory, the directory can be opened.
ReportedIsUsable == report /\ ~Replay => phase = "ready" /\ dir.schema = SCHEMA_VERSION

\* docs/release-0.2-spec.md:60: a crash of the recovery at any stage leaves the
\* node non-ready.
ReadyIsWhole == phase = "ready" => dir.whole
=============================================================================
