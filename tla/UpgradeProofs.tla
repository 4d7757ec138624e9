---------------------------- MODULE UpgradeProofs ----------------------------
(***************************************************************************)
(* Proofs about OfflineUpgrade, for any work, bundles, outputs and crashes,*)
(* of either storage profile.                                              *)
(***************************************************************************)
EXTENDS OfflineUpgrade, TLAPS

(* Release 0.1 is quiet from the moment an upgrade starts to write, and for *)
(* good once the operation is recorded.                                     *)
Quieted ==
    pc \in UpgradeSteps \/ operation.file # "none" => ~legacy /\ writers = {}
Closed == pc # "idle" => ~opened

(* What an upgrade or a recovery has done at a step.                        *)
UpgradeStage ==
    /\ pc \in {"bundle", "copy", "operation"} => operation.file = "none" /\ dir.schema = Legacy
    /\ pc = "operation" => /\ bundles[path].made = "full"
                           /\ bundles[path].tasks = dir.tasks
                           /\ bundles[path].outputs = dir.outputs
    /\ pc \in RecoverySteps \cup {"marker"} => Replay
    /\ pc = "migrate" => ~Replay /\ phase = "fencing"
    /\ pc = "ready" => complete # "none"
    /\ ~Replay /\ pc \in {"intent", "migrate"} /\ dir.schema = SCHEMA_VERSION => complete = "none"

(* Nothing changes the directory's schema before the operation is recorded.  *)
Recorded ==
    /\ \/ pc \in {"intent", "marker", "migrate", "complete", "ready"}
       \/ pc \in RecoverySteps \ {"require"}
       \/ marker # "none"
       \/ dir.schema # Legacy
       => operation.file = "full"
    /\ operation.file = "full" => bundles[operation.path].made = "full"

(* What the migration did to the work of a durable directory.                *)
Migrated ==
    ~Replay =>
        /\ dir.schema # Absent
        /\ opened => dir.schema = SCHEMA_VERSION /\ complete # "none"
        /\ dir.schema = SCHEMA_VERSION => \A t \in Tasks :
              LET before == bundles[operation.path].tasks[t] IN
              /\ before = "queued" /\ t \notin retried => dir.tasks[t] = "held"
              /\ before = "completed" => dir.tasks[t] = "completed"
        /\ dir.schema = SCHEMA_VERSION /\ complete = "none"
              => phase = "fencing" /\ \A t \in Tasks : dir.tasks[t] # "queued"

UpgradeInvariant ==
    TypeOK /\ Quieted /\ Closed /\ UpgradeStage /\ Recorded /\ BundleIsOriginal /\ Migrated

-----------------------------------------------------------------------------
(* Steps of 0.2 services and tools.                                         *)
\* Namespace::acquire.
LEMMA OpenStep ==
    ASSUME UpgradeInvariant, UpgradeAssumption, Open
    PROVE  UpgradeInvariant'
<1>0. /\ TypeOK /\ Quieted /\ Closed /\ UpgradeStage /\ Recorded /\ BundleIsOriginal /\ Migrated
      /\ pc = "idle" /\ ~opened /\ dir.schema = SCHEMA_VERSION
      /\ phase \in {"missing", "ready"} /\ phase' = "ready" /\ opened' = TRUE /\ report' = FALSE
      /\ UNCHANGED <<dir, quarantined, bundles, operation, marker, complete, pc, path, legacy,
                     writers, retried, crashes>>
  BY DEF UpgradeInvariant, Open, Admitted, files
<1>1. TypeOK'
  BY <1>0 DEF TypeOK, Phases, Files, Status, Absent, Legacy, SCHEMA_VERSION, UpgradeSteps,
     RecoverySteps
<1>2. Quieted'
  BY <1>0 DEF Quieted, Absent, Legacy, SCHEMA_VERSION, UpgradeSteps, RecoverySteps
<1>3. Closed'
  BY <1>0 DEF Closed
<1>4. UpgradeStage'
  BY <1>0 DEF UpgradeStage, Recorded, Migrated, TypeOK, Absent, Legacy, SCHEMA_VERSION,
     UpgradeSteps, RecoverySteps
<1>5. Recorded'
  BY <1>0 DEF Recorded, UpgradeStage, TypeOK, Absent, Legacy, SCHEMA_VERSION, UpgradeSteps,
     RecoverySteps
<1>6. BundleIsOriginal'
  BY <1>0 DEF BundleIsOriginal, UpgradeStage, Recorded, Quieted, TypeOK, Absent, Legacy,
     SCHEMA_VERSION, UpgradeSteps, RecoverySteps
<1>7. Migrated'
  BY <1>0 DEF Migrated, UpgradeStage, Recorded, BundleIsOriginal, Closed, TypeOK, Absent,
     Legacy,
     SCHEMA_VERSION, UpgradeSteps, RecoverySteps
<1> QED
  BY <1>1, <1>2, <1>3, <1>4, <1>5, <1>6, <1>7 DEF UpgradeInvariant

\* The last handle is closed.
LEMMA CloseStep ==
    ASSUME UpgradeInvariant, UpgradeAssumption, Close
    PROVE  UpgradeInvariant'
<1>0. /\ TypeOK /\ Quieted /\ Closed /\ UpgradeStage /\ Recorded /\ BundleIsOriginal /\ Migrated
      /\ opened /\ opened' = FALSE
      /\ UNCHANGED <<phase, dir, quarantined, bundles, operation, marker, complete, pc, path,
                     legacy, writers, report, retried, crashes>>
  BY DEF UpgradeInvariant, Close, files
<1>1. TypeOK'
  BY <1>0 DEF TypeOK
<1>2. Quieted'
  BY <1>0 DEF Quieted, Absent, Legacy, SCHEMA_VERSION, UpgradeSteps, RecoverySteps
<1>3. Closed'
  BY <1>0 DEF Closed
<1>4. UpgradeStage'
  BY <1>0 DEF UpgradeStage, Recorded, Migrated, TypeOK, Absent, Legacy, SCHEMA_VERSION,
     UpgradeSteps, RecoverySteps
<1>5. Recorded'
  BY <1>0 DEF Recorded, UpgradeStage, TypeOK, Absent, Legacy, SCHEMA_VERSION, UpgradeSteps,
     RecoverySteps
<1>6. BundleIsOriginal'
  BY <1>0 DEF BundleIsOriginal, UpgradeStage, Recorded, Quieted, TypeOK, Absent, Legacy,
     SCHEMA_VERSION, UpgradeSteps, RecoverySteps
<1>7. Migrated'
  BY <1>0 DEF Migrated, UpgradeStage, Recorded, BundleIsOriginal, Closed, TypeOK, Absent,
     Legacy,
     SCHEMA_VERSION, UpgradeSteps, RecoverySteps
<1> QED
  BY <1>1, <1>2, <1>3, <1>4, <1>5, <1>6, <1>7 DEF UpgradeInvariant

-----------------------------------------------------------------------------
(* The upgrade, step by step.                                               *)
\* A bundle that is being written is named by no operation.
LEMMA CreateBundleStep ==
    ASSUME UpgradeInvariant, UpgradeAssumption, CreateBundle
    PROVE  UpgradeInvariant'
<1>0. /\ TypeOK /\ Quieted /\ Closed /\ UpgradeStage /\ Recorded /\ BundleIsOriginal /\ Migrated
      /\ pc = "bundle" /\ pc' = "copy"
      /\ bundles' = [bundles EXCEPT ![path].made = "partial"]
      /\ UNCHANGED <<phase, dir, quarantined, operation, marker, complete>>
      /\ UNCHANGED <<path, report, legacy, writers, opened, retried, crashes>>
  BY DEF UpgradeInvariant, CreateBundle, Then, world
<1>1. TypeOK'
  BY <1>0 DEF TypeOK, Phases, Files, Status, Absent, Legacy, SCHEMA_VERSION, UpgradeSteps,
     RecoverySteps
<1>2. Quieted'
  BY <1>0 DEF Quieted, Absent, Legacy, SCHEMA_VERSION, UpgradeSteps, RecoverySteps
<1>3. Closed'
  BY <1>0 DEF Closed
<1>4. UpgradeStage'
  BY <1>0 DEF UpgradeStage, Recorded, Migrated, TypeOK, Absent, Legacy, SCHEMA_VERSION,
     UpgradeSteps, RecoverySteps
<1>5. Recorded'
  BY <1>0 DEF Recorded, UpgradeStage, TypeOK, Absent, Legacy, SCHEMA_VERSION, UpgradeSteps,
     RecoverySteps
<1>6. BundleIsOriginal'
  BY <1>0 DEF BundleIsOriginal, UpgradeStage, Recorded, Quieted, TypeOK, Absent, Legacy,
     SCHEMA_VERSION, UpgradeSteps, RecoverySteps
<1>7. Migrated'
  BY <1>0 DEF Migrated, UpgradeStage, Recorded, BundleIsOriginal, Closed, TypeOK, Absent,
     Legacy,
     SCHEMA_VERSION, UpgradeSteps, RecoverySteps
<1> QED
  BY <1>1, <1>2, <1>3, <1>4, <1>5, <1>6, <1>7 DEF UpgradeInvariant

\* The directory is copied while nothing of 0.1 can write to it.
LEMMA CopyTreeStep ==
    ASSUME UpgradeInvariant, UpgradeAssumption, CopyTree
    PROVE  UpgradeInvariant'
<1>0. /\ TypeOK /\ Quieted /\ Closed /\ UpgradeStage /\ Recorded /\ BundleIsOriginal /\ Migrated
      /\ pc = "copy" /\ pc' = "operation"
      /\ bundles' = [bundles EXCEPT ![path] = [made |-> "full", tasks |-> dir.tasks, outputs |-> dir.outputs]]
      /\ UNCHANGED <<phase, dir, quarantined, operation, marker, complete>>
      /\ UNCHANGED <<path, report, legacy, writers, opened, retried, crashes>>
  BY DEF UpgradeInvariant, CopyTree, Then, world, Content
<1>1. TypeOK'
  BY <1>0 DEF TypeOK, Phases, Files, Status, Absent, Legacy, SCHEMA_VERSION, UpgradeSteps,
     RecoverySteps
<1>2. Quieted'
  BY <1>0 DEF Quieted, Absent, Legacy, SCHEMA_VERSION, UpgradeSteps, RecoverySteps
<1>3. Closed'
  BY <1>0 DEF Closed
<1>4. UpgradeStage'
  BY <1>0 DEF UpgradeStage, Recorded, Migrated, TypeOK, Absent, Legacy, SCHEMA_VERSION,
     UpgradeSteps, RecoverySteps
<1>5. Recorded'
  BY <1>0 DEF Recorded, UpgradeStage, TypeOK, Absent, Legacy, SCHEMA_VERSION, UpgradeSteps,
     RecoverySteps
<1>6. BundleIsOriginal'
  BY <1>0 DEF BundleIsOriginal, UpgradeStage, Recorded, Quieted, TypeOK, Absent, Legacy,
     SCHEMA_VERSION, UpgradeSteps, RecoverySteps
<1>7. Migrated'
  BY <1>0 DEF Migrated, UpgradeStage, Recorded, BundleIsOriginal, Closed, TypeOK, Absent,
     Legacy,
     SCHEMA_VERSION, UpgradeSteps, RecoverySteps
<1> QED
  BY <1>1, <1>2, <1>3, <1>4, <1>5, <1>6, <1>7 DEF UpgradeInvariant

\* The operation names the bundle that was just finished.
LEMMA WriteOperationStep ==
    ASSUME UpgradeInvariant, UpgradeAssumption, WriteOperation
    PROVE  UpgradeInvariant'
<1>0. /\ TypeOK /\ Quieted /\ Closed /\ UpgradeStage /\ Recorded /\ BundleIsOriginal /\ Migrated
      /\ pc = "operation" /\ pc' = "intent"
      /\ operation' = [file |-> "full", path |-> path]
      /\ UNCHANGED <<phase, dir, quarantined, bundles, marker, complete>>
      /\ UNCHANGED <<path, report, legacy, writers, opened, retried, crashes>>
  BY DEF UpgradeInvariant, WriteOperation, Then, world
<1>1. TypeOK'
  BY <1>0 DEF TypeOK, Phases, Files, Status, Absent, Legacy, SCHEMA_VERSION, UpgradeSteps,
     RecoverySteps
<1>2. Quieted'
  BY <1>0 DEF Quieted, Absent, Legacy, SCHEMA_VERSION, UpgradeSteps, RecoverySteps
<1>3. Closed'
  BY <1>0 DEF Closed
<1>4. UpgradeStage'
  BY <1>0 DEF UpgradeStage, Recorded, Migrated, TypeOK, Absent, Legacy, SCHEMA_VERSION,
     UpgradeSteps, RecoverySteps
<1>5. Recorded'
  BY <1>0 DEF Recorded, UpgradeStage, TypeOK, Absent, Legacy, SCHEMA_VERSION, UpgradeSteps,
     RecoverySteps
<1>6. BundleIsOriginal'
  BY <1>0 DEF BundleIsOriginal, UpgradeStage, Recorded, Quieted, TypeOK, Absent, Legacy,
     SCHEMA_VERSION, UpgradeSteps, RecoverySteps
<1>7. Migrated'
  BY <1>0 DEF Migrated, UpgradeStage, Recorded, BundleIsOriginal, Closed, TypeOK, Absent,
     Legacy,
     SCHEMA_VERSION, UpgradeSteps, RecoverySteps
<1> QED
  BY <1>1, <1>2, <1>3, <1>4, <1>5, <1>6, <1>7 DEF UpgradeInvariant

\* Nobody is admitted from here on.
LEMMA RecordIntentStep ==
    ASSUME UpgradeInvariant, UpgradeAssumption, RecordIntent
    PROVE  UpgradeInvariant'
<1>0. /\ TypeOK /\ Quieted /\ Closed /\ UpgradeStage /\ Recorded /\ BundleIsOriginal /\ Migrated
      /\ pc = "intent" /\ phase' = "fencing" /\ pc' = IF Replay THEN "marker" ELSE "migrate"
      /\ UNCHANGED <<dir, quarantined, bundles, operation, marker, complete>>
      /\ UNCHANGED <<path, report, legacy, writers, opened, retried, crashes>>
  BY DEF UpgradeInvariant, RecordIntent, Then, world, files
<1>1. TypeOK'
  BY <1>0 DEF TypeOK, Phases, Files, Status, Absent, Legacy, SCHEMA_VERSION, UpgradeSteps,
     RecoverySteps
<1>2. Quieted'
  BY <1>0 DEF Quieted, Absent, Legacy, SCHEMA_VERSION, UpgradeSteps, RecoverySteps
<1>3. Closed'
  BY <1>0 DEF Closed
<1>4. UpgradeStage'
  BY <1>0 DEF UpgradeStage, Recorded, Migrated, TypeOK, Absent, Legacy, SCHEMA_VERSION,
     UpgradeSteps, RecoverySteps
<1>5. Recorded'
  BY <1>0 DEF Recorded, UpgradeStage, TypeOK, Absent, Legacy, SCHEMA_VERSION, UpgradeSteps,
     RecoverySteps
<1>6. BundleIsOriginal'
  BY <1>0 DEF BundleIsOriginal, UpgradeStage, Recorded, Quieted, TypeOK, Absent, Legacy,
     SCHEMA_VERSION, UpgradeSteps, RecoverySteps
<1>7. Migrated'
  BY <1>0 DEF Migrated, UpgradeStage, Recorded, BundleIsOriginal, Closed, TypeOK, Absent,
     Legacy,
     SCHEMA_VERSION, UpgradeSteps, RecoverySteps
<1> QED
  BY <1>1, <1>2, <1>3, <1>4, <1>5, <1>6, <1>7 DEF UpgradeInvariant

\* legacy-replay-upgrade.json.
LEMMA WriteMarkerStep ==
    ASSUME UpgradeInvariant, UpgradeAssumption, WriteMarker
    PROVE  UpgradeInvariant'
<1>0. /\ TypeOK /\ Quieted /\ Closed /\ UpgradeStage /\ Recorded /\ BundleIsOriginal /\ Migrated
      /\ pc = "marker" /\ pc' = "complete"
      /\ marker' \in {"full", marker} /\ marker' # "none"
      /\ UNCHANGED <<phase, dir, quarantined, bundles, operation, complete>>
      /\ UNCHANGED <<path, report, legacy, writers, opened, retried, crashes>>
  BY DEF UpgradeInvariant, WriteMarker, Then, world
<1>1. TypeOK'
  BY <1>0 DEF TypeOK, Phases, Files, Status, Absent, Legacy, SCHEMA_VERSION, UpgradeSteps,
     RecoverySteps
<1>2. Quieted'
  BY <1>0 DEF Quieted, Absent, Legacy, SCHEMA_VERSION, UpgradeSteps, RecoverySteps
<1>3. Closed'
  BY <1>0 DEF Closed
<1>4. UpgradeStage'
  BY <1>0 DEF UpgradeStage, Recorded, Migrated, TypeOK, Absent, Legacy, SCHEMA_VERSION,
     UpgradeSteps, RecoverySteps
<1>5. Recorded'
  BY <1>0 DEF Recorded, UpgradeStage, TypeOK, Absent, Legacy, SCHEMA_VERSION, UpgradeSteps,
     RecoverySteps
<1>6. BundleIsOriginal'
  BY <1>0 DEF BundleIsOriginal, UpgradeStage, Recorded, Quieted, TypeOK, Absent, Legacy,
     SCHEMA_VERSION, UpgradeSteps, RecoverySteps
<1>7. Migrated'
  BY <1>0 DEF Migrated, UpgradeStage, Recorded, BundleIsOriginal, Closed, TypeOK, Absent,
     Legacy,
     SCHEMA_VERSION, UpgradeSteps, RecoverySteps
<1> QED
  BY <1>1, <1>2, <1>3, <1>4, <1>5, <1>6, <1>7 DEF UpgradeInvariant

\* migrate_database, also when it is run again.
LEMMA MigrateStep ==
    ASSUME UpgradeInvariant, UpgradeAssumption, Migrate
    PROVE  UpgradeInvariant'
<1>0. /\ TypeOK /\ Quieted /\ Closed /\ UpgradeStage /\ Recorded /\ BundleIsOriginal /\ Migrated
      /\ pc = "migrate" /\ pc' = "complete"
      /\ dir' = [dir EXCEPT !.schema = SCHEMA_VERSION,
                            !.tasks = [t \in Tasks |-> IF dir.tasks[t] = "queued" THEN "held"
                                                       ELSE dir.tasks[t]]]
      /\ UNCHANGED <<phase, quarantined, bundles, operation, marker, complete>>
      /\ UNCHANGED <<path, report, legacy, writers, opened, retried, crashes>>
  BY DEF UpgradeInvariant, Migrate, Then, world, files
<1>1. TypeOK'
  BY ZenonT(40), <1>0 DEF TypeOK, Phases, Files, Status, Absent, Legacy, SCHEMA_VERSION, UpgradeSteps,
     RecoverySteps
<1>2. Quieted'
  BY <1>0 DEF Quieted, Absent, Legacy, SCHEMA_VERSION, UpgradeSteps, RecoverySteps
<1>3. Closed'
  BY <1>0 DEF Closed
<1>4. UpgradeStage'
  BY <1>0 DEF UpgradeStage, Recorded, Migrated, TypeOK, Absent, Legacy, SCHEMA_VERSION,
     UpgradeSteps, RecoverySteps
<1>5. Recorded'
  BY <1>0 DEF Recorded, UpgradeStage, TypeOK, Absent, Legacy, SCHEMA_VERSION, UpgradeSteps,
     RecoverySteps
<1>6. BundleIsOriginal'
  BY <1>0 DEF BundleIsOriginal, UpgradeStage, Recorded, Quieted, TypeOK, Absent, Legacy,
     SCHEMA_VERSION, UpgradeSteps, RecoverySteps
<1>7. Migrated'
  BY <1>0 DEF Migrated, UpgradeStage, Recorded, BundleIsOriginal, Closed, TypeOK, Absent,
     Legacy,
     SCHEMA_VERSION, UpgradeSteps, RecoverySteps
<1> QED
  BY <1>1, <1>2, <1>3, <1>4, <1>5, <1>6, <1>7 DEF UpgradeInvariant

\* upgrade-complete.json.
LEMMA WriteCompleteStep ==
    ASSUME UpgradeInvariant, UpgradeAssumption, WriteComplete
    PROVE  UpgradeInvariant'
<1>0. /\ TypeOK /\ Quieted /\ Closed /\ UpgradeStage /\ Recorded /\ BundleIsOriginal /\ Migrated
      /\ pc = "complete" /\ pc' = "ready"
      /\ complete' \in {"full", complete} /\ complete' # "none"
      /\ UNCHANGED <<phase, dir, quarantined, bundles, operation, marker>>
      /\ UNCHANGED <<path, report, legacy, writers, opened, retried, crashes>>
  BY DEF UpgradeInvariant, WriteComplete, Then, world
<1>1. TypeOK'
  BY <1>0 DEF TypeOK, Phases, Files, Status, Absent, Legacy, SCHEMA_VERSION, UpgradeSteps,
     RecoverySteps
<1>2. Quieted'
  BY <1>0 DEF Quieted, Absent, Legacy, SCHEMA_VERSION, UpgradeSteps, RecoverySteps
<1>3. Closed'
  BY <1>0 DEF Closed
<1>4. UpgradeStage'
  BY <1>0 DEF UpgradeStage, Recorded, Migrated, TypeOK, Absent, Legacy, SCHEMA_VERSION,
     UpgradeSteps, RecoverySteps
<1>5. Recorded'
  BY <1>0 DEF Recorded, UpgradeStage, TypeOK, Absent, Legacy, SCHEMA_VERSION, UpgradeSteps,
     RecoverySteps
<1>6. BundleIsOriginal'
  BY <1>0 DEF BundleIsOriginal, UpgradeStage, Recorded, Quieted, TypeOK, Absent, Legacy,
     SCHEMA_VERSION, UpgradeSteps, RecoverySteps
<1>7. Migrated'
  BY <1>0 DEF Migrated, UpgradeStage, Recorded, BundleIsOriginal, Closed, TypeOK, Absent,
     Legacy,
     SCHEMA_VERSION, UpgradeSteps, RecoverySteps
<1> QED
  BY <1>1, <1>2, <1>3, <1>4, <1>5, <1>6, <1>7 DEF UpgradeInvariant

\* The namespace is ready again.
LEMMA SetReadyStep ==
    ASSUME UpgradeInvariant, UpgradeAssumption, SetReady
    PROVE  UpgradeInvariant'
<1>0. /\ TypeOK /\ Quieted /\ Closed /\ UpgradeStage /\ Recorded /\ BundleIsOriginal /\ Migrated
      /\ pc = "ready" /\ pc' = "idle" /\ phase' = "ready" /\ report' = TRUE
      /\ UNCHANGED <<dir, quarantined, bundles, operation, marker, complete, path, legacy, writers,
                     opened, retried, crashes>>
  BY DEF UpgradeInvariant, SetReady, world, files
<1>1. TypeOK'
  BY <1>0 DEF TypeOK, Phases, Files, Status, Absent, Legacy, SCHEMA_VERSION, UpgradeSteps,
     RecoverySteps
<1>2. Quieted'
  BY <1>0 DEF Quieted, Absent, Legacy, SCHEMA_VERSION, UpgradeSteps, RecoverySteps
<1>3. Closed'
  BY <1>0 DEF Closed
<1>4. UpgradeStage'
  BY <1>0 DEF UpgradeStage, Recorded, Migrated, TypeOK, Absent, Legacy, SCHEMA_VERSION,
     UpgradeSteps, RecoverySteps
<1>5. Recorded'
  BY <1>0 DEF Recorded, UpgradeStage, TypeOK, Absent, Legacy, SCHEMA_VERSION, UpgradeSteps,
     RecoverySteps
<1>6. BundleIsOriginal'
  BY <1>0 DEF BundleIsOriginal, UpgradeStage, Recorded, Quieted, TypeOK, Absent, Legacy,
     SCHEMA_VERSION, UpgradeSteps, RecoverySteps
<1>7. Migrated'
  BY <1>0 DEF Migrated, UpgradeStage, Recorded, BundleIsOriginal, Closed, TypeOK, Absent,
     Legacy,
     SCHEMA_VERSION, UpgradeSteps, RecoverySteps
<1> QED
  BY <1>1, <1>2, <1>3, <1>4, <1>5, <1>6, <1>7 DEF UpgradeInvariant

\* start_replay_session.
LEMMA StartRecoveryStep ==
    ASSUME UpgradeInvariant, UpgradeAssumption, StartRecovery
    PROVE  UpgradeInvariant'
<1>0. /\ TypeOK /\ Quieted /\ Closed /\ UpgradeStage /\ Recorded /\ BundleIsOriginal /\ Migrated
      /\ Replay /\ pc = "idle" /\ ~opened /\ pc' = "require" /\ phase' = "fencing" /\ report' = FALSE
      /\ UNCHANGED <<dir, quarantined, bundles, operation, marker, complete, path, legacy, writers,
                     opened, retried, crashes>>
  BY DEF UpgradeInvariant, StartRecovery, world, files
<1>1. TypeOK'
  BY <1>0 DEF TypeOK, Phases, Files, Status, Absent, Legacy, SCHEMA_VERSION, UpgradeSteps,
     RecoverySteps
<1>2. Quieted'
  BY <1>0 DEF Quieted, Absent, Legacy, SCHEMA_VERSION, UpgradeSteps, RecoverySteps
<1>3. Closed'
  BY <1>0 DEF Closed
<1>4. UpgradeStage'
  BY <1>0 DEF UpgradeStage, Recorded, Migrated, TypeOK, Absent, Legacy, SCHEMA_VERSION,
     UpgradeSteps, RecoverySteps
<1>5. Recorded'
  BY <1>0 DEF Recorded, UpgradeStage, TypeOK, Absent, Legacy, SCHEMA_VERSION, UpgradeSteps,
     RecoverySteps
<1>6. BundleIsOriginal'
  BY <1>0 DEF BundleIsOriginal, UpgradeStage, Recorded, Quieted, TypeOK, Absent, Legacy,
     SCHEMA_VERSION, UpgradeSteps, RecoverySteps
<1>7. Migrated'
  BY <1>0 DEF Migrated, UpgradeStage, Recorded, BundleIsOriginal, Closed, TypeOK, Absent,
     Legacy,
     SCHEMA_VERSION, UpgradeSteps, RecoverySteps
<1> QED
  BY <1>1, <1>2, <1>3, <1>4, <1>5, <1>6, <1>7 DEF UpgradeInvariant

-----------------------------------------------------------------------------
(* Release 0.1, the work of 0.2, the commands and the recoveries.           *)

\* One task of the ledger gets another status.
LEMMA TaskSet ==
    ASSUME TypeOK, NEW t \in Tasks, NEW v \in Status, dir' = [dir EXCEPT !.tasks[t] = v]
    PROVE  /\ dir' \in [schema : {Absent, Legacy, SCHEMA_VERSION}, whole : BOOLEAN,
                         tasks : [Tasks -> Status], outputs : 0..MaxOutputs]
           /\ dir'.schema = dir.schema /\ dir'.tasks[t] = v
           /\ \A u \in Tasks \ {t} : dir'.tasks[u] = dir.tasks[u]
<1>1. dir \in [schema : {Absent, Legacy, SCHEMA_VERSION}, whole : BOOLEAN,
               tasks : [Tasks -> Status], outputs : 0..MaxOutputs]
  BY DEF TypeOK
<1>2. dir' = [schema |-> dir.schema, whole |-> dir.whole, tasks |-> [dir.tasks EXCEPT ![t] = v],
              outputs |-> dir.outputs]
  BY <1>1
<1>3. [dir.tasks EXCEPT ![t] = v] \in [Tasks -> Status]
  BY <1>1
<1>4. dir'.tasks[t] = v /\ \A u \in Tasks \ {t} : dir'.tasks[u] = dir.tasks[u]
  BY <1>1, <1>2
<1> QED
  BY <1>1, <1>2, <1>3, <1>4

\* Release 0.1 writes only where no operation is recorded and no upgrade at work.
LEMMA Release01Effect ==
    ASSUME UpgradeInvariant, UpgradeAssumption, Release01
    PROVE  /\ UNCHANGED <<phase, quarantined, bundles, operation, marker, complete, pc, path,
                          opened, report, retried, crashes>>
           /\ legacy' \in BOOLEAN /\ writers' \subseteq Writers
           /\ dir' \in [schema : {Absent, Legacy, SCHEMA_VERSION}, whole : BOOLEAN,
                         tasks : [Tasks -> Status], outputs : 0..MaxOutputs]
           /\ dir' = dir \/ (dir'.schema = Legacy /\ dir.schema = Legacy)
           /\ pc \in UpgradeSteps \/ operation.file # "none"
                 => ~legacy' /\ writers' = {} /\ dir' = dir
<1>1. TypeOK /\ Quieted /\ UNCHANGED <<phase, quarantined, bundles, operation, marker, complete, pc,
                                       path, opened, report, retried, crashes>>
  BY DEF UpgradeInvariant, Release01, files
<1>2. /\ dir \in [schema : {Absent, Legacy, SCHEMA_VERSION}, whole : BOOLEAN,
                   tasks : [Tasks -> Status], outputs : 0..MaxOutputs]
      /\ legacy \in BOOLEAN /\ writers \subseteq Writers
      /\ pc \in UpgradeSteps \/ operation.file # "none" => ~legacy /\ writers = {}
  BY <1>1 DEF TypeOK, Quieted
<1>3. CASE LegacyService
  <2>1. CASE legacy /\ legacy' = FALSE /\ UNCHANGED <<dir, writers>>
    BY <1>1, <1>2, <2>1
  <2>2. CASE ~legacy /\ pc = "idle" /\ operation.file = "none" /\ legacy' = TRUE
             /\ UNCHANGED <<dir, writers>>
    BY <1>1, <1>2, <2>2 DEF UpgradeSteps
  <2>3. ASSUME NEW t \in Tasks, legacy, dir.schema = Legacy, UNCHANGED <<legacy, writers>>,
               dir' = [dir EXCEPT !.tasks[t] = IF @ = "none" THEN "queued" ELSE "completed"]
        PROVE  /\ legacy' \in BOOLEAN /\ writers' \subseteq Writers
               /\ dir' \in [schema : {Absent, Legacy, SCHEMA_VERSION}, whole : BOOLEAN,
                             tasks : [Tasks -> Status], outputs : 0..MaxOutputs]
               /\ dir'.schema = Legacy
    <3>1. (IF dir.tasks[t] = "none" THEN "queued" ELSE "completed") \in Status
      BY DEF Status
    <3> QED
      BY <1>1, <1>2, <2>3, <3>1, TaskSet
  <2> QED
    BY <1>1, <1>2, <1>3, <2>1, <2>2, <2>3 DEF LegacyService
<1>4. CASE \E w \in Writers : LegacyWriter(w)
  <2>1. PICK w \in Writers : LegacyWriter(w)
    BY <1>4
  <2>2. CASE writers' = writers \ {w} /\ UNCHANGED dir
    BY <1>1, <1>2, <2>1, <2>2 DEF LegacyWriter
  <2>3. CASE /\ dir.schema = Legacy /\ dir.outputs < MaxOutputs
             /\ dir' = [dir EXCEPT !.outputs = @ + 1] /\ UNCHANGED writers
    <3>1. dir.outputs + 1 \in 0..MaxOutputs
      BY <1>2, <2>3 DEF UpgradeAssumption
    <3>2. dir' = [schema |-> dir.schema, whole |-> dir.whole, tasks |-> dir.tasks,
                  outputs |-> dir.outputs + 1]
      BY <1>2, <2>3
    <3>3. w \in writers /\ UNCHANGED legacy
      BY <2>1 DEF LegacyWriter
    <3> QED
      BY <1>1, <1>2, <2>3, <3>1, <3>2, <3>3
  <2> QED
    BY <2>1, <2>2, <2>3 DEF LegacyWriter
<1> QED
  BY <1>1, <1>3, <1>4 DEF Release01

LEMMA Release01Step ==
    ASSUME UpgradeInvariant, UpgradeAssumption, Release01
    PROVE  UpgradeInvariant'
<1>0. /\ TypeOK /\ Quieted /\ Closed /\ UpgradeStage /\ Recorded /\ BundleIsOriginal /\ Migrated
      /\ UNCHANGED <<phase, quarantined, bundles, operation, marker, complete, pc, path, opened,
                     report, retried, crashes>>
      /\ legacy' \in BOOLEAN /\ writers' \subseteq Writers
      /\ dir' \in [schema : {Absent, Legacy, SCHEMA_VERSION}, whole : BOOLEAN,
                    tasks : [Tasks -> Status], outputs : 0..MaxOutputs]
      /\ dir' = dir \/ (dir'.schema = Legacy /\ dir.schema = Legacy)
      /\ pc \in UpgradeSteps \/ operation.file # "none" => ~legacy' /\ writers' = {} /\ dir' = dir
  BY Release01Effect DEF UpgradeInvariant
<1>1. TypeOK'
  BY <1>0 DEF TypeOK
<1>2. Quieted'
  BY <1>0 DEF Quieted
<1>3. Closed'
  BY <1>0 DEF Closed
<1>4. UpgradeStage'
  BY <1>0 DEF UpgradeStage, UpgradeSteps, Legacy, SCHEMA_VERSION
<1>5. Recorded'
  BY <1>0 DEF Recorded, Legacy
<1>6. BundleIsOriginal'
  BY <1>0 DEF BundleIsOriginal
<1>7. Migrated'
  BY <1>0 DEF Migrated, Absent, Legacy, SCHEMA_VERSION
<1> QED
  BY <1>1, <1>2, <1>3, <1>4, <1>5, <1>6, <1>7 DEF UpgradeInvariant

\* The coordinator, and the explicit retry.
LEMMA WorkStep ==
    ASSUME UpgradeInvariant, UpgradeAssumption, NEW t \in Tasks, Work(t)
    PROVE  UpgradeInvariant'
<1>0. /\ TypeOK /\ Quieted /\ Closed /\ UpgradeStage /\ Recorded /\ BundleIsOriginal /\ Migrated
      /\ opened /\ ~Replay
      /\ UNCHANGED <<phase, quarantined, bundles, operation, marker, complete, pc, path, legacy,
                     writers, opened, report, crashes>>
  BY DEF UpgradeInvariant, Work, files
<1>1. PICK v \in {"queued", "completed"} :
        /\ dir' = [dir EXCEPT !.tasks[t] = v]
        /\ \/ dir.tasks[t] \in {"none", "queued"} /\ retried' = retried
           \/ dir.tasks[t] = "held" /\ v = "queued" /\ retried' = retried \cup {t}
  BY DEF Work
<1>2. /\ dir' \in [schema : {Absent, Legacy, SCHEMA_VERSION}, whole : BOOLEAN,
                    tasks : [Tasks -> Status], outputs : 0..MaxOutputs]
      /\ dir'.schema = dir.schema /\ dir'.tasks[t] = v
      /\ \A u \in Tasks \ {t} : dir'.tasks[u] = dir.tasks[u]
  BY <1>0, <1>1, TaskSet DEF Status
<1>3. dir.schema = SCHEMA_VERSION /\ complete # "none" /\ pc = "idle"
  BY <1>0 DEF Migrated, Closed
<1>4. TypeOK'
  BY <1>0, <1>1, <1>2 DEF TypeOK
<1>5. Quieted' /\ Closed' /\ UpgradeStage' /\ Recorded'
  BY <1>0, <1>2, <1>3 DEF Quieted, Closed, UpgradeStage, Recorded, UpgradeSteps, RecoverySteps
<1>6. BundleIsOriginal'
  BY <1>2, <1>3 DEF BundleIsOriginal, Legacy, SCHEMA_VERSION
<1>7. Migrated'
  BY <1>0, <1>1, <1>2, <1>3 DEF Migrated
<1> QED
  BY <1>4, <1>5, <1>6, <1>7 DEF UpgradeInvariant

\* A command that does no more than look.
LEMMA LookStep ==
    ASSUME UpgradeInvariant, UpgradeAssumption, NEW p \in Paths,
    ReportAgain(p) \/ RefuseUpgrade(p)
    PROVE  UpgradeInvariant'
<1>0. /\ TypeOK /\ Quieted /\ Closed /\ UpgradeStage /\ Recorded /\ BundleIsOriginal /\ Migrated
      /\ pc = "idle" /\ ~opened /\ pc' = "idle" /\ path' = p /\ report' \in BOOLEAN
      /\ phase' = IF phase = "missing" THEN "ready" ELSE phase
      /\ UNCHANGED <<dir, quarantined, bundles, operation, marker, complete, legacy, writers,
                     opened, retried, crashes>>
  BY DEF UpgradeInvariant, ReportAgain, RefuseUpgrade, Begin, Admitted, files, world
<1>1. TypeOK'
  BY <1>0 DEF TypeOK, Phases, Files, Status, Absent, Legacy, SCHEMA_VERSION, UpgradeSteps,
     RecoverySteps
<1>2. Quieted'
  BY <1>0 DEF Quieted, Absent, Legacy, SCHEMA_VERSION, UpgradeSteps, RecoverySteps
<1>3. Closed'
  BY <1>0 DEF Closed
<1>4. UpgradeStage'
  BY <1>0 DEF UpgradeStage, Recorded, Migrated, TypeOK, Absent, Legacy, SCHEMA_VERSION,
     UpgradeSteps, RecoverySteps
<1>5. Recorded'
  BY <1>0 DEF Recorded, UpgradeStage, TypeOK, Absent, Legacy, SCHEMA_VERSION, UpgradeSteps,
     RecoverySteps
<1>6. BundleIsOriginal'
  BY <1>0 DEF BundleIsOriginal, UpgradeStage, Recorded, Quieted, TypeOK, Absent, Legacy,
     SCHEMA_VERSION, UpgradeSteps, RecoverySteps
<1>7. Migrated'
  BY <1>0 DEF Migrated, UpgradeStage, Recorded, BundleIsOriginal, Closed, TypeOK, Absent,
     Legacy,
     SCHEMA_VERSION, UpgradeSteps, RecoverySteps
<1> QED
  BY <1>1, <1>2, <1>3, <1>4, <1>5, <1>6, <1>7 DEF UpgradeInvariant

\* An upgrade starts to write, or is resumed with the bundle it recorded.
LEMMA StartUpgradeStep ==
    ASSUME UpgradeInvariant, UpgradeAssumption, NEW p \in Paths, StartUpgrade(p)
    PROVE  UpgradeInvariant'
<1>0. /\ TypeOK /\ Quieted /\ Closed /\ UpgradeStage /\ Recorded /\ BundleIsOriginal /\ Migrated
      /\ pc = "idle" /\ ~opened /\ path' = p /\ report' = FALSE /\ ~legacy /\ writers = {}
      /\ pc' = IF operation.file = "full" THEN "intent" ELSE "bundle"
      /\ operation.file = "full" => operation.path = p
      /\ operation.file # "torn" /\ (dir.schema = Legacy \/ operation.file = "full")
      /\ dir.schema = SCHEMA_VERSION => complete = "none"
      /\ phase' = IF phase = "missing" THEN "ready" ELSE phase
      /\ UNCHANGED <<dir, quarantined, bundles, operation, marker, complete, legacy, writers,
                     opened, retried, crashes>>
  BY DEF UpgradeInvariant, StartUpgrade, Inspected, Verified, Resumed, AlreadyComplete,
     Quiescent,
     Begin, Admitted, files, world
<1>1. TypeOK'
  BY ZenonT(40), <1>0 DEF TypeOK, Phases, Files, Status, Absent, Legacy, SCHEMA_VERSION, UpgradeSteps,
     RecoverySteps
<1>2. Quieted'
  BY <1>0 DEF Quieted, Absent, Legacy, SCHEMA_VERSION, UpgradeSteps, RecoverySteps
<1>3. Closed'
  BY <1>0 DEF Closed
<1>4. UpgradeStage'
  BY <1>0 DEF Files, UpgradeStage, Recorded, Migrated, TypeOK, Absent, Legacy, SCHEMA_VERSION,
     UpgradeSteps, RecoverySteps
<1>5. Recorded'
  BY <1>0 DEF Recorded, UpgradeStage, TypeOK, Absent, Legacy, SCHEMA_VERSION, UpgradeSteps,
     RecoverySteps
<1>6. BundleIsOriginal'
  BY <1>0 DEF BundleIsOriginal, UpgradeStage, Recorded, Quieted, TypeOK, Absent, Legacy,
     SCHEMA_VERSION, UpgradeSteps, RecoverySteps
<1>7. Migrated'
  BY <1>0 DEF Migrated, UpgradeStage, Recorded, BundleIsOriginal, Closed, TypeOK, Absent,
     Legacy,
     SCHEMA_VERSION, UpgradeSteps, RecoverySteps
<1> QED
  BY <1>1, <1>2, <1>3, <1>4, <1>5, <1>6, <1>7 DEF UpgradeInvariant

\* The process at work dies, maybe in the middle of a record.
LEMMA CrashStep ==
    ASSUME UpgradeInvariant, UpgradeAssumption, Crash
    PROVE  UpgradeInvariant'
<1>0. /\ TypeOK /\ Quieted /\ Closed /\ UpgradeStage /\ Recorded /\ BundleIsOriginal /\ Migrated
      /\ pc # "idle" /\ pc' = "idle" /\ crashes < MaxCrashes /\ crashes' = crashes + 1
      /\ operation' = operation \/ (pc = "operation" /\ operation' = [file |-> "torn", path |-> path])
      /\ marker' = marker \/ (pc = "marker" /\ marker' = "torn")
      /\ complete' = complete \/ (pc = "complete" /\ complete = "none" /\ complete' = "torn")
      /\ UNCHANGED <<phase, dir, quarantined, bundles, path, legacy, writers, opened, report, retried>>
  BY DEF UpgradeInvariant, Crash, Torn
<1>1. TypeOK'
  BY <1>0 DEF UpgradeAssumption, TypeOK, Phases, Files, Status, Absent, Legacy, SCHEMA_VERSION,
     UpgradeSteps, RecoverySteps
<1>2. Quieted'
  BY <1>0 DEF Quieted, Absent, Legacy, SCHEMA_VERSION, UpgradeSteps, RecoverySteps
<1>3. Closed'
  BY <1>0 DEF Closed
<1>4. UpgradeStage'
  BY <1>0 DEF UpgradeStage, Recorded, Migrated, TypeOK, Absent, Legacy, SCHEMA_VERSION,
     UpgradeSteps, RecoverySteps
<1>5. Recorded'
  BY <1>0 DEF Recorded, UpgradeStage, TypeOK, Absent, Legacy, SCHEMA_VERSION, UpgradeSteps,
     RecoverySteps
<1>6. BundleIsOriginal'
  BY <1>0 DEF BundleIsOriginal, UpgradeStage, Recorded, Quieted, TypeOK, Absent, Legacy,
     SCHEMA_VERSION, UpgradeSteps, RecoverySteps
<1>7. Migrated'
  BY <1>0 DEF Migrated, UpgradeStage, Recorded, BundleIsOriginal, Closed, TypeOK, Absent,
     Legacy,
     SCHEMA_VERSION, UpgradeSteps, RecoverySteps
<1> QED
  BY <1>1, <1>2, <1>3, <1>4, <1>5, <1>6, <1>7 DEF UpgradeInvariant

\* A recovery of a replay directory: the directory of 0.1 is moved away only when
\* the upgrade recorded it.
LEMMA RecoveryKept ==
    ASSUME UpgradeInvariant, UpgradeAssumption, RecoveryStep
    PROVE  UpgradeInvariant'
<1>1. CASE pc = "require"
  <2>0. /\ TypeOK /\ Quieted /\ Closed /\ UpgradeStage /\ Recorded /\ BundleIsOriginal /\ Migrated
        /\ pc = "require"
        /\ pc' \in {"quarantine", "idle"}
        /\ pc' = "quarantine" => (dir.schema = Legacy => marker # "none")
        /\ UNCHANGED <<phase, dir, quarantined, bundles, operation, marker, complete>>
        /\ UNCHANGED <<path, report, legacy, writers, opened, retried, crashes>>
    BY <1>1 DEF UpgradeInvariant, RecoveryStep, RequireReplayUpgrade, Then, world, files
  <2>1. TypeOK'
    BY <2>0 DEF TypeOK, Phases, Files, Status, Absent, Legacy, SCHEMA_VERSION, UpgradeSteps,
       RecoverySteps
  <2>2. Quieted'
    BY <2>0 DEF Quieted, Absent, Legacy, SCHEMA_VERSION, UpgradeSteps, RecoverySteps
  <2>3. Closed'
    BY <2>0 DEF Closed
  <2>4. UpgradeStage'
    BY <2>0 DEF UpgradeStage, Recorded, Migrated, TypeOK, Absent, Legacy, SCHEMA_VERSION,
       UpgradeSteps, RecoverySteps
  <2>5. Recorded'
    BY <2>0 DEF Recorded, UpgradeStage, TypeOK, Absent, Legacy, SCHEMA_VERSION, UpgradeSteps,
       RecoverySteps
  <2>6. BundleIsOriginal'
    BY <2>0 DEF BundleIsOriginal, UpgradeStage, Recorded, Quieted, TypeOK, Absent, Legacy,
       SCHEMA_VERSION, UpgradeSteps, RecoverySteps
  <2>7. Migrated'
    BY <2>0 DEF Migrated, UpgradeStage, Recorded, BundleIsOriginal, Closed, TypeOK, Absent,
       Legacy,
       SCHEMA_VERSION, UpgradeSteps, RecoverySteps
  <2> QED
    BY <2>1, <2>2, <2>3, <2>4, <2>5, <2>6, <2>7 DEF UpgradeInvariant
<1>2. CASE pc = "quarantine"
  <2>0. /\ TypeOK /\ Quieted /\ Closed /\ UpgradeStage /\ Recorded /\ BundleIsOriginal /\ Migrated
        /\ pc = "quarantine"
        /\ pc' = "initialize"
        /\ quarantined' = quarantined \cup ({dir.schema} \ {Absent})
        /\ dir' = [schema |-> Absent, whole |-> FALSE, tasks |-> NoWork, outputs |-> 0]
        /\ UNCHANGED <<phase, bundles, operation, marker, complete>>
        /\ UNCHANGED <<path, report, legacy, writers, opened, retried, crashes>>
    BY <1>2 DEF UpgradeInvariant, RecoveryStep, Then, world, files
  <2>1. TypeOK'
    <3>1. NoWork \in [Tasks -> Status] /\ 0 \in 0..MaxOutputs
      BY DEF NoWork, Status, UpgradeAssumption
    <3>2. dir' \in [schema : {Absent, Legacy, SCHEMA_VERSION}, whole : BOOLEAN,
                    tasks : [Tasks -> Status], outputs : 0..MaxOutputs]
      BY <2>0, <3>1
    <3>3. quarantined' \subseteq {Legacy, SCHEMA_VERSION}
      BY <2>0 DEF TypeOK
    <3>4. pc' \in RecoverySteps
      BY <2>0 DEF RecoverySteps
    <3> QED
      BY <2>0, <3>2, <3>3, <3>4 DEF TypeOK
  <2>2. Quieted'
    BY <2>0 DEF Quieted, Absent, Legacy, SCHEMA_VERSION, UpgradeSteps, RecoverySteps
  <2>3. Closed'
    BY <2>0 DEF Closed
  <2>4. UpgradeStage'
    BY <2>0 DEF UpgradeStage, Recorded, Migrated, TypeOK, Absent, Legacy, SCHEMA_VERSION,
       UpgradeSteps, RecoverySteps
  <2>5. Recorded'
    BY <2>0 DEF Recorded, UpgradeStage, TypeOK, Absent, Legacy, SCHEMA_VERSION, UpgradeSteps,
       RecoverySteps
  <2>6. BundleIsOriginal'
    BY <2>0 DEF BundleIsOriginal, UpgradeStage, Recorded, Quieted, TypeOK, Absent, Legacy,
       SCHEMA_VERSION, UpgradeSteps, RecoverySteps
  <2>7. Migrated'
    BY <2>0 DEF Migrated, UpgradeStage, Recorded, BundleIsOriginal, Closed, TypeOK, Absent,
       Legacy,
       SCHEMA_VERSION, UpgradeSteps, RecoverySteps
  <2> QED
    BY <2>1, <2>2, <2>3, <2>4, <2>5, <2>6, <2>7 DEF UpgradeInvariant
<1>3. CASE pc = "initialize"
  <2>0. /\ TypeOK /\ Quieted /\ Closed /\ UpgradeStage /\ Recorded /\ BundleIsOriginal /\ Migrated
        /\ pc = "initialize"
        /\ pc' = "build"
        /\ phase' = "initializing"
        /\ UNCHANGED <<dir, quarantined, bundles, operation, marker, complete>>
        /\ UNCHANGED <<path, report, legacy, writers, opened, retried, crashes>>
    BY <1>3 DEF UpgradeInvariant, RecoveryStep, Then, world, files
  <2>1. TypeOK'
    BY <2>0 DEF TypeOK, Phases, Files, Status, Absent, Legacy, SCHEMA_VERSION, UpgradeSteps,
       RecoverySteps
  <2>2. Quieted'
    BY <2>0 DEF Quieted, Absent, Legacy, SCHEMA_VERSION, UpgradeSteps, RecoverySteps
  <2>3. Closed'
    BY <2>0 DEF Closed
  <2>4. UpgradeStage'
    BY <2>0 DEF UpgradeStage, Recorded, Migrated, TypeOK, Absent, Legacy, SCHEMA_VERSION,
       UpgradeSteps, RecoverySteps
  <2>5. Recorded'
    BY <2>0 DEF Recorded, UpgradeStage, TypeOK, Absent, Legacy, SCHEMA_VERSION, UpgradeSteps,
       RecoverySteps
  <2>6. BundleIsOriginal'
    BY <2>0 DEF BundleIsOriginal, UpgradeStage, Recorded, Quieted, TypeOK, Absent, Legacy,
       SCHEMA_VERSION, UpgradeSteps, RecoverySteps
  <2>7. Migrated'
    BY <2>0 DEF Migrated, UpgradeStage, Recorded, BundleIsOriginal, Closed, TypeOK, Absent,
       Legacy,
       SCHEMA_VERSION, UpgradeSteps, RecoverySteps
  <2> QED
    BY <2>1, <2>2, <2>3, <2>4, <2>5, <2>6, <2>7 DEF UpgradeInvariant
<1>4. CASE pc = "build"
  <2>0. /\ TypeOK /\ Quieted /\ Closed /\ UpgradeStage /\ Recorded /\ BundleIsOriginal /\ Migrated
        /\ pc = "build"
        /\ pc' = "import"
        /\ dir' = [dir EXCEPT !.schema = SCHEMA_VERSION]
        /\ UNCHANGED <<phase, quarantined, bundles, operation, marker, complete>>
        /\ UNCHANGED <<path, report, legacy, writers, opened, retried, crashes>>
    BY <1>4 DEF UpgradeInvariant, RecoveryStep, Then, world, files
  <2>1. TypeOK'
    BY <2>0 DEF TypeOK, Phases, Files, Status, Absent, Legacy, SCHEMA_VERSION, UpgradeSteps,
       RecoverySteps
  <2>2. Quieted'
    BY <2>0 DEF Quieted, Absent, Legacy, SCHEMA_VERSION, UpgradeSteps, RecoverySteps
  <2>3. Closed'
    BY <2>0 DEF Closed
  <2>4. UpgradeStage'
    BY <2>0 DEF UpgradeStage, Recorded, Migrated, TypeOK, Absent, Legacy, SCHEMA_VERSION,
       UpgradeSteps, RecoverySteps
  <2>5. Recorded'
    BY <2>0 DEF Recorded, UpgradeStage, TypeOK, Absent, Legacy, SCHEMA_VERSION, UpgradeSteps,
       RecoverySteps
  <2>6. BundleIsOriginal'
    BY <2>0 DEF BundleIsOriginal, UpgradeStage, Recorded, Quieted, TypeOK, Absent, Legacy,
       SCHEMA_VERSION, UpgradeSteps, RecoverySteps
  <2>7. Migrated'
    BY <2>0 DEF Migrated, UpgradeStage, Recorded, BundleIsOriginal, Closed, TypeOK, Absent,
       Legacy,
       SCHEMA_VERSION, UpgradeSteps, RecoverySteps
  <2> QED
    BY <2>1, <2>2, <2>3, <2>4, <2>5, <2>6, <2>7 DEF UpgradeInvariant
<1>5. CASE pc = "import"
  <2>0. /\ TypeOK /\ Quieted /\ Closed /\ UpgradeStage /\ Recorded /\ BundleIsOriginal /\ Migrated
        /\ pc = "import"
        /\ pc' = "await"
        /\ dir' = [dir EXCEPT !.whole = TRUE]
        /\ UNCHANGED <<phase, quarantined, bundles, operation, marker, complete>>
        /\ UNCHANGED <<path, report, legacy, writers, opened, retried, crashes>>
    BY <1>5 DEF UpgradeInvariant, RecoveryStep, Then, world, files
  <2>1. TypeOK'
    BY ZenonT(40), <2>0 DEF TypeOK, Phases, Files, Status, Absent, Legacy, SCHEMA_VERSION, UpgradeSteps,
       RecoverySteps
  <2>2. Quieted'
    BY <2>0 DEF Quieted, Absent, Legacy, SCHEMA_VERSION, UpgradeSteps, RecoverySteps
  <2>3. Closed'
    BY <2>0 DEF Closed
  <2>4. UpgradeStage'
    BY <2>0 DEF UpgradeStage, Recorded, Migrated, TypeOK, Absent, Legacy, SCHEMA_VERSION,
       UpgradeSteps, RecoverySteps
  <2>5. Recorded'
    BY <2>0 DEF Recorded, UpgradeStage, TypeOK, Absent, Legacy, SCHEMA_VERSION, UpgradeSteps,
       RecoverySteps
  <2>6. BundleIsOriginal'
    BY <2>0 DEF BundleIsOriginal, UpgradeStage, Recorded, Quieted, TypeOK, Absent, Legacy,
       SCHEMA_VERSION, UpgradeSteps, RecoverySteps
  <2>7. Migrated'
    BY <2>0 DEF Migrated, UpgradeStage, Recorded, BundleIsOriginal, Closed, TypeOK, Absent,
       Legacy,
       SCHEMA_VERSION, UpgradeSteps, RecoverySteps
  <2> QED
    BY <2>1, <2>2, <2>3, <2>4, <2>5, <2>6, <2>7 DEF UpgradeInvariant
<1>6. CASE pc = "await"
  <2>0. /\ TypeOK /\ Quieted /\ Closed /\ UpgradeStage /\ Recorded /\ BundleIsOriginal /\ Migrated
        /\ pc = "await"
        /\ pc' = "activate"
        /\ phase' = "awaiting_readiness"
        /\ UNCHANGED <<dir, quarantined, bundles, operation, marker, complete>>
        /\ UNCHANGED <<path, report, legacy, writers, opened, retried, crashes>>
    BY <1>6 DEF UpgradeInvariant, RecoveryStep, Then, world, files
  <2>1. TypeOK'
    BY <2>0 DEF TypeOK, Phases, Files, Status, Absent, Legacy, SCHEMA_VERSION, UpgradeSteps,
       RecoverySteps
  <2>2. Quieted'
    BY <2>0 DEF Quieted, Absent, Legacy, SCHEMA_VERSION, UpgradeSteps, RecoverySteps
  <2>3. Closed'
    BY <2>0 DEF Closed
  <2>4. UpgradeStage'
    BY <2>0 DEF UpgradeStage, Recorded, Migrated, TypeOK, Absent, Legacy, SCHEMA_VERSION,
       UpgradeSteps, RecoverySteps
  <2>5. Recorded'
    BY <2>0 DEF Recorded, UpgradeStage, TypeOK, Absent, Legacy, SCHEMA_VERSION, UpgradeSteps,
       RecoverySteps
  <2>6. BundleIsOriginal'
    BY <2>0 DEF BundleIsOriginal, UpgradeStage, Recorded, Quieted, TypeOK, Absent, Legacy,
       SCHEMA_VERSION, UpgradeSteps, RecoverySteps
  <2>7. Migrated'
    BY <2>0 DEF Migrated, UpgradeStage, Recorded, BundleIsOriginal, Closed, TypeOK, Absent,
       Legacy,
       SCHEMA_VERSION, UpgradeSteps, RecoverySteps
  <2> QED
    BY <2>1, <2>2, <2>3, <2>4, <2>5, <2>6, <2>7 DEF UpgradeInvariant
<1>7. CASE pc = "activate"
  <2>0. /\ TypeOK /\ Quieted /\ Closed /\ UpgradeStage /\ Recorded /\ BundleIsOriginal /\ Migrated
        /\ pc = "activate"
        /\ pc' = "idle"
        /\ phase' = "ready" /\ opened' = TRUE
        /\ UNCHANGED <<dir, quarantined, bundles, operation, marker, complete, path, legacy,
                       writers, report, retried, crashes>>
    BY <1>7 DEF UpgradeInvariant, RecoveryStep, Then, world, files
  <2>1. TypeOK'
    BY <2>0 DEF TypeOK, Phases, Files, Status, Absent, Legacy, SCHEMA_VERSION, UpgradeSteps,
       RecoverySteps
  <2>2. Quieted'
    BY <2>0 DEF Quieted, Absent, Legacy, SCHEMA_VERSION, UpgradeSteps, RecoverySteps
  <2>3. Closed'
    BY <2>0 DEF Closed
  <2>4. UpgradeStage'
    BY <2>0 DEF UpgradeStage, Recorded, Migrated, TypeOK, Absent, Legacy, SCHEMA_VERSION,
       UpgradeSteps, RecoverySteps
  <2>5. Recorded'
    BY <2>0 DEF Recorded, UpgradeStage, TypeOK, Absent, Legacy, SCHEMA_VERSION, UpgradeSteps,
       RecoverySteps
  <2>6. BundleIsOriginal'
    BY <2>0 DEF BundleIsOriginal, UpgradeStage, Recorded, Quieted, TypeOK, Absent, Legacy,
       SCHEMA_VERSION, UpgradeSteps, RecoverySteps
  <2>7. Migrated'
    BY <2>0 DEF Migrated, UpgradeStage, Recorded, BundleIsOriginal, Closed, TypeOK, Absent,
       Legacy,
       SCHEMA_VERSION, UpgradeSteps, RecoverySteps
  <2> QED
    BY <2>1, <2>2, <2>3, <2>4, <2>5, <2>6, <2>7 DEF UpgradeInvariant
<1> QED
  BY <1>1, <1>2, <1>3, <1>4, <1>5, <1>6, <1>7 DEF RecoveryStep

-----------------------------------------------------------------------------
\* The directory as 0.1 left it.
LEMMA UpgradeStarts ==
    ASSUME UpgradeAssumption, Init
    PROVE  UpgradeInvariant
<1>1. PICK w \in [Tasks -> {"none", "queued", "completed"}] :
        dir = [schema |-> Legacy, whole |-> TRUE, tasks |-> w, outputs |-> 0]
  BY DEF Init
<1>2. w \in [Tasks -> Status] /\ 0 \in 0..MaxOutputs /\ 0 \in 0..MaxCrashes
  BY DEF Status, UpgradeAssumption
<1>3. NoWork \in [Tasks -> Status]
  BY DEF NoWork, Status
<1>4. (CHOOSE p \in Paths : TRUE) \in Paths
  BY DEF Init
<1>5. EmptyBundle \in [made : {"none", "partial", "full"}, tasks : [Tasks -> Status],
                       outputs : 0..MaxOutputs]
  BY <1>2, <1>3 DEF EmptyBundle
<1>6. TypeOK
  <2>1. /\ dir \in [schema : {Absent, Legacy, SCHEMA_VERSION}, whole : BOOLEAN,
                     tasks : [Tasks -> Status], outputs : 0..MaxOutputs]
    BY <1>1, <1>2
  <2>2. bundles \in [Paths -> [made : {"none", "partial", "full"}, tasks : [Tasks -> Status],
                              outputs : 0..MaxOutputs]]
    BY <1>5 DEF Init
  <2>3. operation \in [file : Files, path : Paths]
    BY <1>4 DEF Init, Files
  <2> QED
    BY <1>2, <2>1, <2>2, <2>3 DEF Init, TypeOK, Phases, Files
<1>7. /\ dir.schema = Legacy /\ operation.file = "none" /\ pc = "idle" /\ marker = "none"
      /\ opened = FALSE
  BY <1>1 DEF Init
<1>8. Quieted /\ Closed /\ UpgradeStage
  BY <1>7 DEF Quieted, Closed, UpgradeStage, UpgradeSteps, RecoverySteps
<1>9. Recorded /\ BundleIsOriginal
  BY <1>7 DEF Recorded, BundleIsOriginal, RecoverySteps
<1>10. Migrated
  BY <1>7 DEF Migrated, Absent, Legacy, SCHEMA_VERSION
<1> QED
  BY <1>6, <1>8, <1>9, <1>10 DEF UpgradeInvariant

LEMMA UpgradeKept ==
    ASSUME UpgradeAssumption, UpgradeInvariant, [Next]_vars
    PROVE  UpgradeInvariant'
<1>1. CASE UNCHANGED vars
  BY <1>1 DEF vars, UpgradeInvariant, TypeOK, Quieted, Closed, UpgradeStage, Recorded,
     BundleIsOriginal,
     Migrated
<1>2. CASE Release01 \/ Open \/ Close \/ \E t \in Tasks : Work(t)
  BY <1>2, Release01Step, OpenStep, CloseStep, WorkStep
<1>3. CASE \E p \in Paths : ReportAgain(p) \/ StartUpgrade(p) \/ RefuseUpgrade(p)
  BY <1>3, LookStep, StartUpgradeStep
<1>4. CASE CreateBundle \/ CopyTree \/ WriteOperation \/ RecordIntent
  BY <1>4, CreateBundleStep, CopyTreeStep, WriteOperationStep, RecordIntentStep
<1>5. CASE WriteMarker \/ Migrate \/ WriteComplete \/ SetReady
  BY <1>5, WriteMarkerStep, MigrateStep, WriteCompleteStep, SetReadyStep
<1>6. CASE StartRecovery \/ RecoveryStep \/ Crash
  BY <1>6, StartRecoveryStep, RecoveryKept, CrashStep
<1> QED
  BY <1>1, <1>2, <1>3, <1>4, <1>5, <1>6 DEF Next

-----------------------------------------------------------------------------
(* What the invariant says.                                                 *)
LEMMA LegacyHolds ==
    ASSUME UpgradeInvariant
    PROVE  LegacyIsHeld /\ LegacyIsBundled
<1>1. LegacyIsHeld
  BY DEF UpgradeInvariant, Migrated, LegacyIsHeld
<1>2. LegacyIsBundled
  BY DEF UpgradeInvariant, Recorded, LegacyIsBundled
<1> QED
  BY <1>1, <1>2

\* The migration is repeated only before anybody was admitted again.
LEMMA NewWorkHolds ==
    ASSUME UpgradeAssumption, UpgradeInvariant, Next
    PROVE  HoldsNoNewWork
<1> SUFFICES ASSUME NEW t \in Tasks, dir.schema = SCHEMA_VERSION, dir.tasks[t] = "queued"
             PROVE  dir'.tasks[t] # "held"
  BY DEF HoldsNoNewWork
<1>1. TypeOK /\ UpgradeStage /\ Migrated
  BY DEF UpgradeInvariant
<1>2. CASE Migrate
  <2>1. ~Replay /\ complete = "none"
    BY <1>1, <1>2 DEF UpgradeStage, Migrate
  <2> QED
    BY <1>1, <2>1 DEF Migrated
<1>3. CASE \E u \in Tasks : Work(u)
  <2>1. PICK u \in Tasks, v \in {"queued", "completed"} : dir' = [dir EXCEPT !.tasks[u] = v]
    BY <1>3 DEF Work
  <2>2. v \in Status
    BY DEF Status
  <2>3. dir'.tasks[u] = v /\ (t # u => dir'.tasks[t] = dir.tasks[t])
    BY <1>1, <2>1, <2>2, TaskSet
  <2> QED
    BY <2>1, <2>3
<1>4. CASE Release01
  BY <1>4, Release01Effect DEF Legacy, SCHEMA_VERSION
<1>5. CASE RecoveryStep
  <2>1. dir' = dir \/ dir'.tasks = NoWork \/ dir' = [dir EXCEPT !.schema = SCHEMA_VERSION]
          \/ dir' = [dir EXCEPT !.whole = TRUE]
    BY <1>5 DEF RecoveryStep
  <2>2. dir'.tasks = dir.tasks \/ dir'.tasks = NoWork
    BY <1>1, <2>1 DEF TypeOK
  <2> QED
    BY <2>2 DEF NoWork
<1>6. CASE Open \/ Close \/ (\E p \in Paths : ReportAgain(p) \/ StartUpgrade(p) \/ RefuseUpgrade(p))
           \/ CreateBundle \/ CopyTree \/ WriteOperation \/ RecordIntent \/ WriteMarker
           \/ WriteComplete \/ SetReady \/ StartRecovery \/ Crash
  <2>1. dir' = dir
    BY <1>6 DEF Open, Close, ReportAgain, StartUpgrade, RefuseUpgrade, Begin, CreateBundle,
       CopyTree,
       WriteOperation, RecordIntent, WriteMarker, WriteComplete, SetReady, StartRecovery, Crash
  <2> QED
    BY <2>1
<1> QED
  BY <1>2, <1>3, <1>4, <1>5, <1>6 DEF Next

-----------------------------------------------------------------------------
(* Theorems, for any work, bundle paths, outputs and number of crashes.     *)

\* Release 0.1 is quiet while an upgrade writes, nothing of it is changed
\* before a complete bundle is recorded, and a durable directory is migrated
\* with its work on hold (upgrade, migrate_database, require_replay_upgrade).
THEOREM UpgradeInductive ==
    ASSUME UpgradeAssumption
    PROVE  Spec => []UpgradeInvariant
<1>1. Init => UpgradeInvariant
  BY UpgradeStarts
<1>2. UpgradeInvariant /\ [Next]_vars => UpgradeInvariant'
  BY UpgradeKept
<1> QED
  BY <1>1, <1>2, PTL DEF Spec

\* The bundle is what 0.1 left, nothing of 0.1 is lost, and its unfinished
\* work runs only after an explicit retry, whatever was interrupted.
THEOREM UpgradeSafe ==
    ASSUME UpgradeAssumption
    PROVE  Spec => [](TypeOK /\ BundleIsOriginal /\ LegacyIsBundled /\ LegacyIsHeld)
<1>1. UpgradeInvariant => TypeOK /\ BundleIsOriginal /\ LegacyIsBundled /\ LegacyIsHeld
  BY LegacyHolds DEF UpgradeInvariant
<1> QED
  BY <1>1, UpgradeInductive, PTL

\* No upgrade that is run again puts work of 0.2 on hold (upgrade-complete.json).
THEOREM NewWorkIsNotHeld ==
    ASSUME UpgradeAssumption
    PROVE  Spec => [][HoldsNoNewWork]_vars
<1>1. UpgradeInvariant /\ [Next]_vars => [HoldsNoNewWork]_vars
  BY NewWorkHolds
<1> QED
  BY <1>1, UpgradeInductive, PTL DEF Spec
=============================================================================
