---------------------------- MODULE OfflineBackup ----------------------------
(***************************************************************************)
(* Offline snapshots of a coordinator directory and their restoration      *)
(* (backup.rs), with the coordinator services that run on the directories  *)
(* before, after and on the remains of an interrupted copy, and bits that  *)
(* rot in an archive between the two.                                      *)
(*                                                                         *)
(* A copy marks its new directory before it writes anything else into it   *)
(* and unmarks it last.  A snapshot keeps its manifest for ever, which is  *)
(* what tells a service that it is an archive.  A restored ledger gets a   *)
(* new epoch and fences every allocation that was not released.            *)
(***************************************************************************)
EXTENDS Naturals

CONSTANTS
    Dirs, Source,     \* directories under HOME; the one the deployment started on
    Allocs, Blobs,    \* allocation ids ever minted; published contents
    MaxEpoch,         \* bound: coordinator starts and restores
    MaxCrashes        \* bound: copies that die, exceed a budget or time out

BackupAssumption ==
    Source \in Dirs /\ "none" \notin Dirs /\ MaxEpoch \in Nat \ {0} /\ MaxCrashes \in Nat

VARIABLES
    tree,      \* what each directory holds
    from,      \* the snapshot a restored ledger was copied from
    running,   \* directories a coordinator service holds its lock on
    retired,   \* directories the operator confirmed will not be started again
    job,       \* the offline command at work
    nodes,     \* allocations whose workload is alive on its node
    crashes

vars == <<tree, from, running, retired, job, nodes, crashes>>

NoDir == "none"
Bytes == {"none", "good", "rotten"}
Phases == {"none", "authorized", "uncertain", "released"}
NoLedger == [epoch |-> 0, phase |-> [a \in Allocs |-> "none"],
             granted |-> [a \in Allocs |-> 0], fences |-> {}, pubs |-> {}]
NoFiles == [b \in Blobs |-> "none"]
NoTree == [made |-> FALSE, marked |-> FALSE, manifest |-> FALSE, db |-> FALSE,
           ledger |-> NoLedger, blobs |-> NoFiles, files |-> NoFiles]
NoJob == [kind |-> "none", step |-> "idle", src |-> Source, dst |-> Source]
Steps == {"idle", "check", "mkdir", "mark", "database", "blobs", "verify", "manifest",
          "fence", "unmark"}

Init ==
    /\ tree = [d \in Dirs |-> NoTree]
    /\ from = [d \in Dirs |-> NoDir]
    /\ running = {} /\ retired = {}
    /\ job = NoJob
    /\ nodes = {}
    /\ crashes = 0

Locked(d) == d \in running \/ (job.step # "idle" /\ d \in {job.src, job.dst})
Known(a) == \E d \in Dirs : tree[d].ledger.phase[a] # "none"
Ledger(d, ledger) == tree' = [tree EXCEPT ![d].ledger = ledger]

-----------------------------------------------------------------------------
(* The coordinator service.  One deployment runs at a time. *)
\* ensure_runnable_state: archived and incomplete state is refused.
Runnable(d) == ~tree[d].manifest /\ ~tree[d].marked

\* Coordinator::open.  The deployment names the original directory or one that
\* a copy left with a database; on a directory without one, also on the empty
\* directory of a copy that died before it was marked, it would start afresh.
Start(d) ==
    /\ running = {} /\ ~Locked(d)
    /\ d \notin retired
    /\ tree[d].db \/ d = Source
    /\ Runnable(d)
    /\ tree[d].ledger.epoch < MaxEpoch
    /\ tree' = [tree EXCEPT ![d].made = TRUE, ![d].db = TRUE, ![d].ledger.epoch = @ + 1]
    /\ running' = {d}
    /\ UNCHANGED <<from, retired, job, nodes, crashes>>

Stop(d) ==
    /\ d \in running
    /\ running' = {}
    /\ UNCHANGED <<tree, from, retired, job, nodes, crashes>>

\* What a running coordinator does to an allocation: grant it, lose its lease,
\* take the owning node's word that it is gone.
Serve(d, a) ==
    /\ d \in running
    /\ LET l == tree[d].ledger IN
       \/ /\ ~Known(a)
          /\ Ledger(d, [l EXCEPT !.phase[a] = "authorized", !.granted[a] = l.epoch])
          /\ nodes' = nodes \cup {a}
       \/ /\ l.phase[a] = "authorized"
          /\ Ledger(d, [l EXCEPT !.phase[a] = "uncertain", !.fences = @ \cup {a}])
          /\ UNCHANGED nodes
       \/ /\ l.phase[a] \in {"authorized", "uncertain"} /\ a \notin nodes
          /\ Ledger(d, [l EXCEPT !.phase[a] = "released"])
          /\ UNCHANGED nodes
    /\ UNCHANGED <<from, running, retired, job, crashes>>

\* The blob is linked before its publication is recorded.
Publish(d, b) ==
    /\ d \in running
    /\ \/ tree[d].blobs[b] = "none" /\ tree' = [tree EXCEPT ![d].blobs[b] = "good"]
       \/ /\ tree[d].blobs[b] = "good" /\ b \notin tree[d].ledger.pubs
          /\ tree' = [tree EXCEPT ![d].ledger.pubs = @ \cup {b}]
    /\ UNCHANGED <<from, running, retired, job, nodes, crashes>>

Exit(a) ==
    /\ a \in nodes
    /\ nodes' = nodes \ {a}
    /\ UNCHANGED <<tree, from, running, retired, job, crashes>>

\* A stored file of an original or archived directory goes bad.
Rot(d, b) ==
    /\ from[d] = NoDir /\ d \notin running
    /\ tree[d].blobs[b] = "good"
    /\ tree' = [tree EXCEPT ![d].blobs[b] = "rotten"]
    /\ UNCHANGED <<from, running, retired, job, nodes, crashes>>

-----------------------------------------------------------------------------
(* create and restore: what both do. *)
Then(step) ==
    /\ job' = [job EXCEPT !.step = step]
    /\ UNCHANGED <<from, running, retired, nodes, crashes>>

\* exclusive_roots and offline_locks.
Exclusive(s, d) == s # d /\ job = NoJob /\ ~Locked(s) /\ ~Locked(d)

BeginCreate(s, d) ==
    /\ Exclusive(s, d)
    /\ tree[s].made /\ tree[s].db /\ Runnable(s)
    /\ job' = [kind |-> "create", step |-> "mkdir", src |-> s, dst |-> d]
    /\ UNCHANGED <<tree, from, running, retired, nodes, crashes>>

\* The operator confirms that every directory of the old deployment is retired.
BeginRestore(s, d) ==
    /\ Exclusive(s, d)
    /\ running = {}
    /\ tree[s].manifest /\ ~tree[s].marked
    /\ job' = [kind |-> "restore", step |-> "check", src |-> s, dst |-> d]
    /\ retired' = retired \cup {e \in Dirs : tree[e].db /\ ~tree[e].manifest}
    /\ UNCHANGED <<tree, from, running, nodes, crashes>>

\* new_destination: mkdir fails on whatever is already there.
NewDestination(d) == ~tree[d].made

MakeDirectory ==
    /\ job.step = "mkdir"
    /\ IF NewDestination(job.dst)
          THEN tree' = [tree EXCEPT ![job.dst].made = TRUE] /\ Then("mark")
          ELSE UNCHANGED tree /\ Then("idle")

MarkIncomplete ==
    /\ job.step = "mark"
    /\ tree' = [tree EXCEPT ![job.dst].marked = TRUE]
    /\ Then("database")

\* SQLite's backup API, or the verified copy of the archived image.
CopyDatabase ==
    /\ job.step = "database"
    /\ tree' = [tree EXCEPT ![job.dst].db = TRUE, ![job.dst].ledger = tree[job.src].ledger]
    /\ job' = [job EXCEPT !.step = "blobs"]
    /\ from' = IF job.kind = "restore" THEN [from EXCEPT ![job.dst] = job.src] ELSE from
    /\ UNCHANGED <<running, retired, nodes, crashes>>

Wanted == IF job.kind = "create" THEN {b \in Blobs : tree[job.src].blobs[b] # "none"}
                                 ELSE {b \in Blobs : tree[job.src].files[b] # "none"}
Missing == {b \in Wanted : tree[job.dst].blobs[b] = "none"}

\* copy_or_hash records what it copied; copy_verified compares it with the entry.
CopyMatches(b) == job.kind = "create" \/ tree[job.src].blobs[b] = tree[job.src].files[b]

CopyBlob(b) ==
    /\ job.step = "blobs" /\ b \in Missing
    /\ IF CopyMatches(b)
          THEN /\ tree' = [tree EXCEPT ![job.dst].blobs[b] = tree[job.src].blobs[b],
                                       ![job.dst].files[b] = IF job.kind = "create"
                                                               THEN tree[job.src].blobs[b] ELSE @]
               /\ Then("blobs")
          ELSE UNCHANGED tree /\ Then("idle")

CopiedAll ==
    /\ job.step = "blobs" /\ Missing = {}
    /\ UNCHANGED tree
    /\ Then(IF job.kind = "create" THEN "verify" ELSE "fence")

\* Faulty: publications are counted, not compared.
VerifyPublicationsPresent(ledger, files) == \A b \in ledger.pubs : files[b] # "none"

\* verify_publications: each one is listed under its own hash.
VerifyPublications(ledger, files) == \A b \in ledger.pubs : files[b] = "good"

-----------------------------------------------------------------------------
(* create. *)
VerifySnapshot ==
    /\ job.step = "verify"
    /\ UNCHANGED tree
    /\ Then(IF VerifyPublications(tree[job.src].ledger, tree[job.dst].files)
              THEN "manifest" ELSE "idle")

WriteManifest ==
    /\ job.step = "manifest"
    /\ tree' = [tree EXCEPT ![job.dst].manifest = TRUE]
    /\ Then("unmark")

Unmark ==
    /\ job.step = "unmark"
    /\ tree' = [tree EXCEPT ![job.dst].marked = FALSE]
    /\ job' = NoJob
    /\ UNCHANGED <<from, running, retired, nodes, crashes>>

-----------------------------------------------------------------------------
(* restore. *)
CheckManifest ==
    /\ job.step = "check"
    /\ UNCHANGED tree
    /\ LET s == tree[job.src] IN
       Then(IF /\ \A b \in Blobs : s.files[b] # "none" => s.blobs[b] = s.files[b]
               /\ VerifyPublications(s.ledger, s.files)
              THEN "mkdir" ELSE "idle")

Unreleased(l) == {a \in Allocs : l.phase[a] \notin {"none", "released"}}

Fenced(l) ==
    [l EXCEPT !.fences = @ \cup Unreleased(l), !.epoch = @ + 1,
              !.phase = [a \in Allocs |-> IF a \in Unreleased(l) THEN "uncertain" ELSE l.phase[a]]]

\* One transaction, then the receipt.
FenceAllocations ==
    /\ job.step = "fence"
    /\ tree[job.dst].ledger.epoch < MaxEpoch
    /\ Ledger(job.dst, Fenced(tree[job.dst].ledger))
    /\ Then("unmark")

\* The command dies, runs out of its byte, file or time budget, or an I/O call
\* fails: what it wrote stays.
Abort ==
    /\ job.step # "idle" /\ crashes < MaxCrashes
    /\ job' = NoJob
    /\ crashes' = crashes + 1
    /\ UNCHANGED <<tree, from, running, retired, nodes>>

\* A refused command ends.
Refused ==
    /\ job.step = "idle" /\ job # NoJob
    /\ job' = NoJob
    /\ UNCHANGED <<tree, from, running, retired, nodes, crashes>>

Next ==
    \/ \E d \in Dirs : \/ Start(d) \/ Stop(d)
                       \/ \E a \in Allocs : Serve(d, a)
                       \/ \E b \in Blobs : Publish(d, b) \/ Rot(d, b)
    \/ \E a \in Allocs : Exit(a)
    \/ \E s, d \in Dirs : BeginCreate(s, d) \/ BeginRestore(s, d)
    \/ MakeDirectory \/ MarkIncomplete \/ CopyDatabase \/ CopiedAll
    \/ \E b \in Blobs : CopyBlob(b)
    \/ VerifySnapshot \/ WriteManifest \/ Unmark
    \/ CheckManifest \/ FenceAllocations
    \/ Abort \/ Refused

Spec == Init /\ [][Next]_vars

-----------------------------------------------------------------------------
LedgerType ==
    [epoch : 0..MaxEpoch, phase : [Allocs -> Phases], granted : [Allocs -> 0..MaxEpoch],
     fences : SUBSET Allocs, pubs : SUBSET Blobs]
TypeOK ==
    /\ tree \in [Dirs -> [made : BOOLEAN, marked : BOOLEAN, manifest : BOOLEAN, db : BOOLEAN,
                          ledger : LedgerType, blobs : [Blobs -> Bytes], files : [Blobs -> Bytes]]]
    /\ from \in [Dirs -> Dirs \cup {NoDir}]
    /\ running \subseteq Dirs /\ retired \subseteq Dirs
    /\ job \in [kind : {"none", "create", "restore"}, step : Steps, src : Dirs, dst : Dirs]
    /\ nodes \subseteq Allocs
    /\ crashes \in 0..MaxCrashes

\* A snapshot that presents itself as complete has the bytes of every
\* publication in its ledger under their hash, whatever had rotted in the
\* source (verify_publications, manifest last).
SnapshotIsWhole ==
    \A d \in Dirs : tree[d].manifest => \A b \in tree[d].ledger.pubs : tree[d].files[b] = "good"

\* A service on a restored directory finds every published artifact intact,
\* even when the archive went bad while it was read (copy_verified, INCOMPLETE).
RestoredIsWhole ==
    \A d \in running :
        from[d] # NoDir => \A b \in tree[d].ledger.pubs : tree[d].blobs[b] = "good"

\* A service on a restored directory keeps every allocation the snapshot had not
\* seen released fenced, charged as long as its workload may be alive, and
\* below its own epoch: no timeout is converted to free capacity.
RestoredIsFenced ==
    \A d \in running : from[d] # NoDir =>
        \A a \in Unreleased(tree[from[d]].ledger) :
            /\ a \in tree[d].ledger.fences
            /\ tree[d].ledger.phase[a] \in {"uncertain", "released"}
            /\ a \in nodes => tree[d].ledger.phase[a] = "uncertain"
            /\ tree[d].ledger.granted[a] < tree[d].ledger.epoch

\* What an interrupted copy left is never filled, finished or served: only the
\* command that made a directory incomplete may change it (a condition on steps).
Writing(j, d) == j.dst = d /\ j.step \notin {"idle", "check", "mkdir"}
LeavesIncomplete ==
    \A d \in Dirs :
        tree[d].marked /\ ~Writing(job, d)
          => /\ [tree[d] EXCEPT !.blobs = tree'[d].blobs] = tree'[d]
             /\ d \notin running' /\ ~Writing(job', d)
=============================================================================
