---------------------------- MODULE BackupProofs -----------------------------
(***************************************************************************)
(* Proofs about OfflineBackup, for any directories, allocations, published *)
(* contents, epochs and interrupted copies.                                *)
(***************************************************************************)
EXTENDS OfflineBackup, TLAPS

(* A restored directory against the archive it was copied from.            *)
Whole(d) == \A b \in tree[d].ledger.pubs : tree[d].blobs[b] = "good"
FencedFor(d, a) ==
    /\ a \in tree[d].ledger.fences
    /\ tree[d].ledger.phase[a] \in {"uncertain", "released"}
    /\ a \in nodes => tree[d].ledger.phase[a] = "uncertain"
    /\ tree[d].ledger.granted[a] < tree[d].ledger.epoch
FencedFrom(d) == \A a \in Unreleased(tree[from[d]].ledger) : FencedFor(d, a)

(* What is on disk, per directory.                                         *)
DirAt(d) ==
    /\ ~tree[d].made => tree[d] = NoTree /\ from[d] = NoDir
    /\ d \in running => tree[d].made /\ ~tree[d].marked /\ ~tree[d].manifest
    /\ tree[d].manifest => VerifyPublications(tree[d].ledger, tree[d].files)
    /\ \A a \in Allocs : tree[d].ledger.granted[a] <= tree[d].ledger.epoch
    /\ from[d] # NoDir => tree[from[d]].manifest
    /\ from[d] # NoDir /\ ~tree[d].marked => Whole(d) /\ FencedFrom(d)

(* What the command at work has done at a step.                            *)
CreateSteps == {"mkdir", "mark", "database", "blobs", "verify", "manifest", "unmark"}
RestoreSteps == {"check", "mkdir", "mark", "database", "blobs", "fence", "unmark"}
JobApart ==
    job.step # "idle" =>
        /\ job.src # job.dst /\ job.src \notin running /\ job.dst \notin running
        /\ \/ job.kind = "create" /\ job.step \in CreateSteps
           \/ job.kind = "restore" /\ job.step \in RestoreSteps /\ tree[job.src].manifest
JobStage ==
    /\ job.step = "mark" => tree[job.dst] = [NoTree EXCEPT !.made = TRUE]
    /\ job.step = "database" => tree[job.dst] = [NoTree EXCEPT !.made = TRUE, !.marked = TRUE]
    /\ job.step \in {"mark", "database"} => from[job.dst] = NoDir
    /\ job.step \in {"blobs", "verify", "manifest", "fence", "unmark"}
          => tree[job.dst].made /\ tree[job.dst].marked
    /\ job.step \in {"blobs", "verify", "manifest", "fence"}
          => ~tree[job.dst].manifest /\ tree[job.dst].ledger = tree[job.src].ledger
CreateStage ==
    job.kind = "create" =>
        /\ job.step \in {"blobs", "verify", "manifest", "unmark"} => from[job.dst] = NoDir
        /\ job.step = "manifest" => VerifyPublications(tree[job.dst].ledger, tree[job.dst].files)
RestoreStage ==
    job.kind = "restore" =>
        /\ job.step \in {"blobs", "fence", "unmark"} => from[job.dst] = job.src
        /\ job.step \in {"blobs", "fence"} =>
              \A b \in Blobs : tree[job.dst].blobs[b] \in {"none", tree[job.src].files[b]}
        /\ job.step \in {"fence", "unmark"} => Whole(job.dst)
        /\ job.step = "unmark" => FencedFrom(job.dst)

BackupInvariant ==
    /\ TypeOK
    /\ \A d \in Dirs : DirAt(d)
    /\ JobApart /\ JobStage /\ CreateStage /\ RestoreStage

-----------------------------------------------------------------------------
(* A directory that is not worked on keeps what it has, as long as archives *)
(* do: its workloads are known to the ledger it came from.                  *)
DirType ==
    [made : BOOLEAN, marked : BOOLEAN, manifest : BOOLEAN, db : BOOLEAN,
     ledger : LedgerType, blobs : [Blobs -> Bytes], files : [Blobs -> Bytes]]
ArchivesStay ==
    \A f \in Dirs : tree[f].manifest => tree'[f].manifest /\ tree'[f].ledger = tree[f].ledger
NodesKnown == \A a \in Allocs : a \in nodes' => a \in nodes \/ ~Known(a)

LEMMA BackupFacts ==
    ASSUME BackupInvariant
    PROVE  /\ tree \in [Dirs -> DirType] /\ from \in [Dirs -> Dirs \cup {NoDir}]
           /\ running \subseteq Dirs /\ retired \subseteq Dirs
           /\ job \in [kind : {"none", "create", "restore"}, step : Steps, src : Dirs, dst : Dirs]
           /\ nodes \subseteq Allocs /\ crashes \in 0..MaxCrashes
           /\ \A d \in Dirs : DirAt(d)
           /\ JobApart /\ JobStage /\ CreateStage /\ RestoreStage
BY DEF BackupInvariant, TypeOK, DirType

LEMMA BackupParts ==
    ASSUME tree' \in [Dirs -> DirType], from' \in [Dirs -> Dirs \cup {NoDir}],
           running' \subseteq Dirs, retired' \subseteq Dirs,
           job' \in [kind : {"none", "create", "restore"}, step : Steps, src : Dirs,
           dst : Dirs],
           nodes' \subseteq Allocs, crashes' \in 0..MaxCrashes,
           \A d \in Dirs : DirAt(d)',
           JobApart', JobStage', CreateStage', RestoreStage'
    PROVE  BackupInvariant'
BY DEF BackupInvariant, TypeOK, DirType

LEMMA FencedStays ==
    ASSUME BackupInvariant, NEW d \in Dirs, FencedFrom(d), from[d] \in Dirs, from'[d] = from[d],
           tree[from[d]].manifest, tree'[d].ledger = tree[d].ledger, ArchivesStay, NodesKnown
    PROVE  FencedFrom(d)'
<1>1. tree'[from'[d]].ledger = tree[from[d]].ledger
  BY DEF ArchivesStay
<1>2. Unreleased(tree[from[d]].ledger)' = Unreleased(tree[from[d]].ledger)
  BY <1>1 DEF Unreleased
<1>3. \A a \in Unreleased(tree[from[d]].ledger) : a \in Allocs /\ Known(a)
  BY DEF Unreleased, Known
<1> QED
  BY <1>2, <1>3 DEF FencedFrom, FencedFor, NodesKnown

LEMMA DirStays ==
    ASSUME BackupInvariant, BackupAssumption, NEW d \in Dirs, tree'[d] = tree[d],
           from'[d] = from[d], d \in running' => d \in running, ArchivesStay, NodesKnown
    PROVE  DirAt(d)'
<1>1. DirAt(d) /\ from[d] \in Dirs \cup {NoDir}
  BY BackupFacts
<1>2. VerifyPublications(tree[d].ledger, tree[d].files)'
        = VerifyPublications(tree[d].ledger, tree[d].files)
  BY DEF VerifyPublications
<1>3. Whole(d) => Whole(d)'
  BY DEF Whole
<1>4. from[d] # NoDir => tree[from[d]].manifest /\ tree'[from[d]].manifest
  BY <1>1 DEF DirAt, ArchivesStay
<1>5. from[d] # NoDir /\ ~tree[d].marked => FencedFrom(d)'
  BY <1>1, <1>4, FencedStays DEF DirAt
<1> QED
  BY <1>1, <1>2, <1>3, <1>4, <1>5 DEF DirAt

\* The command at work is not disturbed by what happens beside it.
LEMMA JobStays ==
    ASSUME BackupInvariant, BackupAssumption, job' = job, from' = from,
           job.step # "idle" => job.src \notin running' /\ job.dst \notin running',
           job.step # "idle" => /\ tree'[job.src].manifest = tree[job.src].manifest
                                /\ tree'[job.src].ledger = tree[job.src].ledger
                                /\ tree'[job.src].files = tree[job.src].files,
           job.step \notin {"idle", "check", "mkdir"} =>
                /\ tree'[job.dst].made = tree[job.dst].made
                /\ tree'[job.dst].marked = tree[job.dst].marked
                /\ tree'[job.dst].manifest = tree[job.dst].manifest
                /\ tree'[job.dst].ledger = tree[job.dst].ledger
                /\ tree'[job.dst].files = tree[job.dst].files
                /\ \/ tree'[job.dst] = tree[job.dst]
                   \/ job.kind = "create" /\ job.step \notin {"mark", "database"},
           ArchivesStay, NodesKnown
    PROVE  JobApart' /\ JobStage' /\ CreateStage' /\ RestoreStage'
<1>1. JobApart /\ JobStage /\ CreateStage /\ RestoreStage /\ job.src \in Dirs /\ job.dst \in Dirs
  BY BackupFacts
<1>2. JobApart'
  BY <1>1 DEF JobApart
<1>3. JobStage'
  BY <1>1 DEF JobStage
<1>4. job.step = "manifest" => VerifyPublications(tree[job.dst].ledger, tree[job.dst].files)'
                                = VerifyPublications(tree[job.dst].ledger, tree[job.dst].files)
  BY DEF VerifyPublications
<1>5. CreateStage'
  BY <1>1, <1>4 DEF CreateStage
<1>6. RestoreStage'
  <2>1. CASE job.kind # "restore" \/ job.step \in {"idle", "check", "mkdir", "mark", "database"}
    BY <2>1 DEF RestoreStage
  <2>2. CASE job.kind = "restore" /\ job.step \notin {"idle", "check", "mkdir", "mark", "database"}
    <3>1. tree'[job.dst] = tree[job.dst] /\ job.step \in {"blobs", "fence", "unmark"}
      BY <1>1, <2>2 DEF JobApart, RestoreSteps, CreateSteps
    <3>2. from[job.dst] = job.src /\ tree[job.src].manifest
      BY <1>1, <2>2, <3>1 DEF RestoreStage, JobApart
    <3>3. Whole(job.dst) => Whole(job.dst)'
      BY <3>1 DEF Whole
    <3>4. FencedFrom(job.dst) => FencedFrom(job.dst)'
      BY <1>1, <3>1, <3>2, FencedStays
    <3> QED
      BY <1>1, <2>2, <3>1, <3>2, <3>3, <3>4 DEF RestoreStage
  <2> QED
    BY <2>1, <2>2
<1> QED
  BY <1>2, <1>3, <1>5, <1>6

-----------------------------------------------------------------------------
(* The service.                                                             *)
\* A step of a service, or of a disk, on one directory.
LEMMA BesideJob ==
    ASSUME BackupInvariant, BackupAssumption, NEW d \in Dirs,
           tree' \in [Dirs -> DirType], \A f \in Dirs \ {d} : tree'[f] = tree[f],
           running' \subseteq Dirs, nodes' \subseteq Allocs,
           UNCHANGED <<from, retired, job, crashes>>,
           running' \subseteq running \cup {d},
           tree[d].manifest => tree'[d].manifest /\ tree'[d].ledger = tree[d].ledger,
           NodesKnown,
           job.step # "idle" /\ d \in {job.src, job.dst}
             => /\ d \notin running'
                /\ tree'[d] = [tree[d] EXCEPT !.blobs = tree'[d].blobs]
                /\ from[d] = NoDir /\ (tree'[d] = tree[d] \/ tree[d].blobs # NoFiles),
           DirAt(d)'
    PROVE  BackupInvariant'
<1>1. /\ tree \in [Dirs -> DirType] /\ from \in [Dirs -> Dirs \cup {NoDir}]
      /\ retired \subseteq Dirs /\ running \subseteq Dirs
      /\ job \in [kind : {"none", "create", "restore"}, step : Steps, src : Dirs, dst : Dirs]
      /\ JobApart /\ JobStage /\ CreateStage /\ RestoreStage /\ crashes \in 0..MaxCrashes
  BY BackupFacts
<1>2. ArchivesStay
  BY DEF ArchivesStay
<1>3. \A f \in Dirs : DirAt(f)'
  <2>1. SUFFICES ASSUME NEW f \in Dirs, f # d PROVE DirAt(f)'
    OBVIOUS
  <2> QED
    BY <1>2, <2>1, DirStays
<1>4. job.src \in Dirs /\ job.dst \in Dirs
  BY <1>1
<1>5. job.step # "idle" => job.src \notin running' /\ job.dst \notin running'
  BY <1>1, <1>4 DEF JobApart
<1>6. job.step # "idle" => /\ tree'[job.src].manifest = tree[job.src].manifest
                           /\ tree'[job.src].ledger = tree[job.src].ledger
                           /\ tree'[job.src].files = tree[job.src].files
  BY <1>1, <1>4 DEF DirType
<1>7. job.step # "idle" =>
        /\ tree'[job.dst].made = tree[job.dst].made
        /\ tree'[job.dst].marked = tree[job.dst].marked
        /\ tree'[job.dst].manifest = tree[job.dst].manifest
        /\ tree'[job.dst].ledger = tree[job.dst].ledger
        /\ tree'[job.dst].files = tree[job.dst].files
  BY <1>1, <1>4 DEF DirType
<1>8. job.step \notin {"idle", "check", "mkdir"} =>
         tree'[job.dst] = tree[job.dst]
         \/ (job.kind = "create" /\ job.step \notin {"mark", "database"})
  <2>1. SUFFICES ASSUME job.step \notin {"idle", "check", "mkdir"}, tree'[job.dst] # tree[job.dst]
                 PROVE  job.kind = "create" /\ job.step \notin {"mark", "database"}
    OBVIOUS
  <2>2. d = job.dst /\ from[d] = NoDir /\ tree[d].blobs # NoFiles
    BY <1>4, <2>1
  <2>3. job.step \notin {"mark", "database"}
    BY <1>1, <2>2 DEF JobStage, NoTree
  <2>4. job.kind # "restore"
    BY <1>1, <1>4, <2>1, <2>2, <2>3 DEF JobApart, RestoreStage, RestoreSteps,
       BackupAssumption, NoDir
  <2> QED
    BY <1>1, <2>1, <2>3, <2>4 DEF JobApart
<1>9. JobApart' /\ JobStage' /\ CreateStage' /\ RestoreStage'
  BY <1>2, <1>5, <1>6, <1>7, <1>8, JobStays
<1>10. /\ from' \in [Dirs -> Dirs \cup {NoDir}] /\ retired' \subseteq Dirs
       /\ job' \in [kind : {"none", "create", "restore"}, step : Steps, src : Dirs, dst : Dirs]
       /\ crashes' \in 0..MaxCrashes
  BY <1>1
<1> QED
  BY <1>3, <1>9, <1>10, BackupParts

LEMMA TreeSet ==
    ASSUME tree \in [Dirs -> DirType], NEW d \in Dirs, NEW t \in DirType,
    tree' = [tree EXCEPT ![d] = t]
    PROVE  /\ tree' \in [Dirs -> DirType] /\ tree'[d] = t
           /\ \A f \in Dirs \ {d} : tree'[f] = tree[f]
OBVIOUS

LEMMA StartStep ==
    ASSUME BackupInvariant, BackupAssumption, NEW d \in Dirs, Start(d)
    PROVE  BackupInvariant'
<1>1. /\ running = {} /\ ~Locked(d) /\ ~tree[d].manifest /\ ~tree[d].marked
      /\ tree[d].ledger.epoch < MaxEpoch
      /\ tree' = [tree EXCEPT ![d].made = TRUE, ![d].db = TRUE, ![d].ledger.epoch = @ + 1]
      /\ running' = {d} /\ UNCHANGED <<from, retired, job, nodes, crashes>>
  BY DEF Start, Runnable
<1>2. tree \in [Dirs -> DirType] /\ nodes \subseteq Allocs /\ DirAt(d) /\ from[d] \in Dirs \cup {NoDir}
  BY BackupFacts
<1>3. tree[d].ledger.epoch + 1 \in 0..MaxEpoch
  BY <1>1, <1>2 DEF DirType, LedgerType, BackupAssumption
<1>4. /\ tree' \in [Dirs -> DirType] /\ \A f \in Dirs \ {d} : tree'[f] = tree[f]
      /\ tree'[d].made /\ tree'[d].marked = FALSE /\ tree'[d].manifest = FALSE
      /\ tree'[d].ledger = [tree[d].ledger EXCEPT !.epoch = tree[d].ledger.epoch + 1]
      /\ tree'[d].blobs = tree[d].blobs
  BY <1>1, <1>2, <1>3 DEF DirType, LedgerType
<1>5. /\ tree'[d].ledger.epoch = tree[d].ledger.epoch + 1
      /\ tree'[d].ledger.phase = tree[d].ledger.phase
      /\ tree'[d].ledger.granted = tree[d].ledger.granted
      /\ tree'[d].ledger.fences = tree[d].ledger.fences
      /\ tree'[d].ledger.pubs = tree[d].ledger.pubs
      /\ tree[d].ledger.epoch \in Nat /\ \A a \in Allocs : tree[d].ledger.granted[a] \in Nat
  BY <1>2, <1>4 DEF DirType, LedgerType
<1>6. ASSUME from[d] # NoDir PROVE Whole(d)' /\ FencedFrom(d)' /\ tree'[from[d]].manifest
  <2>1. Whole(d) /\ FencedFrom(d) /\ tree[from[d]].manifest /\ from[d] \in Dirs /\ from[d] # d
    BY <1>1, <1>2, <1>6 DEF DirAt
  <2>2. tree'[from[d]] = tree[from[d]]
    BY <1>4, <2>1
  <2>3. Unreleased(tree[from[d]].ledger)' = Unreleased(tree[from[d]].ledger)
    BY <1>1, <2>2 DEF Unreleased
  <2>4. FencedFrom(d)'
    <3>1. SUFFICES ASSUME NEW a \in Unreleased(tree[from[d]].ledger) PROVE FencedFor(d, a)'
      BY <1>1, <2>3 DEF FencedFrom
    <3>2. a \in Allocs /\ FencedFor(d, a)
      BY <2>1 DEF Unreleased, FencedFrom
    <3> QED
      BY <1>1, <1>5, <3>2 DEF FencedFor
  <2>5. Whole(d)'
    BY <1>4, <1>5, <2>1 DEF Whole
  <2> QED
    BY <2>1, <2>2, <2>4, <2>5
<1>7. DirAt(d)'
  BY <1>1, <1>2, <1>4, <1>5, <1>6 DEF DirAt
<1>8. NodesKnown
  BY <1>1 DEF NodesKnown
<1> QED
  BY ZenonT(40), <1>1, <1>2, <1>4, <1>7, <1>8, BesideJob DEF Locked

\* What a service does to an allocation; one that an archive knows is never
\* granted again.
LEMMA ServeStep ==
    ASSUME BackupInvariant, BackupAssumption, NEW d \in Dirs, NEW a \in Allocs, Serve(d, a)
    PROVE  BackupInvariant'
<1>1. d \in running /\ UNCHANGED <<from, running, retired, job, crashes>>
  BY DEF Serve
<1>2. /\ tree \in [Dirs -> DirType] /\ nodes \subseteq Allocs /\ running \subseteq Dirs
      /\ DirAt(d) /\ from[d] \in Dirs \cup {NoDir} /\ JobApart
  BY BackupFacts
<1> DEFINE l == tree[d].ledger
<1>3. /\ l \in LedgerType /\ l.epoch \in 0..MaxEpoch /\ l.phase \in [Allocs -> Phases]
      /\ l.granted \in [Allocs -> 0..MaxEpoch] /\ l.fences \subseteq Allocs
  BY <1>2 DEF DirType, LedgerType
<1>4. PICK l2 \in LedgerType :
        /\ tree' = [tree EXCEPT ![d].ledger = l2]
        /\ l2.epoch = l.epoch /\ l2.pubs = l.pubs /\ l.fences \subseteq l2.fences
        /\ \A x \in Allocs \ {a} : l2.phase[x] = l.phase[x] /\ l2.granted[x] = l.granted[x]
        /\ \/ /\ ~Known(a) /\ l2.granted[a] = l.epoch /\ nodes' = nodes \cup {a}
           \/ l.phase[a] = "authorized" /\ l2.granted[a] = l.granted[a] /\ nodes' = nodes
           \/ /\ a \notin nodes /\ l2.phase[a] = "released" /\ l2.granted[a] = l.granted[a]
              /\ nodes' = nodes
  <2>1. CASE /\ ~Known(a)
             /\ Ledger(d, [l EXCEPT !.phase[a] = "authorized", !.granted[a] = l.epoch])
             /\ nodes' = nodes \cup {a}
    <3>1. [l EXCEPT !.phase[a] = "authorized", !.granted[a] = l.epoch] \in LedgerType
      BY <1>3 DEF LedgerType, Phases
    <3> QED
      BY <1>3, <2>1, <3>1 DEF Ledger, LedgerType
  <2>2. CASE /\ l.phase[a] = "authorized"
             /\ Ledger(d, [l EXCEPT !.phase[a] = "uncertain", !.fences = @ \cup {a}])
             /\ UNCHANGED nodes
    <3>1. [l EXCEPT !.phase[a] = "uncertain", !.fences = @ \cup {a}] \in LedgerType
      BY <1>3 DEF LedgerType, Phases
    <3> QED
      BY <1>3, <2>2, <3>1 DEF Ledger, LedgerType
  <2>3. CASE /\ l.phase[a] \in {"authorized", "uncertain"} /\ a \notin nodes
             /\ Ledger(d, [l EXCEPT !.phase[a] = "released"])
             /\ UNCHANGED nodes
    <3>1. [l EXCEPT !.phase[a] = "released"] \in LedgerType
      BY <1>3 DEF LedgerType, Phases
    <3> QED
      BY <1>3, <2>3, <3>1 DEF Ledger, LedgerType
  <2> QED
    BY <2>1, <2>2, <2>3 DEF Serve
<1>5. /\ tree' \in [Dirs -> DirType] /\ \A f \in Dirs \ {d} : tree'[f] = tree[f]
      /\ tree'[d].ledger = l2 /\ tree'[d].made = tree[d].made /\ tree'[d].marked = tree[d].marked
      /\ tree'[d].manifest = tree[d].manifest /\ tree'[d].blobs = tree[d].blobs
  BY <1>2, <1>4 DEF DirType
<1>6. tree[d].made /\ ~tree[d].marked /\ ~tree[d].manifest
  BY <1>1, <1>2 DEF DirAt
<1>7. nodes' \subseteq Allocs /\ NodesKnown
  BY <1>2, <1>4 DEF NodesKnown
<1>8. ASSUME from[d] # NoDir PROVE Whole(d)' /\ FencedFrom(d)' /\ tree'[from[d]].manifest
  <2>1. Whole(d) /\ FencedFrom(d) /\ tree[from[d]].manifest /\ from[d] \in Dirs /\ from[d] # d
    BY <1>2, <1>6, <1>8 DEF DirAt
  <2>2. tree'[from[d]] = tree[from[d]]
    BY <1>5, <2>1
  <2>3. Unreleased(tree[from[d]].ledger)' = Unreleased(tree[from[d]].ledger)
    BY <1>1, <2>2 DEF Unreleased
  <2>4. FencedFrom(d)'
    <3>1. SUFFICES ASSUME NEW x \in Unreleased(tree[from[d]].ledger) PROVE FencedFor(d, x)'
      BY <2>3 DEF FencedFrom
    <3>2. x \in Allocs /\ FencedFor(d, x) /\ Known(x)
      BY <2>1 DEF Unreleased, FencedFrom, Known
    <3>3. CASE x # a
      BY <1>4, <1>5, <3>2, <3>3 DEF FencedFor
    <3>4. CASE x = a
      BY <1>4, <1>5, <3>2, <3>4 DEF FencedFor
    <3> QED
      BY <3>3, <3>4
  <2>5. Whole(d)'
    BY <1>4, <1>5, <2>1 DEF Whole
  <2> QED
    BY <2>1, <2>2, <2>4, <2>5
<1>9. \A x \in Allocs : l2.granted[x] <= l2.epoch
  BY <1>2, <1>3, <1>4 DEF DirAt
<1>10. DirAt(d)'
  BY <1>1, <1>2, <1>5, <1>6, <1>8, <1>9 DEF DirAt
<1> QED
  BY <1>1, <1>2, <1>5, <1>6, <1>7, <1>10, BesideJob DEF JobApart

\* A blob is recorded after it is stored.
LEMMA PublishStep ==
    ASSUME BackupInvariant, BackupAssumption, NEW d \in Dirs, NEW b \in Blobs, Publish(d, b)
    PROVE  BackupInvariant'
<1>1. d \in running /\ UNCHANGED <<from, running, retired, job, nodes, crashes>>
  BY DEF Publish
<1>2. /\ tree \in [Dirs -> DirType] /\ nodes \subseteq Allocs /\ running \subseteq Dirs
      /\ DirAt(d) /\ from[d] \in Dirs \cup {NoDir} /\ JobApart
  BY BackupFacts
<1>3. /\ tree' \in [Dirs -> DirType] /\ \A f \in Dirs \ {d} : tree'[f] = tree[f]
      /\ tree'[d].made = tree[d].made /\ tree'[d].marked = tree[d].marked
      /\ tree'[d].manifest = tree[d].manifest
      /\ tree'[d].ledger.epoch = tree[d].ledger.epoch
      /\ tree'[d].ledger.phase = tree[d].ledger.phase
      /\ tree'[d].ledger.granted = tree[d].ledger.granted
      /\ tree'[d].ledger.fences = tree[d].ledger.fences
  <2>1. CASE tree' = [tree EXCEPT ![d].blobs[b] = "good"]
    BY ZenonT(40), <1>2, <2>1 DEF DirType, Bytes
  <2>2. CASE tree' = [tree EXCEPT ![d].ledger.pubs = @ \cup {b}]
    <3>1. tree[d].ledger \in LedgerType
      BY <1>2 DEF DirType
    <3>2. PICK l2 : l2 = [tree[d].ledger EXCEPT !.pubs = @ \cup {b}]
      OBVIOUS
    <3>3. /\ l2 \in LedgerType /\ l2.epoch = tree[d].ledger.epoch /\ l2.phase = tree[d].ledger.phase
          /\ l2.granted = tree[d].ledger.granted /\ l2.fences = tree[d].ledger.fences
      BY <3>1, <3>2 DEF LedgerType
    <3>4. tree' = [tree EXCEPT ![d].ledger = l2]
      BY <1>2, <2>2, <3>2 DEF DirType
    <3> QED
      BY SMTT(30), <1>2, <3>3, <3>4 DEF DirType
  <2> QED
    BY <2>1, <2>2 DEF Publish
<1>4. Whole(d) => Whole(d)'
  <2>1. CASE tree[d].blobs[b] = "none" /\ tree' = [tree EXCEPT ![d].blobs[b] = "good"]
    <3>1. tree'[d].ledger = tree[d].ledger
      BY <1>2, <2>1 DEF DirType
    <3>2. \A c \in Blobs : tree'[d].blobs[c] \in {"good", tree[d].blobs[c]}
      BY <1>2, <2>1 DEF DirType
    <3>3. tree[d].ledger.pubs \subseteq Blobs
      BY <1>2 DEF DirType, LedgerType
    <3> QED
      BY <3>1, <3>2, <3>3 DEF Whole
  <2>2. CASE /\ tree[d].blobs[b] = "good" /\ b \notin tree[d].ledger.pubs
             /\ tree' = [tree EXCEPT ![d].ledger.pubs = @ \cup {b}]
    <3>1. tree'[d].blobs = tree[d].blobs /\ tree'[d].ledger.pubs = tree[d].ledger.pubs \cup {b}
      BY <1>2, <2>2 DEF DirType, LedgerType
    <3> QED
      BY <2>2, <3>1 DEF Whole
  <2> QED
    BY <2>1, <2>2 DEF Publish
<1>5. tree[d].made /\ ~tree[d].marked /\ ~tree[d].manifest
  BY <1>1, <1>2 DEF DirAt
<1>6. ASSUME from[d] # NoDir PROVE Whole(d)' /\ FencedFrom(d)' /\ tree'[from[d]].manifest
  <2>1. Whole(d) /\ FencedFrom(d) /\ tree[from[d]].manifest /\ from[d] \in Dirs /\ from[d] # d
    BY <1>2, <1>5, <1>6 DEF DirAt
  <2>2. tree'[from[d]] = tree[from[d]]
    BY <1>3, <2>1
  <2>3. Unreleased(tree[from[d]].ledger)' = Unreleased(tree[from[d]].ledger)
    BY <1>1, <2>2 DEF Unreleased
  <2>4. FencedFrom(d)'
    BY <1>1, <1>3, <2>1, <2>3 DEF FencedFrom, FencedFor
  <2> QED
    BY <1>4, <2>1, <2>2, <2>4
<1>7. DirAt(d)'
  BY <1>1, <1>2, <1>3, <1>5, <1>6 DEF DirAt
<1> QED
  BY <1>1, <1>2, <1>3, <1>5, <1>7, BesideJob DEF JobApart, NodesKnown

\* What rots is an original or an archive, never a restored directory.
LEMMA RotStep ==
    ASSUME BackupInvariant, BackupAssumption, NEW d \in Dirs, NEW b \in Blobs, Rot(d, b)
    PROVE  BackupInvariant'
<1>1. /\ from[d] = NoDir /\ d \notin running /\ tree[d].blobs[b] = "good"
      /\ tree' = [tree EXCEPT ![d].blobs[b] = "rotten"]
      /\ UNCHANGED <<from, running, retired, job, nodes, crashes>>
  BY DEF Rot
<1>2. /\ tree \in [Dirs -> DirType] /\ nodes \subseteq Allocs /\ running \subseteq Dirs /\ DirAt(d)
  BY BackupFacts
<1>3. /\ tree' \in [Dirs -> DirType] /\ \A f \in Dirs \ {d} : tree'[f] = tree[f]
      /\ tree'[d] = [tree[d] EXCEPT !.blobs = tree'[d].blobs]
  BY SMTT(30), <1>1, <1>2 DEF DirType, Bytes
<1>4. /\ tree'[d].made = tree[d].made /\ tree'[d].marked = tree[d].marked
      /\ tree'[d].manifest = tree[d].manifest /\ tree'[d].ledger = tree[d].ledger
      /\ tree'[d].files = tree[d].files
  BY <1>2, <1>3 DEF DirType
<1>5. tree[d].blobs # NoFiles /\ tree[d].made
  BY <1>1, <1>2 DEF NoFiles, DirAt, NoTree
<1>6. DirAt(d)'
  BY <1>1, <1>2, <1>4, <1>5 DEF DirAt, VerifyPublications
<1> QED
  BY <1>1, <1>2, <1>3, <1>4, <1>5, <1>6, BesideJob DEF NodesKnown

\* A service stops, a workload ends, or nothing happens.
LEMMA EndStep ==
    ASSUME BackupInvariant, BackupAssumption, tree' = tree, running' \subseteq running,
           nodes' \subseteq nodes, from' = from, retired' = retired, job' = job, crashes' = crashes
    PROVE  BackupInvariant'
<1>1. tree \in [Dirs -> DirType] /\ nodes \subseteq Allocs /\ running \subseteq Dirs /\ JobApart
  BY BackupFacts
<1>2. ArchivesStay /\ NodesKnown
  BY DEF ArchivesStay, NodesKnown
<1>3. \A f \in Dirs : DirAt(f)'
  BY <1>2, DirStays
<1>4. JobApart' /\ JobStage' /\ CreateStage' /\ RestoreStage'
  BY <1>1, <1>2, JobStays DEF JobApart
<1> QED
  BY <1>1, <1>3, <1>4, BackupFacts, BackupParts

-----------------------------------------------------------------------------
(* The commands.                                                            *)
LEMMA IdleJob ==
    ASSUME job'.step = "idle"
    PROVE  JobApart' /\ JobStage' /\ CreateStage' /\ RestoreStage'
BY DEF JobApart, JobStage, CreateStage, RestoreStage

\* A step that only moves a command on.
LEMMA JobOnly ==
    ASSUME BackupInvariant, BackupAssumption, tree' = tree,
           UNCHANGED <<from, running, nodes>>, retired' \subseteq Dirs,
           crashes' \in 0..MaxCrashes,
           job' \in [kind : {"none", "create", "restore"}, step : Steps, src : Dirs,
           dst : Dirs],
           JobApart', JobStage', CreateStage', RestoreStage'
    PROVE  BackupInvariant'
<1>1. ArchivesStay /\ NodesKnown
  BY DEF ArchivesStay, NodesKnown
<1>2. \A f \in Dirs : DirAt(f)'
  BY <1>1, DirStays
<1> QED
  BY <1>2, BackupFacts, BackupParts

\* A step of a command writes to its new directory.
LEMMA OnDestination ==
    ASSUME BackupInvariant, BackupAssumption, NEW d \in Dirs,
           tree' \in [Dirs -> DirType], \A f \in Dirs \ {d} : tree'[f] = tree[f],
           from' \in [Dirs -> Dirs \cup {NoDir}], \A f \in Dirs \ {d} : from'[f] = from[f],
           UNCHANGED <<running, retired, nodes, crashes>>,
           job' \in [kind : {"none", "create", "restore"}, step : Steps, src : Dirs,
           dst : Dirs],
           tree[d].manifest => /\ tree'[d].manifest
                                     /\ tree'[d].ledger = tree[d].ledger,
           DirAt(d)', JobApart', JobStage', CreateStage', RestoreStage'
    PROVE  BackupInvariant'
<1>1. ArchivesStay /\ NodesKnown
  BY DEF ArchivesStay, NodesKnown
<1>2. ASSUME NEW f \in Dirs PROVE DirAt(f)'
  <2>1. CASE f = d
    BY <2>1
  <2>2. CASE f # d
    BY <1>1, <2>2, DirStays
  <2> QED
    BY <2>1, <2>2
<1>3. running' \subseteq Dirs /\ retired' \subseteq Dirs /\ nodes' \subseteq Allocs /\ crashes' \in 0..MaxCrashes
  BY BackupFacts
<1> QED
  BY <1>2, <1>3, BackupParts

LEMMA BeginStep ==
    ASSUME BackupInvariant, BackupAssumption, NEW e \in Dirs, NEW d \in Dirs,
           BeginCreate(e, d) \/ BeginRestore(e, d)
    PROVE  BackupInvariant'
<1>1. /\ e # d /\ e \notin running /\ d \notin running /\ tree' = tree
      /\ retired' = retired \/ retired' = retired \cup {f \in Dirs : tree[f].db /\ ~tree[f].manifest}
      /\ \/ job' = [kind |-> "create", step |-> "mkdir", src |-> e, dst |-> d]
         \/ /\ job' = [kind |-> "restore", step |-> "check", src |-> e, dst |-> d]
            /\ tree[e].manifest
      /\ UNCHANGED <<from, running, nodes, crashes>>
  BY DEF BeginCreate, BeginRestore, Exclusive, Locked
<1>2. retired' \subseteq Dirs
  BY <1>1, BackupFacts
<1>3. job' \in [kind : {"none", "create", "restore"}, step : Steps, src : Dirs, dst : Dirs]
  BY <1>1 DEF Steps
<1>4. JobApart'
  BY <1>1 DEF JobApart, CreateSteps, RestoreSteps
<1>5. JobStage' /\ CreateStage' /\ RestoreStage'
  BY <1>1 DEF JobStage, CreateStage, RestoreStage
<1> QED
  BY <1>1, <1>2, <1>3, <1>4, <1>5, JobOnly, BackupFacts

\* A refusal and a death leave what was written.
LEMMA GiveUpStep ==
    ASSUME BackupInvariant, BackupAssumption, tree' = tree,
           UNCHANGED <<from, running, retired, nodes>>,
           job' = NoJob \/ job' = [job EXCEPT !.step = "idle"],
           crashes' = crashes \/ (crashes < MaxCrashes /\ crashes' = crashes + 1)
    PROVE  BackupInvariant'
<1>1. /\ job \in [kind : {"none", "create", "restore"}, step : Steps, src : Dirs, dst : Dirs]
      /\ crashes \in 0..MaxCrashes
  BY BackupFacts
<1>2. job'.step = "idle" /\ (job' = NoJob \/ job' = [job EXCEPT !.step = "idle"])
  BY <1>1 DEF NoJob
<1>3. job' \in [kind : {"none", "create", "restore"}, step : Steps, src : Dirs, dst : Dirs]
  BY <1>1, <1>2 DEF NoJob, Steps, BackupAssumption
<1>4. crashes' \in 0..MaxCrashes
  BY <1>1 DEF BackupAssumption
<1> QED
  BY <1>2, <1>3, <1>4, IdleJob, JobOnly, BackupFacts

LEMMA DeathStep ==
    ASSUME BackupInvariant, BackupAssumption, Abort \/ Refused
    PROVE  BackupInvariant'
<1>1. /\ tree' = tree /\ from' = from /\ running' = running /\ retired' = retired
      /\ nodes' = nodes /\ job' = NoJob
      /\ crashes' = crashes \/ (crashes < MaxCrashes /\ crashes' = crashes + 1)
  BY DEF Abort, Refused
<1> QED
  BY <1>1, GiveUpStep

LEMMA CheckManifestStep ==
    ASSUME BackupInvariant, BackupAssumption, CheckManifest
    PROVE  BackupInvariant'
<1>1. /\ job.step = "check" /\ tree' = tree /\ UNCHANGED <<from, running, retired, nodes, crashes>>
      /\ \/ job' = [job EXCEPT !.step = "mkdir"] \/ job' = [job EXCEPT !.step = "idle"]
  BY DEF CheckManifest, Then
<1>2. CASE job' = [job EXCEPT !.step = "idle"]
  BY <1>1, <1>2, GiveUpStep
<1>3. CASE job' = [job EXCEPT !.step = "mkdir"]
  <2>1. /\ job \in [kind : {"none", "create", "restore"}, step : Steps, src : Dirs, dst : Dirs]
        /\ JobApart /\ retired \subseteq Dirs /\ crashes \in 0..MaxCrashes
    BY BackupFacts
  <2>2. job'.step = "mkdir" /\ job'.kind = job.kind /\ job'.src = job.src /\ job'.dst = job.dst
    BY <1>3, <2>1
  <2>3. job' \in [kind : {"none", "create", "restore"}, step : Steps, src : Dirs, dst : Dirs]
    BY <1>3, <2>1 DEF Steps
  <2>4. JobApart'
    BY <1>1, <2>1, <2>2 DEF JobApart, CreateSteps, RestoreSteps
  <2>5. JobStage' /\ CreateStage' /\ RestoreStage'
    BY <2>2 DEF JobStage, CreateStage, RestoreStage
  <2> QED
    BY <1>1, <2>1, <2>3, <2>4, <2>5, JobOnly
<1> QED
  BY <1>1, <1>2, <1>3

\* mkdir succeeds only where nothing is.
LEMMA MakeDirectoryStep ==
    ASSUME BackupInvariant, BackupAssumption, NEW d \in Dirs, d = job.dst, MakeDirectory
    PROVE  BackupInvariant'
<1>1. job.step = "mkdir" /\ UNCHANGED <<from, running, retired, nodes, crashes>>
  BY DEF MakeDirectory, Then
<1>2. CASE tree[d].made
  BY <1>1, <1>2, GiveUpStep DEF MakeDirectory, NewDestination, Then
<1>3. CASE ~tree[d].made
  <2>1. tree' = [tree EXCEPT ![d].made = TRUE] /\ job' = [job EXCEPT !.step = "mark"]
    BY <1>3 DEF MakeDirectory, NewDestination, Then
  <2>2. /\ job \in [kind : {"none", "create", "restore"}, step : Steps, src : Dirs, dst : Dirs]
        /\ JobApart /\ tree \in [Dirs -> DirType] /\ from \in [Dirs -> Dirs \cup {NoDir}]
        /\ DirAt(d)
    BY BackupFacts
  <2>3. job'.step = "mark" /\ job'.kind = job.kind /\ job'.src = job.src /\ job'.dst = d
    BY <2>1, <2>2
  <2>4. job' \in [kind : {"none", "create", "restore"}, step : Steps, src : Dirs, dst : Dirs]
    BY <2>1, <2>2 DEF Steps
  <2>5. tree[d] = NoTree /\ from[d] = NoDir
    BY <1>3, <2>2 DEF DirAt
  <2>6. /\ tree' \in [Dirs -> DirType] /\ \A f \in Dirs \ {d} : tree'[f] = tree[f]
        /\ tree'[d] = [NoTree EXCEPT !.made = TRUE]
    <3>1. /\ tree' \in [Dirs -> DirType] /\ \A f \in Dirs \ {d} : tree'[f] = tree[f]
          /\ tree'[d] = [tree[d] EXCEPT !.made = TRUE]
      <4>1. tree[d] \in DirType
        BY <2>2
      <4>2. [tree[d] EXCEPT !.made = TRUE] \in DirType
        BY <4>1 DEF DirType
      <4>3. tree' = [tree EXCEPT ![d] = [tree[d] EXCEPT !.made = TRUE]]
        BY <2>1, <2>2
      <4> QED
        BY <2>2, <4>2, <4>3, TreeSet
    <3> QED
      BY <2>5, <3>1
  <2>7. /\ tree'[d].made /\ ~tree'[d].manifest
        /\ tree'[d].ledger = tree[d].ledger
    BY <2>5, <2>6 DEF NoTree
  <2>8. DirAt(d)'
    BY <1>1, <2>2, <2>3, <2>5, <2>7, job.step # "idle" DEF DirAt, JobApart
  <2>9. JobApart'
    BY <1>1, <2>2, <2>3, <2>6 DEF JobApart, CreateSteps, RestoreSteps
  <2>10. JobStage' /\ CreateStage' /\ RestoreStage'
    BY <1>1, <2>3, <2>5, <2>6 DEF JobStage, CreateStage, RestoreStage
  <2>11. ~tree[d].manifest
    BY <2>5 DEF NoTree
  <2> QED
    BY <1>1, <2>2, <2>4, <2>6, <2>8, <2>9, <2>10, <2>11, OnDestination
<1> QED
  BY <1>2, <1>3

\* The mark comes before anything else.
LEMMA MarkIncompleteStep ==
    ASSUME BackupInvariant, BackupAssumption, NEW d \in Dirs, d = job.dst, MarkIncomplete
    PROVE  BackupInvariant'
<1>1. /\ job.step = "mark" /\ tree' = [tree EXCEPT ![d].marked = TRUE]
      /\ job' = [job EXCEPT !.step = "database"]
      /\ UNCHANGED <<from, running, retired, nodes, crashes>>
  BY DEF MarkIncomplete, Then
<1>2. /\ job \in [kind : {"none", "create", "restore"}, step : Steps, src : Dirs, dst : Dirs]
      /\ job.src \in Dirs /\ JobApart /\ JobStage /\ CreateStage /\ RestoreStage
      /\ tree \in [Dirs -> DirType] /\ from \in [Dirs -> Dirs \cup {NoDir}]
      /\ DirAt(d) /\ DirAt(job.src)
  BY BackupFacts
<1>3. job'.step = "database" /\ job'.kind = job.kind /\ job'.src = job.src /\ job'.dst = d
  BY <1>1, <1>2
<1>4. job' \in [kind : {"none", "create", "restore"}, step : Steps, src : Dirs, dst : Dirs]
  BY <1>1, <1>2 DEF Steps
<1>5. tree[d] = [NoTree EXCEPT !.made = TRUE] /\ from[d] = NoDir
  BY <1>1, <1>2 DEF JobStage
<1>6. /\ tree' \in [Dirs -> DirType] /\ \A f \in Dirs \ {d} : tree'[f] = tree[f]
      /\ tree'[d] = [tree[d] EXCEPT !.marked = TRUE]
  <2>1. tree[d] \in DirType
    BY <1>2
  <2>2. [tree[d] EXCEPT !.marked = TRUE] \in DirType
    BY <2>1 DEF DirType
  <2>3. tree' = [tree EXCEPT ![d] = [tree[d] EXCEPT !.marked = TRUE]]
    BY <1>1, <1>2
  <2> QED
    BY <1>2, <2>2, <2>3, TreeSet
<1>7. tree'[d] = [NoTree EXCEPT !.made = TRUE, !.marked = TRUE]
  BY <1>5, <1>6 DEF NoTree
<1>8. tree'[d].made /\ ~tree'[d].manifest /\ tree'[d].ledger = tree[d].ledger /\ ~tree[d].manifest
  BY <1>5, <1>7 DEF NoTree
<1>9. DirAt(d)'
  BY <1>1, <1>2, <1>3, <1>5, <1>8 DEF DirAt, JobApart
<1>10. JobApart'
  BY <1>1, <1>2, <1>3, <1>6 DEF JobApart, CreateSteps, RestoreSteps
<1>11. JobStage' /\ CreateStage' /\ RestoreStage'
  BY <1>1, <1>3, <1>5, <1>7 DEF JobStage, CreateStage, RestoreStage
<1> QED
  BY <1>1, <1>2, <1>4, <1>6, <1>8, <1>9, <1>10, <1>11, OnDestination

\* The ledger of the copy is that of its source, which nobody may change.
LEMMA CopyDatabaseStep ==
    ASSUME BackupInvariant, BackupAssumption, NEW d \in Dirs, d = job.dst, CopyDatabase
    PROVE  BackupInvariant'
<1>1. /\ job.step = "database"
      /\ tree' = [tree EXCEPT ![d].db = TRUE, ![d].ledger = tree[job.src].ledger]
      /\ job' = [job EXCEPT !.step = "blobs"]
      /\ from' = IF job.kind = "restore" THEN [from EXCEPT ![d] = job.src] ELSE from
      /\ UNCHANGED <<running, retired, nodes, crashes>>
  BY DEF CopyDatabase
<1>2. /\ job \in [kind : {"none", "create", "restore"}, step : Steps, src : Dirs, dst : Dirs]
      /\ job.src \in Dirs /\ JobApart /\ JobStage /\ CreateStage /\ RestoreStage
      /\ tree \in [Dirs -> DirType] /\ from \in [Dirs -> Dirs \cup {NoDir}]
      /\ DirAt(d) /\ DirAt(job.src)
  BY BackupFacts
<1>3. job'.step = "blobs" /\ job'.kind = job.kind /\ job'.src = job.src /\ job'.dst = d
  BY <1>1, <1>2
<1>4. job' \in [kind : {"none", "create", "restore"}, step : Steps, src : Dirs, dst : Dirs]
  BY <1>1, <1>2 DEF Steps
<1>5. tree[d] = [NoTree EXCEPT !.made = TRUE, !.marked = TRUE] /\ from[d] = NoDir /\ job.src # d
  BY <1>1, <1>2 DEF JobStage, JobApart
<1>6. tree[job.src].ledger \in LedgerType
  BY <1>2 DEF DirType
<1>7. /\ tree' \in [Dirs -> DirType] /\ \A f \in Dirs \ {d} : tree'[f] = tree[f]
      /\ tree'[d] = [tree[d] EXCEPT !.db = TRUE, !.ledger = tree[job.src].ledger]
  <2>1. tree[d] \in DirType
    BY <1>2
  <2>2. [tree[d] EXCEPT !.db = TRUE, !.ledger = tree[job.src].ledger] \in DirType
    BY <2>1, <1>6 DEF DirType
  <2>3. tree' = [tree EXCEPT ![d] = [tree[d] EXCEPT !.db = TRUE, !.ledger = tree[job.src].ledger]]
    BY <1>1, <1>2
  <2> QED
    BY <1>2, <2>2, <2>3, TreeSet
<1>8. /\ tree'[d].made /\ tree'[d].marked /\ ~tree'[d].manifest /\ ~tree[d].manifest
      /\ tree'[d].ledger = tree[job.src].ledger /\ tree'[d].blobs = NoFiles
  BY <1>5, <1>7 DEF NoTree
<1>9. /\ from' \in [Dirs -> Dirs \cup {NoDir}] /\ \A f \in Dirs \ {d} : from'[f] = from[f]
      /\ job.kind = "restore" => from'[d] = job.src
      /\ job.kind # "restore" => from'[d] = NoDir
  BY <1>1, <1>2, <1>5
<1>10. tree'[job.src] = tree[job.src]
  BY <1>2, <1>5, <1>7
<1>11. DirAt(d)'
  BY <1>1, <1>2, <1>8, <1>9, <1>10 DEF DirAt, JobApart
<1>12. JobApart'
  BY <1>1, <1>2, <1>3, <1>10 DEF JobApart, CreateSteps, RestoreSteps
<1>13. JobStage' /\ CreateStage'
  BY <1>3, <1>8, <1>9, <1>10 DEF JobStage, CreateStage
<1>14. RestoreStage'
  BY <1>3, <1>8, <1>9 DEF RestoreStage, NoFiles
<1> QED
  BY <1>1, <1>2, <1>4, <1>7, <1>8, <1>9, <1>11, <1>12, <1>13, <1>14, OnDestination

\* What was read is compared with the entry of the manifest.
LEMMA CopyBlobStep ==
    ASSUME BackupInvariant, BackupAssumption, NEW d \in Dirs, d = job.dst, NEW b \in Blobs,
    CopyBlob(b)
    PROVE  BackupInvariant'
<1>1. job.step = "blobs" /\ b \in Missing /\ UNCHANGED <<from, running, retired, nodes, crashes>>
  BY DEF CopyBlob, Then
<1>2. /\ job \in [kind : {"none", "create", "restore"}, step : Steps, src : Dirs, dst : Dirs]
      /\ job.src \in Dirs /\ JobApart /\ JobStage /\ CreateStage /\ RestoreStage
      /\ tree \in [Dirs -> DirType] /\ from \in [Dirs -> Dirs \cup {NoDir}]
      /\ DirAt(d) /\ DirAt(job.src)
  BY BackupFacts
<1>3. CASE ~CopyMatches(b)
  BY <1>1, <1>3, GiveUpStep DEF CopyBlob, Then
<1>4. CASE CopyMatches(b)
  <2> DEFINE seen == tree[job.src].blobs[b]
             kept == IF job.kind = "create" THEN seen ELSE tree[d].files[b]
  <2>1. /\ tree' = [tree EXCEPT ![d].blobs[b] = seen, ![d].files[b] = IF job.kind = "create" THEN seen ELSE @]
        /\ job' = [job EXCEPT !.step = "blobs"]
    BY <1>4 DEF CopyBlob, Then
  <2>2. job' = job
    BY <1>1, <1>2, <2>1
  <2>3. tree[d] \in DirType /\ tree[job.src] \in DirType
    BY <1>2
  <2>4. /\ tree[d].blobs \in [Blobs -> Bytes] /\ tree[d].files \in [Blobs -> Bytes]
        /\ tree[job.src].blobs \in [Blobs -> Bytes] /\ seen \in Bytes /\ kept \in Bytes
    BY <2>3 DEF DirType
  <2>5. PICK bs \in [Blobs -> Bytes], fs \in [Blobs -> Bytes] :
           bs = [tree[d].blobs EXCEPT ![b] = seen] /\ fs = [tree[d].files EXCEPT ![b] = kept]
    BY <2>4
  <2>6. [tree[d] EXCEPT !.blobs = bs, !.files = fs] \in DirType
    BY <2>3 DEF DirType
  <2>7. tree' = [tree EXCEPT ![d] = [tree[d] EXCEPT !.blobs = bs, !.files = fs]]
    <3>1. CASE job.kind = "create"
      <4>1. tree' = [tree EXCEPT ![d].blobs[b] = seen, ![d].files[b] = seen]
        BY <2>1, <3>1
      <4>2. fs = [tree[d].files EXCEPT ![b] = seen]
        BY <2>5, <3>1
      <4> QED
        BY <1>2, <2>3, <2>5, <4>1, <4>2 DEF DirType
    <3>2. CASE job.kind # "create"
      <4>1. tree' = [tree EXCEPT ![d].blobs[b] = seen, ![d].files[b] = tree[d].files[b]]
        BY <1>2, <2>1, <2>3, <3>2 DEF DirType
      <4>2. fs = [tree[d].files EXCEPT ![b] = tree[d].files[b]]
        BY <2>5, <3>2
      <4> QED
        BY <1>2, <2>3, <2>5, <4>1, <4>2 DEF DirType
    <3> QED
      BY <3>1, <3>2
  <2>8. /\ tree' \in [Dirs -> DirType] /\ \A f \in Dirs \ {d} : tree'[f] = tree[f]
        /\ tree'[d] = [tree[d] EXCEPT !.blobs = bs, !.files = fs]
    BY <1>2, <2>6, <2>7, TreeSet
  <2>9. /\ tree'[d].made = tree[d].made /\ tree'[d].marked = tree[d].marked
        /\ tree'[d].manifest = tree[d].manifest /\ tree'[d].ledger = tree[d].ledger
        /\ tree'[d].blobs = bs
    BY <2>3, <2>8 DEF DirType
  <2>10. tree[d].made /\ tree[d].marked /\ ~tree[d].manifest /\ job.src # d /\ d \notin running
    BY <1>1, <1>2 DEF JobStage, JobApart
  <2>11. tree'[job.src] = tree[job.src]
    BY <1>2, <2>8, <2>10
  <2>12. DirAt(d)'
    <3>1. from[d] # NoDir => tree'[from[d]].manifest
      BY <1>2, <2>8, <2>10 DEF DirAt
    <3> QED
      BY <1>1, <1>2, <2>9, <2>10, <3>1 DEF DirAt
  <2>13. JobApart' /\ JobStage' /\ CreateStage'
    BY <1>1, <1>2, <2>2, <2>9, <2>11 DEF JobApart, JobStage, CreateStage
  <2>14. RestoreStage'
    <3>1. SUFFICES ASSUME job.kind = "restore", NEW c \in Blobs
                   PROVE  from[d] = job.src /\ tree'[d].blobs[c] \in {"none",
                   tree'[job.src].files[c]}
      BY <1>1, <2>2, <2>11 DEF RestoreStage
    <3>2. from[d] = job.src /\ tree[d].blobs[c] \in {"none", tree[job.src].files[c]}
      BY <1>1, <1>2, <3>1 DEF RestoreStage
    <3>3. seen = tree[job.src].files[b]
      BY <1>4, <3>1 DEF CopyMatches
    <3> QED
      BY <2>4, <2>5, <2>9, <2>11, <3>2, <3>3
  <2> QED
    BY <1>1, <1>2, <2>2, <2>8, <2>10, <2>12, <2>13, <2>14, OnDestination
<1> QED
  BY <1>3, <1>4

\* A restored directory has every artifact of its ledger when all are copied: the
\* archive's manifest lists each under its hash.
LEMMA CopiedAllStep ==
    ASSUME BackupInvariant, BackupAssumption, NEW d \in Dirs, d = job.dst, CopiedAll
    PROVE  BackupInvariant'
<1>1. /\ job.step = "blobs" /\ Missing = {} /\ tree' = tree
      /\ job' = [job EXCEPT !.step = IF job.kind = "create" THEN "verify" ELSE "fence"]
      /\ UNCHANGED <<from, running, retired, nodes, crashes>>
  BY DEF CopiedAll, Then
<1>2. /\ job \in [kind : {"none", "create", "restore"}, step : Steps, src : Dirs, dst : Dirs]
      /\ job.src \in Dirs /\ JobApart /\ JobStage /\ CreateStage /\ RestoreStage
      /\ tree \in [Dirs -> DirType] /\ from \in [Dirs -> Dirs \cup {NoDir}]
      /\ DirAt(d) /\ DirAt(job.src)
  BY BackupFacts
<1>3. /\ job'.kind = job.kind /\ job'.src = job.src /\ job'.dst = d
      /\ job'.step = IF job.kind = "create" THEN "verify" ELSE "fence"
      /\ job' \in [kind : {"none", "create", "restore"}, step : Steps, src : Dirs, dst : Dirs]
  BY <1>1, <1>2 DEF Steps
<1>4. JobApart' /\ JobStage' /\ CreateStage'
  BY <1>1, <1>2, <1>3 DEF JobApart, JobStage, CreateStage, CreateSteps, RestoreSteps
<1>5. job.kind = "restore" => Whole(d)
  <2>1. SUFFICES ASSUME job.kind = "restore", NEW b \in tree[d].ledger.pubs PROVE tree[d].blobs[b] = "good"
    BY DEF Whole
  <2>2. tree[d].ledger = tree[job.src].ledger /\ tree[job.src].manifest
    BY <1>1, <1>2, <2>1 DEF JobStage, JobApart
  <2>3. tree[job.src].files[b] = "good" /\ b \in Blobs
    BY <1>2, <2>1, <2>2 DEF DirAt, VerifyPublications, DirType, LedgerType
  <2>4. tree[d].blobs[b] # "none"
    BY <1>1, <2>1, <2>3 DEF Missing, Wanted
  <2> QED
    BY <1>1, <1>2, <2>1, <2>3, <2>4 DEF RestoreStage
<1>6. Whole(d)' = Whole(d)
  BY <1>1 DEF Whole
<1>7. RestoreStage'
  BY <1>1, <1>2, <1>3, <1>5, <1>6 DEF RestoreStage, Whole
<1> QED
  BY <1>1, <1>3, <1>4, <1>7, JobOnly, BackupFacts

-----------------------------------------------------------------------------
(* Closing a snapshot, and a restored ledger.                               *)
\* The manifest follows the comparison with the ledger of the source.
LEMMA VerifySnapshotStep ==
    ASSUME BackupInvariant, BackupAssumption, NEW d \in Dirs, d = job.dst, VerifySnapshot
    PROVE  BackupInvariant'
<1>1. /\ job.step = "verify" /\ tree' = tree /\ UNCHANGED <<from, running, retired, nodes, crashes>>
      /\ job' = [job EXCEPT !.step = IF VerifyPublications(tree[job.src].ledger, tree[d].files)
                                       THEN "manifest" ELSE "idle"]
  BY DEF VerifySnapshot, Then
<1>2. /\ job \in [kind : {"none", "create", "restore"}, step : Steps, src : Dirs, dst : Dirs]
      /\ JobApart /\ JobStage /\ CreateStage /\ RestoreStage
  BY BackupFacts
<1>3. CASE ~VerifyPublications(tree[job.src].ledger, tree[d].files)
  BY <1>1, <1>3, GiveUpStep
<1>4. CASE VerifyPublications(tree[job.src].ledger, tree[d].files)
  <2>1. /\ job'.kind = "create" /\ job'.src = job.src /\ job'.dst = d /\ job'.step = "manifest"
        /\ job' \in [kind : {"none", "create", "restore"}, step : Steps, src : Dirs, dst : Dirs]
        /\ job.kind = "create"
    BY <1>1, <1>2, <1>4 DEF Steps, JobApart, RestoreSteps
  <2>2. JobApart' /\ JobStage'
    BY <1>1, <1>2, <2>1 DEF JobApart, JobStage, CreateSteps
  <2>3. VerifyPublications(tree[d].ledger, tree[d].files)'
    BY <1>1, <1>2, <1>4 DEF JobStage, VerifyPublications
  <2>4. CreateStage' /\ RestoreStage'
    BY <1>1, <1>2, <2>1, <2>3 DEF CreateStage, RestoreStage, VerifyPublications
  <2> QED
    BY <1>1, <2>1, <2>2, <2>4, JobOnly, BackupFacts
<1> QED
  BY <1>3, <1>4

LEMMA WriteManifestStep ==
    ASSUME BackupInvariant, BackupAssumption, NEW d \in Dirs, d = job.dst, WriteManifest
    PROVE  BackupInvariant'
<1>1. /\ job.step = "manifest" /\ tree' = [tree EXCEPT ![d].manifest = TRUE]
      /\ job' = [job EXCEPT !.step = "unmark"]
      /\ UNCHANGED <<from, running, retired, nodes, crashes>>
  BY DEF WriteManifest, Then
<1>2. /\ job \in [kind : {"none", "create", "restore"}, step : Steps, src : Dirs, dst : Dirs]
      /\ job.src \in Dirs /\ JobApart /\ JobStage /\ CreateStage /\ RestoreStage
      /\ tree \in [Dirs -> DirType] /\ from \in [Dirs -> Dirs \cup {NoDir}]
      /\ DirAt(d) /\ DirAt(job.src)
  BY BackupFacts
<1>3. /\ job'.step = "unmark" /\ job'.kind = "create" /\ job'.src = job.src /\ job'.dst = d
      /\ job.kind = "create"
      /\ job' \in [kind : {"none", "create", "restore"}, step : Steps, src : Dirs, dst : Dirs]
  BY <1>1, <1>2 DEF Steps, JobApart, RestoreSteps
<1>4. /\ from[d] = NoDir /\ VerifyPublications(tree[d].ledger, tree[d].files)
      /\ tree[d].made /\ tree[d].marked /\ ~tree[d].manifest
      /\ job.src # d /\ job.src \notin running /\ d \notin running
  BY <1>1, <1>2, <1>3 DEF JobStage, JobApart, CreateStage
<1>5. /\ tree' \in [Dirs -> DirType] /\ \A f \in Dirs \ {d} : tree'[f] = tree[f]
      /\ tree'[d] = [tree[d] EXCEPT !.manifest = TRUE]
  <2>1. tree[d] \in DirType
    BY <1>2
  <2>2. [tree[d] EXCEPT !.manifest = TRUE] \in DirType
    BY <2>1 DEF DirType
  <2>3. tree' = [tree EXCEPT ![d] = [tree[d] EXCEPT !.manifest = TRUE]]
    BY <1>1, <1>2
  <2> QED
    BY <1>2, <2>2, <2>3, TreeSet
<1>6. /\ tree'[d].made /\ tree'[d].marked /\ tree'[d].manifest
      /\ tree'[d].ledger = tree[d].ledger /\ tree'[d].files = tree[d].files
  <2>1. tree[d] \in DirType
    BY <1>2
  <2> QED
    BY <1>4, <1>5, <2>1 DEF DirType
<1>7. DirAt(d)'
  BY <1>1, <1>2, <1>4, <1>6 DEF DirAt, VerifyPublications
<1>8. JobApart'
  BY <1>1, <1>3, <1>4 DEF JobApart, CreateSteps
<1>9. JobStage' /\ CreateStage' /\ RestoreStage'
  BY <1>1, <1>3, <1>4, <1>6 DEF JobStage, CreateStage, RestoreStage
<1> QED
  BY <1>1, <1>2, <1>3, <1>4, <1>5, <1>7, <1>8, <1>9, OnDestination

\* The receipt of a restore follows the fencing transaction.
LEMMA FenceAllocationsStep ==
    ASSUME BackupInvariant, BackupAssumption, NEW d \in Dirs, d = job.dst, FenceAllocations
    PROVE  BackupInvariant'
<1> DEFINE l == tree[d].ledger
<1>1. /\ job.step = "fence" /\ l.epoch < MaxEpoch
      /\ tree' = [tree EXCEPT ![d].ledger = Fenced(l)]
      /\ job' = [job EXCEPT !.step = "unmark"]
      /\ UNCHANGED <<from, running, retired, nodes, crashes>>
  BY DEF FenceAllocations, Then, Ledger
<1>2. /\ job \in [kind : {"none", "create", "restore"}, step : Steps, src : Dirs, dst : Dirs]
      /\ job.src \in Dirs /\ JobApart /\ JobStage /\ CreateStage /\ RestoreStage
      /\ tree \in [Dirs -> DirType] /\ from \in [Dirs -> Dirs \cup {NoDir}]
      /\ DirAt(d) /\ DirAt(job.src)
  BY BackupFacts
<1>3. /\ job'.step = "unmark" /\ job'.kind = "restore" /\ job'.src = job.src /\ job'.dst = d
      /\ job.kind = "restore"
      /\ job' \in [kind : {"none", "create", "restore"}, step : Steps, src : Dirs, dst : Dirs]
  BY <1>1, <1>2 DEF Steps, JobApart, CreateSteps
<1>4. /\ from[d] = job.src /\ tree[job.src].manifest /\ l = tree[job.src].ledger /\ Whole(d)
      /\ tree[d].made /\ tree[d].marked /\ ~tree[d].manifest
      /\ job.src # d /\ job.src \notin running /\ d \notin running
  BY <1>1, <1>2, <1>3 DEF JobStage, JobApart, RestoreStage
<1>5. /\ tree[d] \in DirType /\ l \in LedgerType /\ l.epoch \in 0..MaxEpoch
      /\ l.phase \in [Allocs -> Phases] /\ l.granted \in [Allocs -> 0..MaxEpoch]
      /\ l.fences \subseteq Allocs /\ Unreleased(l) \subseteq Allocs
  BY <1>2 DEF DirType, LedgerType, Unreleased
<1>6. PICK l2 : l2 = Fenced(l)
  OBVIOUS
<1>7. /\ l2.epoch = l.epoch + 1 /\ l2.granted = l.granted /\ l2.pubs = l.pubs
      /\ l2.fences = l.fences \cup Unreleased(l)
      /\ l2.phase = [a \in Allocs |-> IF a \in Unreleased(l) THEN "uncertain" ELSE l.phase[a]]
  BY <1>5, <1>6 DEF Fenced, LedgerType
<1>8. l2 \in LedgerType
  <2>1. l2.epoch \in 0..MaxEpoch
    BY <1>1, <1>5, <1>7 DEF BackupAssumption
  <2>2. l2.fences \subseteq Allocs
    BY <1>5, <1>7
  <2>3. l2.phase \in [Allocs -> Phases]
    BY <1>5, <1>7 DEF Phases
  <2> QED
    BY <1>5, <1>6, <1>7, <2>1, <2>2, <2>3 DEF LedgerType, Fenced
<1>9. /\ tree' \in [Dirs -> DirType] /\ \A f \in Dirs \ {d} : tree'[f] = tree[f]
      /\ tree'[d] = [tree[d] EXCEPT !.ledger = l2]
  <2>1. [tree[d] EXCEPT !.ledger = l2] \in DirType
    BY <1>5, <1>8 DEF DirType
  <2>2. tree' = [tree EXCEPT ![d] = [tree[d] EXCEPT !.ledger = l2]]
    BY <1>1, <1>2, <1>6
  <2> QED
    BY <1>2, <2>1, <2>2, TreeSet
<1>10. /\ tree'[d].made /\ tree'[d].marked /\ ~tree'[d].manifest
       /\ tree'[d].ledger = l2 /\ tree'[d].blobs = tree[d].blobs
       /\ tree'[job.src] = tree[job.src]
  BY <1>2, <1>4, <1>5, <1>9 DEF DirType
<1>11. \A a \in Allocs : l.granted[a] \in Nat /\ l.granted[a] <= l.epoch /\ l.epoch \in Nat
  BY <1>2, <1>5 DEF DirAt
<1>12. Whole(d)'
  BY <1>4, <1>7, <1>10 DEF Whole
<1>13. FencedFrom(d)'
  <2>1. Unreleased(tree[from[d]].ledger)' = Unreleased(l)
    BY <1>1, <1>4, <1>10 DEF Unreleased
  <2>2. SUFFICES ASSUME NEW a \in Unreleased(l) PROVE FencedFor(d, a)'
    BY <2>1 DEF FencedFrom
  <2>3. a \in l2.fences /\ l2.phase[a] = "uncertain"
    BY <1>5, <1>7
  <2>4. l2.granted[a] < l2.epoch
    BY <1>5, <1>7, <1>11
  <2> QED
    BY <1>1, <1>10, <2>3, <2>4 DEF FencedFor
<1>14. DirAt(d)'
  <2>1. \A a \in Allocs : l2.granted[a] <= l2.epoch
    BY <1>7, <1>11
  <2>2. from'[d] = job.src /\ d \notin running' /\ tree'[job.src].manifest
    BY <1>1, <1>4, <1>10
  <2> QED
    BY <1>10, <1>12, <1>13, <2>1, <2>2 DEF DirAt
<1>15. JobApart'
  BY <1>1, <1>3, <1>4, <1>10 DEF JobApart, RestoreSteps
<1>16. JobStage' /\ CreateStage'
  BY <1>3, <1>10 DEF JobStage, CreateStage
<1>17. RestoreStage'
  <2>1. Whole(job.dst)'
    BY <1>3, <1>12 DEF Whole
  <2>2. FencedFrom(job.dst)'
    BY <1>3, <1>13 DEF FencedFrom, FencedFor
  <2> QED
    BY <1>1, <1>3, <1>4, <2>1, <2>2 DEF RestoreStage
<1> QED
  BY <1>1, <1>2, <1>3, <1>4, <1>9, <1>14, <1>15, <1>16, <1>17, OnDestination

\* What was incomplete is whole and fenced when its mark goes.
LEMMA UnmarkStep ==
    ASSUME BackupInvariant, BackupAssumption, NEW d \in Dirs, d = job.dst, Unmark
    PROVE  BackupInvariant'
<1>1. /\ job.step = "unmark" /\ tree' = [tree EXCEPT ![d].marked = FALSE]
      /\ job' = NoJob
      /\ UNCHANGED <<from, running, retired, nodes, crashes>>
  BY DEF Unmark
<1>2. /\ job \in [kind : {"none", "create", "restore"}, step : Steps, src : Dirs, dst : Dirs]
      /\ job.src \in Dirs /\ JobApart /\ JobStage /\ CreateStage /\ RestoreStage
      /\ tree \in [Dirs -> DirType] /\ from \in [Dirs -> Dirs \cup {NoDir}]
      /\ DirAt(d) /\ DirAt(job.src)
  BY BackupFacts
<1>3. /\ job'.step = "idle"
      /\ job' \in [kind : {"none", "create", "restore"}, step : Steps, src : Dirs, dst : Dirs]
  BY <1>1 DEF NoJob, Steps, BackupAssumption
<1>4. tree[d].made /\ job.src # d /\ d \notin running
  BY <1>1, <1>2 DEF JobStage, JobApart
<1>5. /\ tree' \in [Dirs -> DirType] /\ \A f \in Dirs \ {d} : tree'[f] = tree[f]
      /\ tree'[d] = [tree[d] EXCEPT !.marked = FALSE]
  <2>1. tree[d] \in DirType
    BY <1>2
  <2>2. [tree[d] EXCEPT !.marked = FALSE] \in DirType
    BY <2>1 DEF DirType
  <2>3. tree' = [tree EXCEPT ![d] = [tree[d] EXCEPT !.marked = FALSE]]
    BY <1>1, <1>2
  <2> QED
    BY <1>2, <2>2, <2>3, TreeSet
<1>6. /\ tree'[d].made /\ tree'[d].manifest = tree[d].manifest /\ tree'[d].blobs = tree[d].blobs
      /\ tree'[d].ledger = tree[d].ledger /\ tree'[d].files = tree[d].files
  <2>1. tree[d] \in DirType
    BY <1>2
  <2> QED
    BY <1>4, <1>5, <2>1 DEF DirType
<1>7. CASE job.kind = "create"
  <2>1. from[d] = NoDir
    BY <1>1, <1>2, <1>7 DEF CreateStage
  <2>2. DirAt(d)'
    BY <1>1, <1>2, <1>4, <1>6, <2>1 DEF DirAt, VerifyPublications
  <2> QED
    BY <1>1, <1>3, <1>5, <1>6, <1>2, <2>2, IdleJob, OnDestination
<1>8. CASE job.kind # "create"
  <2>1. from[d] = job.src /\ tree[job.src].manifest /\ Whole(d) /\ FencedFrom(d)
    BY <1>1, <1>2, <1>8 DEF RestoreStage, JobApart
  <2>2. tree'[job.src] = tree[job.src]
    BY <1>2, <1>4, <1>5
  <2>3. Whole(d)'
    BY <1>6, <2>1 DEF Whole
  <2>4. Unreleased(tree[from[d]].ledger)' = Unreleased(tree[from[d]].ledger)
    BY <1>1, <2>1, <2>2 DEF Unreleased
  <2>5. FencedFrom(d)'
    BY <1>1, <1>6, <2>1, <2>4 DEF FencedFrom, FencedFor
  <2>6. DirAt(d)'
    BY <1>1, <1>2, <1>4, <1>6, <2>1, <2>2, <2>3, <2>5 DEF DirAt, VerifyPublications
  <2> QED
    BY <1>1, <1>3, <1>5, <1>6, <1>2, <2>6, IdleJob, OnDestination
<1> QED
  BY <1>7, <1>8

-----------------------------------------------------------------------------
(* The specification.                                                       *)
LEMMA BackupStarts ==
    ASSUME BackupAssumption, Init
    PROVE  BackupInvariant
<1>1. NoLedger \in LedgerType /\ NoTree \in DirType
  BY DEF NoLedger, NoTree, NoFiles, LedgerType, DirType, Phases, Bytes, BackupAssumption
<1>2. /\ tree \in [Dirs -> DirType] /\ from \in [Dirs -> Dirs \cup {NoDir}]
      /\ \A d \in Dirs : tree[d] = NoTree /\ from[d] = NoDir
      /\ running = {} /\ retired = {} /\ nodes = {} /\ crashes = 0 /\ job = NoJob
  BY <1>1 DEF Init
<1>3. job \in [kind : {"none", "create", "restore"}, step : Steps, src : Dirs, dst : Dirs]
  BY <1>2 DEF NoJob, Steps, BackupAssumption
<1>4. TypeOK
  BY <1>2, <1>3 DEF TypeOK, DirType, BackupAssumption
<1>5. ASSUME NEW d \in Dirs PROVE DirAt(d)
  <2>1. ~NoTree.manifest /\ \A a \in Allocs : NoTree.ledger.granted[a] <= NoTree.ledger.epoch
    BY DEF NoTree, NoLedger
  <2> QED
    BY <1>2, <2>1 DEF DirAt
<1>6. JobApart /\ JobStage /\ CreateStage /\ RestoreStage
  BY <1>2 DEF NoJob, JobApart, JobStage, CreateStage, RestoreStage
<1> QED
  BY <1>4, <1>5, <1>6 DEF BackupInvariant

LEMMA BackupSteps ==
    ASSUME BackupAssumption, BackupInvariant, [Next]_vars
    PROVE  BackupInvariant'
<1>1. CASE UNCHANGED vars
  BY <1>1, EndStep DEF vars
<1>2. CASE Next
  <2>1. PICK d \in Dirs : d = job.dst
    BY BackupFacts
  <2>2. ASSUME NEW e \in Dirs, Start(e) \/ Stop(e) PROVE BackupInvariant'
    <3>1. CASE Start(e)
      BY <3>1, StartStep
    <3>2. CASE Stop(e)
      BY <3>2, EndStep DEF Stop
    <3> QED
      BY <2>2, <3>1, <3>2
  <2>3. ASSUME NEW e \in Dirs, NEW a \in Allocs, Serve(e, a) PROVE BackupInvariant'
    BY <2>3, ServeStep
  <2>4. ASSUME NEW e \in Dirs, NEW b \in Blobs, Publish(e, b) \/ Rot(e, b) PROVE BackupInvariant'
    BY <2>4, PublishStep, RotStep
  <2>5. ASSUME NEW a \in Allocs, Exit(a) PROVE BackupInvariant'
    BY <2>5, EndStep DEF Exit
  <2>6. ASSUME NEW s \in Dirs, NEW e \in Dirs, BeginCreate(s, e) \/ BeginRestore(s, e)
        PROVE  BackupInvariant'
    BY <2>6, BeginStep
  <2>7. CASE MakeDirectory \/ MarkIncomplete \/ CopyDatabase \/ CopiedAll
    BY <2>1, <2>7, MakeDirectoryStep, MarkIncompleteStep, CopyDatabaseStep, CopiedAllStep
  <2>8. ASSUME NEW b \in Blobs, CopyBlob(b) PROVE BackupInvariant'
    BY <2>1, <2>8, CopyBlobStep
  <2>9. CASE VerifySnapshot \/ WriteManifest \/ Unmark
    BY <2>1, <2>9, VerifySnapshotStep, WriteManifestStep, UnmarkStep
  <2>10. CASE CheckManifest \/ FenceAllocations
    BY <2>1, <2>10, CheckManifestStep, FenceAllocationsStep
  <2>11. CASE Abort \/ Refused
    BY <2>11, DeathStep
  <2> QED
    BY <1>2, <2>2, <2>3, <2>4, <2>5, <2>6, <2>7, <2>8, <2>9, <2>10, <2>11 DEF Next
<1> QED
  BY <1>1, <1>2

LEMMA CopiesHold ==
    ASSUME BackupInvariant
    PROVE  SnapshotIsWhole /\ RestoredIsWhole /\ RestoredIsFenced
<1>1. running \subseteq Dirs /\ \A d \in Dirs : DirAt(d)
  BY BackupFacts
<1>2. SnapshotIsWhole
  BY <1>1 DEF SnapshotIsWhole, DirAt, VerifyPublications
<1>3. RestoredIsWhole
  BY <1>1 DEF RestoredIsWhole, DirAt, Whole
<1>4. RestoredIsFenced
  BY <1>1 DEF RestoredIsFenced, DirAt, FencedFrom, FencedFor
<1> QED
  BY <1>2, <1>3, <1>4

LEMMA IncompleteIsLeft ==
    ASSUME BackupAssumption, BackupInvariant, Next
    PROVE  LeavesIncomplete
<1> SUFFICES ASSUME NEW d \in Dirs, tree[d].marked, ~Writing(job, d)
             PROVE  /\ [tree[d] EXCEPT !.blobs = tree'[d].blobs] = tree'[d]
                    /\ d \notin running' /\ ~Writing(job', d)
  BY DEF LeavesIncomplete
<1>1. /\ tree \in [Dirs -> DirType] /\ running \subseteq Dirs /\ \A e \in Dirs : DirAt(e)
      /\ job \in [kind : {"none", "create", "restore"}, step : Steps, src : Dirs, dst : Dirs]
  BY BackupFacts
<1>2. d \notin running /\ tree[d].made
  <2>1. DirAt(d) /\ ~NoTree.marked
    BY <1>1 DEF NoTree
  <2> QED
    BY <2>1 DEF DirAt
<1>3. tree'[d] = tree[d] => [tree[d] EXCEPT !.blobs = tree'[d].blobs] = tree'[d]
  <2>1. tree[d] \in DirType
    BY <1>1
  <2> QED
    BY <2>1 DEF DirType
<1>4. ASSUME NEW e \in Dirs, Start(e)
      PROVE  tree'[d] = tree[d] /\ d \notin running' /\ job' = job
  BY <1>1, <1>4 DEF Start, Runnable
<1>5. ASSUME NEW e \in Dirs, Stop(e)
      PROVE  tree'[d] = tree[d] /\ d \notin running' /\ job' = job
  BY <1>5 DEF Stop
<1>6. ASSUME NEW e \in Dirs, NEW a \in Allocs, Serve(e, a)
      PROVE  tree'[d] = tree[d] /\ d \notin running' /\ job' = job
  <2>1. e # d /\ running' = running /\ job' = job
    BY <1>2, <1>6 DEF Serve
  <2>2. PICK l2 : tree' = [tree EXCEPT ![e].ledger = l2]
    BY <1>6 DEF Serve, Ledger
  <2> QED
    BY <1>1, <1>2, <2>1, <2>2
<1>7. ASSUME NEW e \in Dirs, NEW b \in Blobs, Publish(e, b)
      PROVE  tree'[d] = tree[d] /\ d \notin running' /\ job' = job
  BY <1>1, <1>2, <1>7 DEF Publish
<1>8. ASSUME NEW e \in Dirs, NEW b \in Blobs, Rot(e, b)
      PROVE  /\ [tree[d] EXCEPT !.blobs = tree'[d].blobs] = tree'[d]
             /\ d \notin running' /\ job' = job
  <2>1. tree' = [tree EXCEPT ![e].blobs[b] = "rotten"] /\ running' = running /\ job' = job
    BY <1>8 DEF Rot
  <2>2. tree[d] \in DirType
    BY <1>1
  <2> QED
    BY <1>1, <1>2, <2>1, <2>2 DEF DirType
<1>9. ASSUME NEW a \in Allocs, Exit(a)
      PROVE  tree'[d] = tree[d] /\ d \notin running' /\ job' = job
  BY <1>2, <1>9 DEF Exit
<1>10. ASSUME NEW s \in Dirs, NEW e \in Dirs, BeginCreate(s, e) \/ BeginRestore(s, e)
       PROVE  tree'[d] = tree[d] /\ d \notin running' /\ ~Writing(job', d)
  BY <1>2, <1>10 DEF BeginCreate, BeginRestore, Writing
<1>11. CASE MakeDirectory
  <2>1. job.step = "mkdir" /\ running' = running
    BY <1>11 DEF MakeDirectory, Then
  <2>2. CASE job.dst = d
    <3>1. tree' = tree /\ job' = [job EXCEPT !.step = "idle"]
      BY <1>2, <1>11, <2>2 DEF MakeDirectory, NewDestination, Then
    <3> QED
      BY <1>1, <1>2, <1>3, <2>1, <3>1 DEF Writing
  <2>3. CASE job.dst # d
    <3>1. tree' = tree \/ tree' = [tree EXCEPT ![job.dst].made = TRUE]
      BY <1>11 DEF MakeDirectory
    <3>2. job'.dst = job.dst
      BY <1>1, <1>11 DEF MakeDirectory, Then
    <3> QED
      BY <1>1, <1>2, <1>3, <2>1, <2>3, <3>1, <3>2 DEF Writing
  <2> QED
    BY <2>2, <2>3
<1>12. CASE \/ MarkIncomplete \/ CopyDatabase \/ CopiedAll \/ VerifySnapshot \/ WriteManifest
            \/ Unmark \/ FenceAllocations \/ \E b \in Blobs : CopyBlob(b)
  <2>1. job.step \notin {"idle", "check", "mkdir"} /\ running' = running
    BY <1>12 DEF MarkIncomplete, CopyDatabase, CopiedAll, VerifySnapshot, WriteManifest, Unmark,
                 FenceAllocations, CopyBlob, Then
  <2>2. job.dst # d
    BY <2>1 DEF Writing
  <2>3. job'.dst = job.dst \/ job'.step = "idle"
    <3>1. job' = NoJob \/ \E step : job' = [job EXCEPT !.step = step]
      BY <1>12 DEF MarkIncomplete, CopyDatabase, CopiedAll, VerifySnapshot, WriteManifest,
         Unmark,
                   FenceAllocations, CopyBlob, Then
    <3> QED
      BY <1>1, <3>1 DEF NoJob
  <2>4. tree'[d] = tree[d]
    BY <1>1, <1>12, <2>2 DEF MarkIncomplete, CopyDatabase, CopiedAll, VerifySnapshot,
                             WriteManifest, Unmark, FenceAllocations, CopyBlob, Ledger
  <2> QED
    BY <1>2, <1>3, <2>1, <2>2, <2>3, <2>4 DEF Writing
<1>13. CASE CheckManifest
  <2>1. tree' = tree /\ running' = running
        /\ (job' = [job EXCEPT !.step = "mkdir"] \/ job' = [job EXCEPT !.step = "idle"])
    BY <1>13 DEF CheckManifest, Then
  <2> QED
    BY <1>1, <1>2, <1>3, <2>1 DEF Writing
<1>14. CASE Abort \/ Refused
  <2>1. tree' = tree /\ running' = running /\ job' = NoJob
    BY <1>14 DEF Abort, Refused
  <2> QED
    BY <1>2, <1>3, <2>1 DEF Writing, NoJob
<1>15. job' = job => ~Writing(job', d)
  BY DEF Writing
<1> QED
  BY <1>3, <1>4, <1>5, <1>6, <1>7, <1>8, <1>9, <1>10, <1>11, <1>12, <1>13, <1>14, <1>15 DEF Next

-----------------------------------------------------------------------------
(* What the directories, the command at work and the services agree on is   *)
(* kept by every step: copies go on beside a service and may die anywhere.  *)
THEOREM BackupInductive ==
    ASSUME BackupAssumption
    PROVE  Spec => []BackupInvariant
<1>1. Init => BackupInvariant
  BY BackupStarts
<1>2. BackupInvariant /\ [Next]_vars => BackupInvariant'
  BY BackupSteps
<1> QED
  BY <1>1, <1>2, PTL DEF Spec

(* A finished snapshot has every publication of its ledger, and a service   *)
(* on a restored directory finds all of them intact and every allocation    *)
(* that the archive had not seen released fenced below its own epoch.       *)
THEOREM BackupSafe ==
    ASSUME BackupAssumption
    PROVE  Spec => [](SnapshotIsWhole /\ RestoredIsWhole /\ RestoredIsFenced)
<1>1. BackupInvariant => SnapshotIsWhole /\ RestoredIsWhole /\ RestoredIsFenced
  BY CopiesHold
<1> QED
  BY <1>1, BackupInductive, PTL

(* The remains of an interrupted copy are never filled, finished or served. *)
THEOREM IncompleteLeft ==
    ASSUME BackupAssumption
    PROVE  Spec => [][LeavesIncomplete]_vars
<1>1. BackupInvariant /\ [Next]_vars => [LeavesIncomplete]_vars
  BY IncompleteIsLeft
<1> QED
  BY <1>1, BackupInductive, PTL DEF Spec

=============================================================================
