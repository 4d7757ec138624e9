------------------------------ MODULE MCStorage ------------------------------
(***************************************************************************)
(* What CedeGrid keeps on disk, explored side by side: `about' says what a *)
(* behaviour is about.                                                     *)
(*   locks             locks, phases and recoveries of a state directory   *)
(*                     (Namespace)                                         *)
(*   durable, replay   the offline upgrade of either kind (OfflineUpgrade) *)
(*   copies, restores  backup and restore of publications, and of          *)
(*                     allocations (OfflineBackup)                         *)
(*   heads             one attempt, one artifact of two bytes and three    *)
(*                     publications (Publication)                          *)
(*   quota             an upload, a capture and a download want three      *)
(*                     bytes of spool (Publication)                        *)
(*   store             two attempts upload one content over two            *)
(*                     connections (ArtifactStore)                         *)
(*   full              an artifact store with room for one and a half of   *)
(*                     two contents (ArtifactStore)                        *)
(* What belongs to the others stays Unused.                                *)
(***************************************************************************)
EXTENDS Naturals, TLC

CONSTANTS
    Three,      \* processes of a state directory, publications of an attempt
    Pair,       \* directories a copy may be restored to, attempts, connections
    Source, Attempt, Uploads, Tasks, Writers, Paths, Allocs, Blobs,
    Byte, Length, Digests, Room, Inodes, Deaths, \* the artifact store, see ArtifactStore
    None

VARIABLES
    about,
    up, data, link, dirty, pub, desc, head, ledger, open, log, input, want,
    reopens, power,
    part, blob, synced, bytes, ro, used, rows, result, current, lane, th,
    anchor, meta, history, dir, quarantine, held, pc, role, ident, expects,
    session, minted, crashes,
    phase, quarantined, bundles, operation, marker, complete, path, legacy,
    writers, opened, report, retried,
    tree, from, running, retired, job, nodes

Unused == "unused"

\* What has theorems is an instance of the module of its proofs.
Locks == INSTANCE NamespaceProofs WITH
    Procs <- Three, Roles <- {"client", "supervisor", "agent", "offline", "replay"},
    MaxIdents <- 4, MaxCrashes <- 2
Durable == INSTANCE UpgradeProofs WITH Replay <- FALSE, MaxOutputs <- 1, MaxCrashes <- 3
Replay == INSTANCE UpgradeProofs WITH Replay <- TRUE, MaxOutputs <- 1, MaxCrashes <- 3
Copies == INSTANCE BackupProofs WITH
    Dirs <- Pair \cup {Source}, Allocs <- {}, MaxEpoch <- 3, MaxCrashes <- 1
Restores == INSTANCE BackupProofs WITH
    Dirs <- Pair \cup {Source}, Blobs <- {}, MaxEpoch <- 2, MaxCrashes <- 1
\* Publishers alone: the agent and the coordinator around them stay Unused.
Heads == INSTANCE DeliveryProofs WITH
    Upload <- Uploads, Pub <- Three, Byte <- {0, 1}, Size <- 2, Quota <- 9,
    MaxLog <- 0, MaxReopen <- 1, MaxPower <- 1, WorkerWaits <- TRUE, MaxCrash <- 0,
    leader <- Unused, sup <- Unused, outcome <- Unused, queue <- Unused, agent <- Unused,
    slots <- Unused, reported <- Unused, poll <- Unused, task <- Unused, sent <- Unused,
    receipt <- Unused, collected <- Unused, stored <- Unused, accepted <- Unused
Spool == INSTANCE Publication WITH
    Upload <- Uploads, Pub <- {"p1"}, Byte <- {0}, Size <- 2, Quota <- 3,
    MaxLog <- 1, MaxReopen <- 1, MaxPower <- 0
Store == INSTANCE ArtifactStore WITH
    Attempt <- Pair, Thread <- Pair, Size <- Length, Sha <- Digests,
    Quota <- Room, Inode <- Inodes, MaxCrash <- Deaths
Full == INSTANCE ArtifactStore WITH
    Thread <- Pair, Byte <- {0, 1}, Size <- 1, Sha <- {<<0>>, <<1>>},
    Quota <- 3, Inode <- 1..2, MaxCrash <- 1

ASSUME LocksAssumption == Locks!NamespaceAssumption
ASSUME UpgradesAssumption == Durable!UpgradeAssumption /\ Replay!UpgradeAssumption
ASSUME CopiesAssumption == Copies!BackupAssumption /\ Restores!BackupAssumption
ASSUME HeadsAssumption == Heads!PublicationConstants /\ Heads!DeliveryConstants
ASSUME Spool!PublicationConstants
ASSUME StoreAssumption == Store!StoreConstants
ASSUME Full!StoreConstants

ofLocks == <<anchor, history, quarantine, held, role, ident, expects,
    session, minted>>
ofUpgrade == <<phase, quarantined, bundles, operation, marker, complete,
    path, legacy, writers, opened, report, retried>>
ofCopies == <<tree, from, running, retired, nodes>>
ofSpool == <<up, data, link, dirty, pub, desc, head, ledger, open, log,
    input, want, reopens, power>>
ofStore == <<part, blob, synced, bytes, ro, used, rows, result, current,
    lane, th>>

\* Variables of more than one module, and which scenarios use them:
\* dir, pc of locks and upgrades; meta of locks and stores; job of copies and
\* spools; crashes of all but spools.
NoLocks ==
    /\ anchor = Unused /\ history = Unused /\ quarantine = Unused
    /\ held = Unused /\ role = Unused /\ ident = Unused /\ expects = Unused
    /\ session = Unused /\ minted = Unused
NoUpgrade ==
    /\ phase = Unused /\ quarantined = Unused /\ bundles = Unused
    /\ operation = Unused /\ marker = Unused /\ complete = Unused
    /\ path = Unused /\ legacy = Unused /\ writers = Unused /\ opened = Unused
    /\ report = Unused /\ retried = Unused
NoCopies ==
    /\ tree = Unused /\ from = Unused /\ running = Unused /\ retired = Unused
    /\ nodes = Unused
NoSpool ==
    /\ up = Unused /\ data = Unused /\ link = Unused /\ dirty = Unused
    /\ pub = Unused /\ desc = Unused /\ head = Unused /\ ledger = Unused
    /\ open = Unused /\ log = Unused /\ input = Unused /\ want = Unused
    /\ reopens = Unused /\ power = Unused
NoStore ==
    /\ part = Unused /\ blob = Unused /\ synced = Unused /\ bytes = Unused
    /\ ro = Unused /\ used = Unused /\ rows = Unused /\ result = Unused
    /\ current = Unused /\ lane = Unused /\ th = Unused
NoWork == dir = Unused /\ pc = Unused

Init ==
    \/ /\ about = "locks" /\ Locks!Init
       /\ NoUpgrade /\ NoCopies /\ NoSpool /\ NoStore /\ job = Unused
    \/ /\ \/ about = "durable" /\ Durable!Init
          \/ about = "replay" /\ Replay!Init
       /\ NoLocks /\ NoCopies /\ NoSpool /\ NoStore /\ meta = Unused /\ job = Unused
    \/ /\ \/ about = "copies" /\ Copies!Init
          \/ about = "restores" /\ Restores!Init
       /\ NoLocks /\ NoUpgrade /\ NoSpool /\ NoStore /\ NoWork /\ meta = Unused
    \/ /\ \/ about = "heads" /\ Heads!PubInit
          \/ about = "quota" /\ Spool!PubInit
       /\ NoLocks /\ NoUpgrade /\ NoCopies /\ NoStore /\ NoWork
       /\ meta = Unused /\ crashes = Unused
    \/ /\ \/ about = "store" /\ Store!Init
          \/ about = "full" /\ Full!Init
       /\ NoLocks /\ NoUpgrade /\ NoCopies /\ NoSpool /\ NoWork /\ job = Unused

Next ==
    \/ /\ about = "locks" /\ Locks!Next
       /\ UNCHANGED <<about, ofUpgrade, ofCopies, ofSpool, ofStore, job>>
    \/ /\ \/ about = "durable" /\ Durable!Next
          \/ about = "replay" /\ Replay!Next
       /\ UNCHANGED <<about, ofLocks, ofCopies, ofSpool, ofStore, meta, job>>
    \/ /\ \/ about = "copies" /\ Copies!Next
          \/ about = "restores" /\ Restores!Next
       /\ UNCHANGED <<about, ofLocks, ofUpgrade, ofSpool, ofStore, dir, pc, meta>>
    \/ /\ \/ about = "heads" /\ Heads!PubNext
          \/ about = "quota" /\ Spool!PubNext
       /\ UNCHANGED <<about, ofLocks, ofUpgrade, ofCopies, ofStore, dir, pc, meta, crashes>>
    \/ /\ \/ about = "store" /\ Store!Next
          \/ about = "full" /\ Full!Next
       /\ UNCHANGED <<about, ofLocks, ofUpgrade, ofCopies, ofSpool, dir, pc, job>>

vars == <<about, ofLocks, ofUpgrade, ofCopies, ofSpool, ofStore, dir, pc, meta, job, crashes>>
Spec == Init /\ [][Next]_vars

OneDigest == {<<0, 1>>}
Symmetry == Permutations(Three) \cup Permutations(Pair) \cup Permutations(Allocs)

TypeOK ==
    CASE about = "locks" -> Locks!TypeOK
      [] about = "durable" -> Durable!TypeOK
      [] about = "replay" -> Replay!TypeOK
      [] about = "copies" -> Copies!TypeOK
      [] about = "restores" -> Restores!TypeOK
      [] about = "heads" -> Heads!TypeOK
      [] about = "quota" -> Spool!TypeOK
      [] about = "store" -> Store!TypeOK
      [] about = "full" -> Full!TypeOK

(* A process that has a directory open works under its current identity    *)
(* and finds it finished or not yet built, whatever recovery died half way.*)
OpenIsSound == about = "locks" => Locks!OpenIsCurrent /\ Locks!OpenIsComplete

(* While a process moves, rebuilds or copies a directory no other has it   *)
(* open, and one service owns a node, also across the hand-over from       *)
(* maintenance to service (exclusive, activate).                           *)
ReplacementIsAlone == about = "locks" => Locks!ReplacementIsAlone /\ Locks!OneService

(* No two processes wait for each other's locks (begin_maintenance,        *)
(* acquire, activate).                                                     *)
NoWaitCycle == about = "locks" => Locks!NoWaitCycle

(* Nothing that was written is overwritten or taken over by the next       *)
(* command: not an abandoned recovery's directory, not work that 0.2       *)
(* queued after an upgrade, not the remains of an interrupted copy.        *)
NothingOverwritten ==
    [][/\ about = "locks" => Locks!KeepsAbandoned
       /\ about = "durable" => Durable!HoldsNoNewWork
       /\ about = "copies" => Copies!LeavesIncomplete
       /\ about = "restores" => Restores!LeavesIncomplete]_vars

(* What 0.1 left is bundled before it is changed or moved away, and its    *)
(* unfinished work is held until an operator retries it, whatever was      *)
(* interrupted (upgrade, migrate_database, require_replay_upgrade).        *)
LegacyIsKept ==
    /\ about = "durable" => Durable!BundleIsOriginal /\ Durable!LegacyIsHeld
    /\ about = "replay" => Replay!LegacyIsBundled

(* An archive that looks complete and a directory restored from one have   *)
(* the right bytes of every publication, and a restored coordinator keeps  *)
(* every allocation that its snapshot had not seen released fenced and     *)
(* charged, below its own epoch (verify_publications, copy_verified,       *)
(* restore, the manifest and the mark INCOMPLETE).                         *)
CopiesAreSound ==
    /\ about = "copies" => Copies!SnapshotIsWhole /\ Copies!RestoredIsWhole
    /\ about = "restores" => Restores!RestoredIsFenced

(* A head selects a committed publication whose descriptor is on disk for  *)
(* good and whose artifacts are sealed, and the one publication whose fate *)
(* is unknown is the newest, so that reconciling it cannot rewind a head;  *)
(* a name under blobs/ holds what it names, and what the coordinator's     *)
(* database says is published is on disk under a durable name, though the  *)
(* proof was made outside of the state mutex (commit, reconcile, publish,  *)
(* dispatch).  No crash, power loss or failed write changes that.          *)
RecordedIsDurable ==
    /\ about = "heads" => Heads!HeadIsDurable /\ Heads!OneUndecided
    /\ about = "store" => Store!StoredAsNamed /\ Store!RecordedIsStored /\ Store!ProofsHold

(* What is on disk is charged, and never more than the quota, for the      *)
(* spool and for the store, across interrupted seals, failed writes,       *)
(* shared content, aborts and crashes (reserve, finish, begin).            *)
DiskIsCharged ==
    /\ about = "heads" => Heads!DiskIsCharged
    /\ about = "quota" => Spool!DiskIsCharged /\ Spool!DiskWithinQuota
    /\ about = "store" => Store!StoreWithinQuota
    /\ about = "full" => Full!StoreWithinQuota

(* Heads only move to later sequences, the result head never again; bytes  *)
(* that were answered or hashed keep their value (chunk, finish); no blob  *)
(* is replaced; and only a current attempt gets a publication or a result  *)
(* recorded, though it was authorized before the hashing (dispatch).       *)
PublishedIsKept ==
    [][/\ about = "heads" => Heads!AdvancesHeads /\ Heads!KeepsAnswered
       /\ about = "store" => Store!KeepsBlobs /\ Store!RecordsCurrent]_vars
=============================================================================
