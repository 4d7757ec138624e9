--------------------------- MODULE NamespaceProofs ---------------------------
(***************************************************************************)
(* Proofs about Namespace, for any number of processes, identities and     *)
(* crashes.                                                                *)
(***************************************************************************)
EXTENDS Namespace, TLAPS

(* The steps a role passes through.                                        *)
Acquiring == {"admission", "peek", "reopen", "initial", "lifecycle", "verify", "open"}
StepsOf(r) ==
    CASE r = "agent" -> {"idle", "owner"} \cup Acquiring
      [] r = "offline" -> {"idle", "mowner", "madmission", "exclusive", "offline"}
      [] r = "replay" -> {"idle", "mowner", "madmission", "open"} \cup Recovering
      [] OTHER -> {"idle"} \cup Acquiring

(* The locks a process has at a step.                                      *)
OwnsNode(p) ==
    \/ role[p] = "agent" /\ pc[p] \notin {"idle", "owner"}
    \/ role[p] \in {"offline", "replay"} /\ pc[p] \notin {"idle", "mowner"}
AdmissionAt(p) ==
    /\ pc[p] \in {"initial", "offline"} \cup Recovering => held["admission"][p] = "exclusive"
    /\ pc[p] = "peek" => held["admission"][p] = "shared"
    /\ pc[p] \in {"lifecycle", "verify"} => held["admission"][p] # "none"
    /\ pc[p] \in {"idle", "owner", "admission", "reopen", "mowner", "madmission", "open"}
          => held["admission"][p] = "none"
Replacing == {"offline", "quarantine", "session", "build", "import", "await", "heartbeat",
              "activate", "drop"}
LifecycleOf(step) ==
    IF step \in Replacing THEN "exclusive"
    ELSE IF step \in {"verify", "open", "confirm"} THEN "shared" ELSE "none"
LocksAt(p) ==
    /\ pc[p] \in StepsOf(role[p])
    /\ held["owner"][p] = IF OwnsNode(p) THEN "exclusive" ELSE "none"
    /\ AdmissionAt(p)
    /\ held["lifecycle"][p] = LifecycleOf(pc[p])
Exclusion ==
    \A l \in Locks : \A p, q \in Procs :
        p # q /\ held[l][p] = "exclusive" => held[l][q] = "none"

(* What is on disk.                                                        *)
SoundDir == dir = Absent \/ (dir.complete /\ dir.id = meta.id)
MetaNamed ==
    /\ meta = NoMeta \/ (meta.phase # "missing" /\ meta.id \in Idents)
    /\ dir = Absent \/ dir.id \in Idents
ReadyIsSound ==
    /\ meta.phase = "ready" => SoundDir
    /\ meta = NoMeta => dir = Absent
OpenAt(p) == pc[p] = "open" => meta # NoMeta /\ ident[p] = meta.id /\ SoundDir

(* What a recovery has done at a step.                                     *)
StageAt(p) ==
    /\ pc[p] \in {"fence", "quarantine", "session"} \/ (pc[p] = "exclusive" /\ role[p] = "replay")
          => meta.phase = "fencing"
    /\ pc[p] \in {"build", "import", "await"} => meta.phase = "initializing" /\ ident[p] = meta.id
    /\ pc[p] \in {"heartbeat", "activate"} => meta.phase = "awaiting_readiness"
    /\ pc[p] \in {"session", "build"} => dir = Absent
    /\ pc[p] \in {"import", "await", "heartbeat", "activate"} => dir.id = meta.id
    /\ pc[p] \in {"await", "heartbeat", "activate"} => dir.complete

NamespaceInvariant ==
    /\ TypeOK
    /\ \A p \in Procs : LocksAt(p)
    /\ Exclusion
    /\ MetaNamed /\ ReadyIsSound
    /\ \A p \in Procs : OpenAt(p) /\ StageAt(p)

-----------------------------------------------------------------------------
(* A step is of one process, and takes a lock only when it may.            *)
Alone(p) ==
    /\ role' = role
    /\ \A q \in Procs \ {p} :
          /\ pc'[q] = pc[q] /\ ident'[q] = ident[q]
          /\ \A l \in Locks : held'[l][q] = held[l][q]
Takes(p, l) ==
    \/ held'[l][p] \in {held[l][p], "none"}
    \/ held'[l][p] \in {"shared", "exclusive"} /\ CanLock(p, l, held'[l][p])
ProcTypes ==
    /\ held \in [Locks -> [Procs -> Modes]]
    /\ pc \in [Procs -> Steps]
    /\ role \in [Procs -> Roles]
    /\ ident \in [Procs -> Idents \cup {NoIdent}]
    /\ expects \in [Procs -> Idents \cup {NoIdent}]
DiskTypes ==
    /\ anchor \in BOOLEAN
    /\ meta \in [phase : Phases, id : Idents \cup {NoIdent}, op : Idents \cup {NoIdent}]
    /\ history \subseteq Idents
    /\ dir \in [id : Idents \cup {NoIdent}, complete : BOOLEAN]
    /\ quarantine \subseteq Idents
    /\ session \in Idents \cup {NoIdent}
    /\ minted \in 0..MaxIdents
    /\ crashes \in 0..MaxCrashes

LEMMA TypeParts == TypeOK <=> ProcTypes /\ DiskTypes
BY DEF TypeOK, ProcTypes, DiskTypes

\* The locks of a step, whatever process takes it, stay exclusive.
LEMMA ExclusionKept ==
    ASSUME NamespaceInvariant, NEW p \in Procs, Alone(p), \A l \in Locks : Takes(p, l)
    PROVE  Exclusion'
<1>1. \A l \in Locks : \A q \in Procs \ {p} : held'[l][q] = held[l][q]
  BY DEF Alone
<1>2. SUFFICES ASSUME NEW l \in Locks, NEW q \in Procs, NEW r \in Procs,
                      q # r, held'[l][q] = "exclusive"
               PROVE  held'[l][r] = "none"
  BY DEF Exclusion
<1>3. /\ held[l][q] = "exclusive" => held[l][r] = "none"
      /\ held[l][r] = "exclusive" => held[l][q] = "none"
      /\ held[l][r] \in Modes /\ held[l][q] \in Modes
  BY <1>2 DEF NamespaceInvariant, Exclusion, TypeOK
<1>4. Takes(p, l)
  OBVIOUS
<1>5. CASE q = p
  BY <1>1, <1>2, <1>3, <1>4, <1>5 DEF Takes, CanLock, Modes
<1>6. CASE r = p
  BY <1>1, <1>2, <1>3, <1>4, <1>6 DEF Takes, CanLock, Modes
<1>7. CASE q # p /\ r # p
  BY <1>1, <1>2, <1>3, <1>7
<1> QED
  BY <1>5, <1>6, <1>7

\* The lock invariant follows from what the step does to its own process.
LEMMA LocksKept ==
    ASSUME NamespaceInvariant, NEW p \in Procs, Alone(p), LocksAt(p)'
    PROVE  \A q \in Procs : LocksAt(q)'
<1>1. SUFFICES ASSUME NEW q \in Procs, q # p PROVE LocksAt(q)'
  OBVIOUS
<1>2. LocksAt(q)
  BY DEF NamespaceInvariant
<1>3. /\ pc'[q] = pc[q] /\ role' = role
      /\ \A l \in {"owner", "admission", "lifecycle"} : held'[l][q] = held[l][q]
  BY <1>1 DEF Alone, Locks
<1> QED
  BY <1>2, <1>3 DEF LocksAt, OwnsNode, AdmissionAt

\* flock and its release.
LEMMA LockEffect ==
    ASSUME TypeOK, NEW p \in Procs, NEW l \in Locks, NEW mode \in {"shared", "exclusive"},
           Lock(p, l, mode)
    PROVE  /\ held' \in [Locks -> [Procs -> Modes]]
           /\ held'[l][p] = mode
           /\ \A k \in Locks \ {l} : held'[k][p] = held[k][p]
           /\ \A k \in Locks : \A q \in Procs \ {p} : held'[k][q] = held[k][q]
           /\ \A k \in Locks : Takes(p, k)
<1>1. held' = [held EXCEPT ![l][p] = mode] /\ CanLock(p, l, mode)
  BY DEF Lock
<1>2. held \in [Locks -> [Procs -> Modes]] /\ mode \in Modes
  BY DEF TypeOK, Modes
<1>3. /\ held' \in [Locks -> [Procs -> Modes]]
      /\ held'[l][p] = mode
      /\ \A k \in Locks \ {l} : held'[k][p] = held[k][p]
      /\ \A k \in Locks : \A q \in Procs \ {p} : held'[k][q] = held[k][q]
  BY <1>1, <1>2
<1> QED
  BY <1>1, <1>3 DEF Takes

LEMMA UnlockEffect ==
    ASSUME TypeOK, NEW p \in Procs, NEW l \in Locks, held' = Unlocked(p, l)
    PROVE  /\ held' \in [Locks -> [Procs -> Modes]]
           /\ held'[l][p] = "none"
           /\ \A k \in Locks \ {l} : held'[k][p] = held[k][p]
           /\ \A k \in Locks : \A q \in Procs \ {p} : held'[k][q] = held[k][q]
           /\ \A k \in Locks : Takes(p, k)
<1>1. held \in [Locks -> [Procs -> Modes]] /\ "none" \in Modes
  BY DEF TypeOK, Modes
<1>2. /\ held' \in [Locks -> [Procs -> Modes]]
      /\ held'[l][p] = "none"
      /\ \A k \in Locks \ {l} : held'[k][p] = held[k][p]
      /\ \A k \in Locks : \A q \in Procs \ {p} : held'[k][q] = held[k][q]
  BY <1>1 DEF Unlocked
<1> QED
  BY <1>2 DEF Takes

LEMMA SameLocks ==
    ASSUME held' = held, NEW p \in Procs
    PROVE  \A k \in Locks : Takes(p, k)
BY DEF Takes

\* Whoever leaves has no lock and is idle.
LEMMA LeaveEffect ==
    ASSUME NamespaceInvariant, NEW p \in Procs, Leave(p)
    PROVE  /\ ProcTypes' /\ Alone(p) /\ LocksAt(p)' /\ (OpenAt(p) /\ StageAt(p))'
           /\ \A l \in Locks : Takes(p, l)
<1>1. ProcTypes
  BY TypeParts DEF NamespaceInvariant
<1>2. /\ held' = [l \in Locks |-> [held[l] EXCEPT ![p] = "none"]]
      /\ pc' = [pc EXCEPT ![p] = "idle"] /\ ident' = [ident EXCEPT ![p] = NoIdent]
      /\ expects' = [expects EXCEPT ![p] = NoIdent] /\ role' = role
  BY DEF Leave, NoLocks
<1>3. /\ held' \in [Locks -> [Procs -> Modes]]
      /\ \A l \in Locks : held'[l][p] = "none"
      /\ \A l \in Locks : \A q \in Procs \ {p} : held'[l][q] = held[l][q]
  BY <1>1, <1>2 DEF ProcTypes, Modes
<1>4. pc'[p] = "idle"
  BY <1>1, <1>2 DEF ProcTypes
<1>5. ProcTypes'
  BY <1>1, <1>2, <1>3 DEF ProcTypes, Steps
<1>6. Alone(p)
  BY <1>1, <1>2, <1>3 DEF Alone, ProcTypes
<1>7. LocksAt(p)'
  BY <1>3, <1>4 DEF LocksAt, StepsOf, OwnsNode, AdmissionAt, LifecycleOf, Replacing, Locks,
                    Recovering, Acquiring
<1>8. (OpenAt(p) /\ StageAt(p))'
  BY <1>4 DEF OpenAt, StageAt
<1> QED
  BY <1>3, <1>5, <1>6, <1>7, <1>8 DEF Takes

\* A process moves on to another step.
LEMMA Moved ==
    ASSUME NamespaceInvariant, NEW p \in Procs, NEW step \in Steps, Goto(p, step),
           UNCHANGED <<role, expects>>,
           ident' = ident \/ \E i \in Idents \cup {NoIdent} : ident' = [ident EXCEPT ![p] = i],
           held' \in [Locks -> [Procs -> Modes]],
           \A l \in Locks : \A q \in Procs \ {p} : held'[l][q] = held[l][q]
    PROVE  ProcTypes' /\ Alone(p) /\ pc'[p] = step
<1>1. ProcTypes
  BY TypeParts DEF NamespaceInvariant
<1>2. pc' = [pc EXCEPT ![p] = step]
  BY DEF Goto
<1>3. pc' \in [Procs -> Steps] /\ pc'[p] = step /\ \A q \in Procs \ {p} : pc'[q] = pc[q]
  BY <1>1, <1>2 DEF ProcTypes
<1>4. ident' \in [Procs -> Idents \cup {NoIdent}] /\ \A q \in Procs \ {p} : ident'[q] = ident[q]
  BY <1>1 DEF ProcTypes
<1>5. ProcTypes'
  BY <1>1, <1>3, <1>4 DEF ProcTypes
<1> QED
  BY <1>3, <1>4, <1>5 DEF Alone

\* A step that may write to disk keeps the invariant when it keeps what the
\* invariant says about the disk.
LEMMA AnyStep ==
    ASSUME NamespaceInvariant, NEW p \in Procs,
           ProcTypes', DiskTypes', Alone(p), \A l \in Locks : Takes(p, l), LocksAt(p)',
           MetaNamed', ReadyIsSound', \A q \in Procs : (OpenAt(q) /\ StageAt(q))'
    PROVE  NamespaceInvariant'
<1>1. TypeOK'
  BY DEF TypeOK, ProcTypes, DiskTypes
<1>2. Exclusion'
  BY ExclusionKept
<1>3. \A q \in Procs : LocksAt(q)'
  BY LocksKept
<1> QED
  BY <1>1, <1>2, <1>3 DEF NamespaceInvariant

\* A step that writes nothing to disk.
LEMMA LocalStep ==
    ASSUME NamespaceInvariant, NEW p \in Procs,
           ProcTypes', Alone(p), \A l \in Locks : Takes(p, l), LocksAt(p)',
           (OpenAt(p) /\ StageAt(p))', UNCHANGED <<durable, minted>>,
           session' \in {session, meta.op}, crashes' \in 0..MaxCrashes
    PROVE  NamespaceInvariant'
<1>1. DiskTypes /\ MetaNamed /\ ReadyIsSound
  BY TypeParts DEF NamespaceInvariant
<1>2. UNCHANGED <<anchor, meta, history, dir, quarantine, minted>>
  BY DEF durable
<1>3. DiskTypes'
  BY <1>1, <1>2 DEF DiskTypes
<1>4. MetaNamed' /\ ReadyIsSound'
  BY <1>1, <1>2 DEF MetaNamed, ReadyIsSound, SoundDir
<1>5. \A q \in Procs : (OpenAt(q) /\ StageAt(q))'
  <2>1. SUFFICES ASSUME NEW q \in Procs, q # p PROVE (OpenAt(q) /\ StageAt(q))'
    OBVIOUS
  <2>2. OpenAt(q) /\ StageAt(q)
    BY DEF NamespaceInvariant
  <2>3. pc'[q] = pc[q] /\ ident'[q] = ident[q] /\ role' = role
    BY <2>1 DEF Alone
  <2>4. OpenAt(q)'
    BY <1>2, <2>2, <2>3 DEF OpenAt, SoundDir
  <2> QED
    BY <1>2, <2>2, <2>3, <2>4 DEF StageAt
<1> QED
  BY <1>3, <1>4, <1>5, AnyStep

-----------------------------------------------------------------------------
(* Steps that write nothing to disk.                                       *)
LEMMA Facts ==
    ASSUME NamespaceInvariant, NEW p \in Procs
    PROVE  /\ TypeOK /\ ProcTypes /\ DiskTypes /\ LocksAt(p) /\ OpenAt(p) /\ StageAt(p)
           /\ held["owner"][p] \in Modes /\ held["admission"][p] \in Modes
           /\ held["lifecycle"][p] \in Modes /\ role[p] \in Roles /\ crashes \in 0..MaxCrashes
BY TypeParts DEF NamespaceInvariant, ProcTypes, DiskTypes, Locks

\* Namespace::owner.
LEMMA OwnerStep ==
    ASSUME NamespaceInvariant, NamespaceAssumption, NEW p \in Procs, Owner(p)
    PROVE  NamespaceInvariant'
<1>1. PICK step \in {"admission"} :
        /\ LocksAt(p) /\ OpenAt(p) /\ StageAt(p)
        /\ pc[p] = "owner"
        /\ Lock(p, "owner", "exclusive") /\ Goto(p, step)
        /\ UNCHANGED <<durable, role, ident, expects, session, minted, crashes>>
  BY Facts DEF Owner
<1>2. /\ held' \in [Locks -> [Procs -> Modes]]
      /\ held'["owner"][p] = "exclusive"
      /\ \A k \in Locks \ {"owner"} : held'[k][p] = held[k][p]
      /\ \A k \in Locks : \A q \in Procs \ {p} : held'[k][q] = held[k][q]
      /\ \A k \in Locks : Takes(p, k)
  BY <1>1, Facts, LockEffect, "owner" \in Locks DEF Locks
<1>3. ProcTypes' /\ Alone(p) /\ pc'[p] = step
  BY <1>1, <1>2, Moved DEF Steps, Waiting, Recovering
<1>4. LocksAt(p)'
  BY <1>1, <1>2, <1>3, Facts DEF LocksAt, StepsOf, OwnsNode, AdmissionAt, LifecycleOf,
     Replacing, Locks,
     Recovering, Acquiring, NamespaceAssumption, AllRoles
<1>5. (OpenAt(p) /\ StageAt(p))'
  BY <1>1, <1>3 DEF OpenAt, StageAt, durable
<1> QED
  BY <1>1, <1>2, <1>3, <1>4, <1>5, LocalStep, Facts

\* Namespace::acquire, admission.
LEMMA AcquireAdmissionStep ==
    ASSUME NamespaceInvariant, NamespaceAssumption, NEW p \in Procs, AcquireAdmission(p)
    PROVE  NamespaceInvariant'
<1>1. PICK step \in {"peek"} :
        /\ LocksAt(p) /\ OpenAt(p) /\ StageAt(p)
        /\ pc[p] = "admission"
        /\ Lock(p, "admission", "shared") /\ Goto(p, step)
        /\ UNCHANGED <<durable, role, ident, expects, session, minted, crashes>>
  BY Facts DEF AcquireAdmission
<1>2. /\ held' \in [Locks -> [Procs -> Modes]]
      /\ held'["admission"][p] = "shared"
      /\ \A k \in Locks \ {"admission"} : held'[k][p] = held[k][p]
      /\ \A k \in Locks : \A q \in Procs \ {p} : held'[k][q] = held[k][q]
      /\ \A k \in Locks : Takes(p, k)
  BY <1>1, Facts, LockEffect, "admission" \in Locks DEF Locks
<1>3. ProcTypes' /\ Alone(p) /\ pc'[p] = step
  BY <1>1, <1>2, Moved DEF Steps, Waiting, Recovering
<1>4. LocksAt(p)'
  BY <1>1, <1>2, <1>3, Facts DEF LocksAt, StepsOf, OwnsNode, AdmissionAt, LifecycleOf,
     Replacing, Locks,
     Recovering, Acquiring, NamespaceAssumption, AllRoles
<1>5. (OpenAt(p) /\ StageAt(p))'
  BY <1>1, <1>3 DEF OpenAt, StageAt, durable
<1> QED
  BY <1>1, <1>2, <1>3, <1>4, <1>5, LocalStep, Facts

\* Namespace::acquire without metadata.
LEMMA ReopenAdmissionStep ==
    ASSUME NamespaceInvariant, NamespaceAssumption, NEW p \in Procs, ReopenAdmission(p)
    PROVE  NamespaceInvariant'
<1>1. PICK step \in {"initial"} :
        /\ LocksAt(p) /\ OpenAt(p) /\ StageAt(p)
        /\ pc[p] = "reopen"
        /\ Lock(p, "admission", "exclusive") /\ Goto(p, step)
        /\ UNCHANGED <<durable, role, ident, expects, session, minted, crashes>>
  BY Facts DEF ReopenAdmission
<1>2. /\ held' \in [Locks -> [Procs -> Modes]]
      /\ held'["admission"][p] = "exclusive"
      /\ \A k \in Locks \ {"admission"} : held'[k][p] = held[k][p]
      /\ \A k \in Locks : \A q \in Procs \ {p} : held'[k][q] = held[k][q]
      /\ \A k \in Locks : Takes(p, k)
  BY <1>1, Facts, LockEffect, "admission" \in Locks DEF Locks
<1>3. ProcTypes' /\ Alone(p) /\ pc'[p] = step
  BY <1>1, <1>2, Moved DEF Steps, Waiting, Recovering
<1>4. LocksAt(p)'
  BY <1>1, <1>2, <1>3, Facts DEF LocksAt, StepsOf, OwnsNode, AdmissionAt, LifecycleOf,
     Replacing, Locks,
     Recovering, Acquiring, NamespaceAssumption, AllRoles
<1>5. (OpenAt(p) /\ StageAt(p))'
  BY <1>1, <1>3 DEF OpenAt, StageAt, durable
<1> QED
  BY <1>1, <1>2, <1>3, <1>4, <1>5, LocalStep, Facts

\* Namespace::acquire, lifecycle.
LEMMA AcquireLifecycleStep ==
    ASSUME NamespaceInvariant, NamespaceAssumption, NEW p \in Procs, AcquireLifecycle(p)
    PROVE  NamespaceInvariant'
<1>1. PICK step \in {"verify"} :
        /\ LocksAt(p) /\ OpenAt(p) /\ StageAt(p)
        /\ pc[p] = "lifecycle"
        /\ Lock(p, "lifecycle", "shared") /\ Goto(p, step)
        /\ UNCHANGED <<durable, role, ident, expects, session, minted, crashes>>
  BY Facts DEF AcquireLifecycle
<1>2. /\ held' \in [Locks -> [Procs -> Modes]]
      /\ held'["lifecycle"][p] = "shared"
      /\ \A k \in Locks \ {"lifecycle"} : held'[k][p] = held[k][p]
      /\ \A k \in Locks : \A q \in Procs \ {p} : held'[k][q] = held[k][q]
      /\ \A k \in Locks : Takes(p, k)
  BY <1>1, Facts, LockEffect, "lifecycle" \in Locks DEF Locks
<1>3. ProcTypes' /\ Alone(p) /\ pc'[p] = step
  BY <1>1, <1>2, Moved DEF Steps, Waiting, Recovering
<1>4. LocksAt(p)'
  BY <1>1, <1>2, <1>3, Facts DEF LocksAt, StepsOf, OwnsNode, AdmissionAt, LifecycleOf,
     Replacing, Locks,
     Recovering, Acquiring, NamespaceAssumption, AllRoles
<1>5. (OpenAt(p) /\ StageAt(p))'
  BY <1>1, <1>3 DEF OpenAt, StageAt, durable
<1> QED
  BY <1>1, <1>2, <1>3, <1>4, <1>5, LocalStep, Facts

LEMMA BeginMaintenanceStep ==
    ASSUME NamespaceInvariant, NamespaceAssumption, NEW p \in Procs, BeginMaintenance(p)
    PROVE  NamespaceInvariant'
<1>1. CASE pc[p] = "mowner"
  <2>1. PICK step \in {"madmission"} :
          /\ LocksAt(p) /\ OpenAt(p) /\ StageAt(p)
          /\ pc[p] = "mowner"
          /\ Lock(p, "owner", "exclusive") /\ Goto(p, step)
          /\ UNCHANGED <<durable, role, ident, expects, session, minted, crashes>>
    BY <1>1, Facts DEF BeginMaintenance
  <2>2. /\ held' \in [Locks -> [Procs -> Modes]]
        /\ held'["owner"][p] = "exclusive"
        /\ \A k \in Locks \ {"owner"} : held'[k][p] = held[k][p]
        /\ \A k \in Locks : \A q \in Procs \ {p} : held'[k][q] = held[k][q]
        /\ \A k \in Locks : Takes(p, k)
    BY <2>1, Facts, LockEffect, "owner" \in Locks DEF Locks
  <2>3. ProcTypes' /\ Alone(p) /\ pc'[p] = step
    BY <2>1, <2>2, Moved DEF Steps, Waiting, Recovering
  <2>4. LocksAt(p)'
    BY <2>1, <2>2, <2>3, Facts DEF LocksAt, StepsOf, OwnsNode, AdmissionAt, LifecycleOf,
       Replacing, Locks,
     Recovering, Acquiring, NamespaceAssumption, AllRoles
  <2>5. (OpenAt(p) /\ StageAt(p))'
    BY <2>1, <2>3 DEF OpenAt, StageAt, durable
  <2> QED
    BY <2>1, <2>2, <2>3, <2>4, <2>5, LocalStep, Facts
<1>2. CASE pc[p] = "madmission"
  <2>1. PICK step \in {"intent", "exclusive"} :
          /\ LocksAt(p) /\ OpenAt(p) /\ StageAt(p)
          /\ pc[p] = "madmission" /\ step = IF role[p] = "replay" THEN "intent" ELSE "exclusive"
          /\ Lock(p, "admission", "exclusive") /\ Goto(p, step)
          /\ UNCHANGED <<durable, role, ident, expects, session, minted, crashes>>
    BY <1>2, Facts DEF BeginMaintenance
  <2>2. /\ held' \in [Locks -> [Procs -> Modes]]
        /\ held'["admission"][p] = "exclusive"
        /\ \A k \in Locks \ {"admission"} : held'[k][p] = held[k][p]
        /\ \A k \in Locks : \A q \in Procs \ {p} : held'[k][q] = held[k][q]
        /\ \A k \in Locks : Takes(p, k)
    BY <2>1, Facts, LockEffect, "admission" \in Locks DEF Locks
  <2>3. ProcTypes' /\ Alone(p) /\ pc'[p] = step
    BY <2>1, <2>2, Moved DEF Steps, Waiting, Recovering
  <2>4. LocksAt(p)'
    BY <2>1, <2>2, <2>3, Facts DEF LocksAt, StepsOf, OwnsNode, AdmissionAt, LifecycleOf,
       Replacing, Locks,
     Recovering, Acquiring, NamespaceAssumption, AllRoles
  <2>5. (OpenAt(p) /\ StageAt(p))'
    BY <2>1, <2>3 DEF OpenAt, StageAt, durable
  <2> QED
    BY <2>1, <2>2, <2>3, <2>4, <2>5, LocalStep, Facts
<1> QED
  BY <1>1, <1>2 DEF BeginMaintenance

LEMMA PeekStep ==
    ASSUME NamespaceInvariant, NamespaceAssumption, NEW p \in Procs, Peek(p)
    PROVE  NamespaceInvariant'
<1>1. CASE meta = NoMeta
  <2>1. /\ LocksAt(p) /\ OpenAt(p) /\ StageAt(p)
        /\ pc[p] = "peek"
        /\ held' = Unlocked(p, "admission") /\ Goto(p, "reopen") /\ ident' = ident
        /\ UNCHANGED <<durable, role, expects, session, minted, crashes>>
    BY <1>1, Facts DEF Peek
  <2>2. /\ held' \in [Locks -> [Procs -> Modes]]
        /\ held'["admission"][p] = "none"
        /\ \A k \in Locks \ {"admission"} : held'[k][p] = held[k][p]
        /\ \A k \in Locks : \A q \in Procs \ {p} : held'[k][q] = held[k][q]
        /\ \A k \in Locks : Takes(p, k)
    BY <2>1, Facts, UnlockEffect, "admission" \in Locks DEF Locks
  <2>3. ProcTypes' /\ Alone(p) /\ pc'[p] = "reopen"
    BY <2>1, <2>2, Facts, Moved DEF Steps, Waiting, Recovering, DiskTypes
  <2>4. LocksAt(p)'
    BY <2>1, <2>2, <2>3, Facts DEF LocksAt, StepsOf, OwnsNode, AdmissionAt, LifecycleOf,
       Replacing, Locks,
     Recovering, Acquiring, NamespaceAssumption, AllRoles
  <2>5. (OpenAt(p) /\ StageAt(p))'
    BY <2>1, <2>3 DEF OpenAt, StageAt
  <2> QED
    BY <2>1, <2>2, <2>3, <2>4, <2>5, LocalStep, Facts
<1>2. CASE meta # NoMeta
  <2>1. /\ LocksAt(p) /\ pc[p] = "peek" /\ held' = held /\ Goto(p, "lifecycle")
        /\ UNCHANGED <<durable, role, ident, expects, session, minted, crashes>>
    BY <1>2, Facts DEF Peek
  <2>2. held' \in [Locks -> [Procs -> Modes]]
    BY <2>1, Facts DEF ProcTypes
  <2>3. ProcTypes' /\ Alone(p) /\ pc'[p] = "lifecycle"
    BY <2>1, <2>2, Moved DEF Steps, Waiting
  <2>4. LocksAt(p)'
    BY <2>1, <2>3, Facts DEF LocksAt, StepsOf, OwnsNode, AdmissionAt, LifecycleOf, Replacing,
       Locks,
     Recovering, Acquiring, NamespaceAssumption, AllRoles
  <2>5. (OpenAt(p) /\ StageAt(p))'
    BY <2>1, <2>3 DEF OpenAt, StageAt
  <2> QED
    BY <2>1, <2>2, <2>3, <2>4, <2>5, LocalStep, Facts, SameLocks
<1> QED
  BY <1>1, <1>2

\* The identity a guard is given is the one that is current.
LEMMA VerifyStep ==
    ASSUME NamespaceInvariant, NamespaceAssumption, NEW p \in Procs, Verify(p)
    PROVE  NamespaceInvariant'
<1>1. /\ LocksAt(p) /\ OpenAt(p) /\ StageAt(p)
      /\ pc[p] = "verify" /\ Admits(p)
      /\ held' = Unlocked(p, "admission") /\ Goto(p, "open") /\ ident' = [ident EXCEPT ![p] = meta.id]
      /\ UNCHANGED <<durable, role, expects, session, minted, crashes>>
  BY Facts DEF Verify
<1>2. /\ held' \in [Locks -> [Procs -> Modes]]
      /\ held'["admission"][p] = "none"
      /\ \A k \in Locks \ {"admission"} : held'[k][p] = held[k][p]
      /\ \A k \in Locks : \A q \in Procs \ {p} : held'[k][q] = held[k][q]
      /\ \A k \in Locks : Takes(p, k)
  BY <1>1, Facts, UnlockEffect, "admission" \in Locks DEF Locks
<1>3. ProcTypes' /\ Alone(p) /\ pc'[p] = "open"
  BY <1>1, <1>2, Facts, Moved DEF Steps, Waiting, Recovering, DiskTypes
<1>4. LocksAt(p)'
  BY <1>1, <1>2, <1>3, Facts DEF LocksAt, StepsOf, OwnsNode, AdmissionAt, LifecycleOf,
     Replacing, Locks,
   Recovering, Acquiring, NamespaceAssumption, AllRoles
<1>5. meta # NoMeta /\ SoundDir
  BY <1>1 DEF Admits, NoMeta, NamespaceInvariant, ReadyIsSound
<1>6. ident'[p] = meta.id
  BY <1>1, Facts DEF ProcTypes
<1>7. (OpenAt(p) /\ StageAt(p))'
  BY <1>1, <1>3, <1>5, <1>6 DEF OpenAt, StageAt, SoundDir, durable
<1> QED
  BY <1>1, <1>2, <1>3, <1>4, <1>7, LocalStep, Facts

\* Refusal, close, timeout and death.
LEMMA LeaveStep ==
    ASSUME NamespaceInvariant, NamespaceAssumption, NEW p \in Procs,
           Refused(p) \/ Close(p) \/ Timeout(p) \/ Crash(p)
    PROVE  NamespaceInvariant'
<1>1. Leave(p) /\ UNCHANGED <<durable, session, minted>> /\ crashes' \in 0..MaxCrashes
  <2>1. Leave(p) /\ (crashes' = crashes \/ (crashes < MaxCrashes /\ crashes' = crashes + 1))
    BY DEF Refused, Close, Timeout, Crash
  <2>2. crashes \in 0..MaxCrashes
    BY Facts
  <2> QED
    BY <2>1, <2>2 DEF Leave, NamespaceAssumption
<1> QED
  BY <1>1, LeaveEffect, LocalStep

\* The fencing RPC.
LEMMA OpenReplaySessionStep ==
    ASSUME NamespaceInvariant, NamespaceAssumption, NEW p \in Procs, OpenReplaySession(p)
    PROVE  NamespaceInvariant'
<1>1. /\ LocksAt(p) /\ OpenAt(p) /\ StageAt(p)
      /\ pc[p] = "fence" /\ held' = held /\ Goto(p, "exclusive")
      /\ session' \in {session, meta.op}
      /\ UNCHANGED <<durable, role, ident, expects, minted, crashes>>
  BY Facts DEF OpenReplaySession
<1>2. held' \in [Locks -> [Procs -> Modes]]
  BY <1>1, Facts DEF ProcTypes
<1>3. ProcTypes' /\ Alone(p) /\ pc'[p] = "exclusive"
  BY <1>1, <1>2, Moved DEF Steps, Waiting, Recovering
<1>4. LocksAt(p)'
  BY <1>1, <1>3, Facts DEF LocksAt, StepsOf, OwnsNode, AdmissionAt, LifecycleOf, Replacing,
     Locks,
     Recovering, Acquiring, NamespaceAssumption, AllRoles
<1>5. (OpenAt(p) /\ StageAt(p))'
  BY <1>1, <1>3, Facts DEF OpenAt, StageAt, durable, LocksAt, StepsOf, OwnsNode, AdmissionAt,
     LifecycleOf, Replacing, Locks,
     Recovering, Acquiring, NamespaceAssumption, AllRoles
<1> QED
  BY <1>1, <1>2, <1>3, <1>4, <1>5, LocalStep, Facts, SameLocks

\* The readiness RPC.
LEMMA HeartbeatStep ==
    ASSUME NamespaceInvariant, NamespaceAssumption, NEW p \in Procs, Heartbeat(p)
    PROVE  NamespaceInvariant'
<1>1. /\ LocksAt(p) /\ OpenAt(p) /\ StageAt(p)
      /\ pc[p] = "heartbeat" /\ held' = held /\ Goto(p, "activate")
      /\ session' \in {session, meta.op}
      /\ UNCHANGED <<durable, role, ident, expects, minted, crashes>>
  BY Facts DEF Heartbeat
<1>2. held' \in [Locks -> [Procs -> Modes]]
  BY <1>1, Facts DEF ProcTypes
<1>3. ProcTypes' /\ Alone(p) /\ pc'[p] = "activate"
  BY <1>1, <1>2, Moved DEF Steps, Waiting, Recovering
<1>4. LocksAt(p)'
  BY <1>1, <1>3, Facts DEF LocksAt, StepsOf, OwnsNode, AdmissionAt, LifecycleOf, Replacing,
     Locks,
     Recovering, Acquiring, NamespaceAssumption, AllRoles
<1>5. (OpenAt(p) /\ StageAt(p))'
  BY <1>1, <1>3, Facts DEF OpenAt, StageAt, durable, LocksAt, StepsOf, OwnsNode, AdmissionAt,
     LifecycleOf, Replacing, Locks,
     Recovering, Acquiring, NamespaceAssumption, AllRoles
<1> QED
  BY <1>1, <1>2, <1>3, <1>4, <1>5, LocalStep, Facts, SameLocks

\* Maintenance::activate after the phase is ready: the lifecycle lock is given
\* back, taken shared, and admission given back last.
LEMMA HandOverStep ==
    ASSUME NamespaceInvariant, NamespaceAssumption, NEW p \in Procs, Activate(p),
    pc[p] # "activate"
    PROVE  NamespaceInvariant'
<1>1. CASE pc[p] = "drop"
  <2>1. /\ LocksAt(p) /\ OpenAt(p) /\ StageAt(p)
        /\ pc[p] = "drop"
        /\ held' = Unlocked(p, "lifecycle") /\ Goto(p, "relock") /\ ident' = ident
        /\ UNCHANGED <<durable, role, expects, session, minted, crashes>>
    BY <1>1, Facts DEF Activate
  <2>2. /\ held' \in [Locks -> [Procs -> Modes]]
        /\ held'["lifecycle"][p] = "none"
        /\ \A k \in Locks \ {"lifecycle"} : held'[k][p] = held[k][p]
        /\ \A k \in Locks : \A q \in Procs \ {p} : held'[k][q] = held[k][q]
        /\ \A k \in Locks : Takes(p, k)
    BY <2>1, Facts, UnlockEffect, "lifecycle" \in Locks DEF Locks
  <2>3. ProcTypes' /\ Alone(p) /\ pc'[p] = "relock"
    BY <2>1, <2>2, Facts, Moved DEF Steps, Waiting, Recovering, DiskTypes
  <2>4. LocksAt(p)'
    BY <2>1, <2>2, <2>3, Facts DEF LocksAt, StepsOf, OwnsNode, AdmissionAt, LifecycleOf,
       Replacing, Locks,
     Recovering, Acquiring, NamespaceAssumption, AllRoles
  <2>5. (OpenAt(p) /\ StageAt(p))'
    BY <2>1, <2>3 DEF OpenAt, StageAt, LocksAt, StepsOf, Recovering, Acquiring
  <2> QED
    BY <2>1, <2>2, <2>3, <2>4, <2>5, LocalStep, Facts
<1>2. CASE pc[p] = "relock"
  <2>1. PICK step \in {"confirm"} :
          /\ LocksAt(p) /\ OpenAt(p) /\ StageAt(p)
          /\ pc[p] = "relock"
          /\ Lock(p, "lifecycle", "shared") /\ Goto(p, step)
          /\ UNCHANGED <<durable, role, ident, expects, session, minted, crashes>>
    BY <1>2, Facts DEF Activate
  <2>2. /\ held' \in [Locks -> [Procs -> Modes]]
        /\ held'["lifecycle"][p] = "shared"
        /\ \A k \in Locks \ {"lifecycle"} : held'[k][p] = held[k][p]
        /\ \A k \in Locks : \A q \in Procs \ {p} : held'[k][q] = held[k][q]
        /\ \A k \in Locks : Takes(p, k)
    BY <2>1, Facts, LockEffect, "lifecycle" \in Locks DEF Locks
  <2>3. ProcTypes' /\ Alone(p) /\ pc'[p] = step
    BY <2>1, <2>2, Moved DEF Steps, Waiting, Recovering
  <2>4. LocksAt(p)'
    BY <2>1, <2>2, <2>3, Facts DEF LocksAt, StepsOf, OwnsNode, AdmissionAt, LifecycleOf,
       Replacing, Locks,
     Recovering, Acquiring, NamespaceAssumption, AllRoles
  <2>5. (OpenAt(p) /\ StageAt(p))'
    BY <2>1, <2>3 DEF OpenAt, StageAt, durable
  <2> QED
    BY <2>1, <2>2, <2>3, <2>4, <2>5, LocalStep, Facts
<1>3. CASE pc[p] = "confirm"
  <2>1. /\ LocksAt(p) /\ OpenAt(p) /\ StageAt(p)
        /\ pc[p] = "confirm" /\ meta.phase = "ready" /\ meta.id = ident[p]
        /\ held' = Unlocked(p, "admission") /\ Goto(p, "open") /\ ident' = ident
        /\ UNCHANGED <<durable, role, expects, session, minted, crashes>>
    BY <1>3, Facts DEF Activate
  <2>2. /\ held' \in [Locks -> [Procs -> Modes]]
        /\ held'["admission"][p] = "none"
        /\ \A k \in Locks \ {"admission"} : held'[k][p] = held[k][p]
        /\ \A k \in Locks : \A q \in Procs \ {p} : held'[k][q] = held[k][q]
        /\ \A k \in Locks : Takes(p, k)
    BY <2>1, Facts, UnlockEffect, "admission" \in Locks DEF Locks
  <2>3. ProcTypes' /\ Alone(p) /\ pc'[p] = "open"
    BY <2>1, <2>2, Facts, Moved DEF Steps, Waiting, Recovering, DiskTypes
  <2>4. LocksAt(p)'
    BY <2>1, <2>2, <2>3, Facts DEF LocksAt, StepsOf, OwnsNode, AdmissionAt, LifecycleOf,
       Replacing, Locks,
     Recovering, Acquiring, NamespaceAssumption, AllRoles
  <2>5. meta # NoMeta /\ SoundDir
    BY <2>1 DEF NoMeta, NamespaceInvariant, ReadyIsSound
  <2>6. (OpenAt(p) /\ StageAt(p))'
    BY <2>1, <2>3, <2>5 DEF OpenAt, StageAt, SoundDir, durable
  <2> QED
    BY <2>1, <2>2, <2>3, <2>4, <2>6, LocalStep, Facts
<1> QED
  BY <1>1, <1>2, <1>3 DEF Activate

\* An agent starts a supervisor under its identity.
LEMMA LaunchStep ==
    ASSUME NamespaceInvariant, NamespaceAssumption, NEW p \in Procs, NEW q \in Procs,
    Launch(p, q)
    PROVE  NamespaceInvariant'
<1>1. /\ LocksAt(q) /\ pc[q] = "idle" /\ role[q] = "supervisor"
      /\ expects' = [expects EXCEPT ![q] = ident[p]] /\ Goto(q, "admission")
      /\ held' = held /\ ident' = ident
      /\ UNCHANGED <<durable, role, session, minted, crashes>>
  BY Facts DEF Launch
<1>2. pc' = [pc EXCEPT ![q] = "admission"] /\ "admission" \in Steps
  BY <1>1 DEF Goto, Steps, Waiting
<1>3. ProcTypes'
  BY <1>1, <1>2, Facts DEF ProcTypes
<1>4. Alone(q) /\ pc'[q] = "admission"
  BY <1>1, <1>2, Facts DEF ProcTypes, Alone
<1>5. LocksAt(q)'
  BY <1>1, <1>4, Facts DEF LocksAt, StepsOf, OwnsNode, AdmissionAt, LifecycleOf, Replacing,
     Locks,
     Recovering, Acquiring, NamespaceAssumption, AllRoles
<1>6. (OpenAt(q) /\ StageAt(q))'
  BY <1>4 DEF OpenAt, StageAt
<1> QED
  BY <1>1, <1>3, <1>4, <1>5, <1>6, LocalStep, Facts, SameLocks

-----------------------------------------------------------------------------
(* Steps that write to disk: who has admission exclusively is the only one  *)
(* to write metadata, who has lifecycle exclusively finds nobody inside.    *)
LEMMA NobodyBeside ==
    ASSUME NamespaceInvariant, NEW p \in Procs, NEW q \in Procs, p # q,
           pc[p] \in {"initial", "offline"} \cup Recovering
    PROVE  pc[q] \notin {"initial", "offline", "peek", "lifecycle", "verify"} \cup Recovering
<1>1. held["admission"][p] = "exclusive"
  BY DEF NamespaceInvariant, LocksAt, AdmissionAt
<1>2. held["admission"][q] = "none"
  BY <1>1 DEF NamespaceInvariant, Exclusion, Locks
<1>3. AdmissionAt(q)
  BY DEF NamespaceInvariant, LocksAt
<1> QED
  BY <1>2, <1>3 DEF AdmissionAt

LEMMA NobodyInside ==
    ASSUME NamespaceInvariant, NEW p \in Procs, NEW q \in Procs, p # q, pc[p] \in Replacing
    PROVE  pc[q] \notin {"verify", "open", "confirm"} \cup Replacing
<1>1. held["lifecycle"][p] = "exclusive"
  BY DEF NamespaceInvariant, LocksAt, LifecycleOf
<1>2. held["lifecycle"][q] = "none"
  BY <1>1 DEF NamespaceInvariant, Exclusion, Locks
<1>3. held["lifecycle"][q] = LifecycleOf(pc[q])
  BY DEF NamespaceInvariant, LocksAt
<1> QED
  BY <1>2, <1>3 DEF LifecycleOf

\* A recovery alone: nobody has the data open, nobody else recovers.
LEMMA Solitary ==
    ASSUME NamespaceInvariant, NEW p \in Procs, pc[p] \in Replacing \ {"offline"}
    PROVE  \A q \in Procs \ {p} : pc[q] # "open" /\ pc[q] \notin Recovering
<1> SUFFICES ASSUME NEW q \in Procs, q # p PROVE pc[q] # "open" /\ pc[q] \notin Recovering
  OBVIOUS
<1>1. pc[p] \in Recovering
  BY DEF Replacing, Recovering
<1> QED
  BY <1>1, NobodyBeside, NobodyInside

\* While one process alone works on the directory, the invariant is about it.
LEMMA SolitaryStep ==
    ASSUME NamespaceInvariant, NEW p \in Procs,
           \A q \in Procs \ {p} : pc[q] # "open" /\ pc[q] \notin Recovering,
           ProcTypes', DiskTypes', Alone(p), \A l \in Locks : Takes(p, l), LocksAt(p)',
           MetaNamed', ReadyIsSound', (OpenAt(p) /\ StageAt(p))'
    PROVE  NamespaceInvariant'
<1>1. ASSUME NEW q \in Procs, q # p PROVE (OpenAt(q) /\ StageAt(q))'
  <2>1. pc'[q] = pc[q] /\ pc[q] # "open" /\ pc[q] \notin Recovering
    BY <1>1 DEF Alone
  <2> QED
    BY <2>1 DEF OpenAt, StageAt, Recovering
<1> QED
  BY <1>1, AnyStep

LEMMA NewStep ==
    ASSUME NamespaceInvariant, NamespaceAssumption, NEW p \in Procs, New(p)
    PROVE  NamespaceInvariant'
<1>1. /\ LocksAt(p) /\ pc[p] = "idle" /\ role[p] # "supervisor" /\ anchor' = TRUE
      /\ Goto(p, FirstStep(role[p]))
      /\ UNCHANGED <<meta, history, dir, quarantine, held, role, ident, expects, session,
                     minted, crashes>>
  BY Facts DEF New
<1>2. PICK step \in {"owner", "mowner", "admission"} :
        /\ step = "owner" => role[p] = "agent"
        /\ step = "mowner" => role[p] \in {"offline", "replay"}
        /\ step = "admission" => role[p] \in {"client", "supervisor"}
        /\ Goto(p, step)
  BY <1>1, Facts DEF FirstStep, NamespaceAssumption, AllRoles
<1>3. held' \in [Locks -> [Procs -> Modes]]
  BY <1>1, Facts DEF ProcTypes
<1>4. ProcTypes' /\ Alone(p) /\ pc'[p] = step
  BY <1>1, <1>2, <1>3, Moved DEF Steps, Waiting
<1>5. LocksAt(p)'
  BY <1>1, <1>2, <1>4, Facts DEF LocksAt, StepsOf, OwnsNode, AdmissionAt, LifecycleOf,
     Replacing, Locks,
     Recovering, Acquiring, NamespaceAssumption, AllRoles
<1>6. DiskTypes'
  BY <1>1, Facts DEF DiskTypes
<1>7. MetaNamed' /\ ReadyIsSound'
  BY <1>1 DEF NamespaceInvariant, MetaNamed, ReadyIsSound, SoundDir
<1>8. ASSUME NEW q \in Procs PROVE (OpenAt(q) /\ StageAt(q))'
  <2>1. CASE q = p
    BY <1>2, <1>4, <2>1 DEF OpenAt, StageAt
  <2>2. CASE q # p
    <3>1. pc'[q] = pc[q] /\ ident'[q] = ident[q] /\ role' = role
      BY <1>4, <2>2 DEF Alone
    <3>2. OpenAt(q) /\ StageAt(q)
      BY Facts
    <3> QED
      BY <1>1, <3>1, <3>2 DEF OpenAt, StageAt, SoundDir
  <2> QED
    BY <2>1, <2>2
<1> QED
  BY <1>1, <1>4, <1>5, <1>6, <1>7, <1>8, AnyStep, SameLocks

\* Metadata is missing only before anybody came, so that whoever installs the
\* first identity finds no directory and nobody with one open.
LEMMA WriteInitialStep ==
    ASSUME NamespaceInvariant, NamespaceAssumption, NEW p \in Procs, WriteInitial(p)
    PROVE  NamespaceInvariant'
<1>1. /\ LocksAt(p) /\ pc[p] = "initial" /\ Goto(p, "lifecycle")
      /\ UNCHANGED <<anchor, history, dir, quarantine, held, role, ident, expects, session, crashes>>
  BY Facts DEF WriteInitial
<1>2. held' \in [Locks -> [Procs -> Modes]]
  BY <1>1, Facts DEF ProcTypes
<1>3. ProcTypes' /\ Alone(p) /\ pc'[p] = "lifecycle"
  BY <1>1, <1>2, Moved DEF Steps, Waiting
<1>4. LocksAt(p)'
  BY <1>1, <1>3, Facts DEF LocksAt, StepsOf, OwnsNode, AdmissionAt, LifecycleOf, Replacing,
     Locks,
     Recovering, Acquiring, NamespaceAssumption, AllRoles
<1>5. (OpenAt(p) /\ StageAt(p))'
  BY <1>3 DEF OpenAt, StageAt
<1>6. CASE meta # NoMeta
  BY <1>1, <1>3, <1>4, <1>5, <1>6, LocalStep, Facts, SameLocks DEF WriteInitial, durable
<1>7. CASE meta = NoMeta
  <2>1. /\ minted < MaxIdents /\ minted' = minted + 1
        /\ meta' = [phase |-> "ready", id |-> minted + 1, op |-> NoIdent]
    BY <1>7 DEF WriteInitial, Mint
  <2>2. minted + 1 \in Idents /\ minted' \in 0..MaxIdents
    BY <2>1, Facts DEF Idents, DiskTypes, NamespaceAssumption
  <2>3. dir = Absent
    BY <1>7 DEF NamespaceInvariant, ReadyIsSound
  <2>4. DiskTypes'
    BY <1>1, <2>1, <2>2, Facts DEF DiskTypes, Phases
  <2>5. MetaNamed' /\ ReadyIsSound'
    BY <1>1, <2>1, <2>2, <2>3 DEF MetaNamed, ReadyIsSound, SoundDir, NoMeta
  <2>6. \A q \in Procs \ {p} : pc[q] # "open" /\ pc[q] \notin Recovering
    BY <1>1, <1>7, NobodyBeside DEF NamespaceInvariant, OpenAt
  <2> QED
    BY <1>1, <1>3, <1>4, <1>5, <2>4, <2>5, <2>6, SolitaryStep, SameLocks
<1> QED
  BY <1>6, <1>7

\* Whoever has the data open builds it for the identity all of them work under.
LEMMA OpenStoreStep ==
    ASSUME NamespaceInvariant, NamespaceAssumption, NEW p \in Procs, OpenStore(p)
    PROVE  NamespaceInvariant'
<1>1. /\ pc[p] = "open" /\ dir = Absent /\ dir' = [id |-> ident[p], complete |-> TRUE]
      /\ UNCHANGED <<anchor, meta, history, quarantine, held, pc, role, ident, expects, session,
                     minted, crashes>>
  BY DEF OpenStore, procVars
<1>2. meta # NoMeta /\ ident[p] = meta.id /\ meta.id \in Idents
  BY <1>1 DEF NamespaceInvariant, OpenAt, MetaNamed
<1>3. dir' = [id |-> meta.id, complete |-> TRUE] /\ SoundDir'
  BY <1>1, <1>2 DEF SoundDir
<1>4. ProcTypes' /\ Alone(p) /\ LocksAt(p)'
  BY <1>1, Facts DEF ProcTypes, Alone, LocksAt, OwnsNode, AdmissionAt
<1>5. DiskTypes'
  BY <1>1, <1>2, <1>3, Facts DEF DiskTypes
<1>6. MetaNamed' /\ ReadyIsSound'
  BY <1>1, <1>2, <1>3 DEF NamespaceInvariant, MetaNamed, ReadyIsSound
<1>7. ASSUME NEW q \in Procs PROVE (OpenAt(q) /\ StageAt(q))'
  <2>1. OpenAt(q) /\ StageAt(q)
    BY Facts
  <2>2. pc[q] \notin {"session", "build", "import", "await", "heartbeat", "activate"}
    <3>1. pc[q] \in Replacing => p = q \/ pc[p] # "open"
      BY NobodyInside
    <3> QED
      BY <1>1, <3>1 DEF Replacing
  <2>3. OpenAt(q)'
    BY <1>1, <1>3, <2>1 DEF OpenAt
  <2> QED
    BY <1>1, <2>1, <2>2, <2>3 DEF StageAt
<1> QED
  BY <1>1, <1>4, <1>5, <1>6, <1>7, AnyStep, SameLocks

\* Maintenance::exclusive waits for every open handle.
LEMMA ExclusiveStep ==
    ASSUME NamespaceInvariant, NamespaceAssumption, NEW p \in Procs, Exclusive(p)
    PROVE  NamespaceInvariant'
<1>1. PICK step \in {"quarantine", "offline"} :
        /\ LocksAt(p) /\ OpenAt(p) /\ StageAt(p)
        /\ pc[p] = "exclusive" /\ step = IF role[p] = "replay" THEN "quarantine" ELSE "offline"
        /\ Lock(p, "lifecycle", "exclusive") /\ Goto(p, step)
        /\ ident' = [ident EXCEPT ![p] = meta'.id]
        /\ UNCHANGED <<anchor, history, dir, quarantine, role, expects, session, crashes>>
  BY Facts DEF Exclusive
<1>2. /\ held' \in [Locks -> [Procs -> Modes]]
      /\ held'["lifecycle"][p] = "exclusive"
      /\ \A k \in Locks \ {"lifecycle"} : held'[k][p] = held[k][p]
      /\ \A k \in Locks : \A q \in Procs \ {p} : held'[k][q] = held[k][q]
      /\ \A k \in Locks : Takes(p, k)
  BY <1>1, Facts, LockEffect, "lifecycle" \in Locks DEF Locks
<1>3. \/ meta # NoMeta /\ UNCHANGED <<meta, minted>>
      \/ /\ meta = NoMeta /\ minted < MaxIdents /\ minted' = minted + 1
         /\ meta' = [phase |-> "ready", id |-> minted + 1, op |-> NoIdent]
  BY DEF Exclusive, Mint
<1>4. minted < MaxIdents => minted + 1 \in Idents /\ minted + 1 \in 0..MaxIdents
  BY Facts DEF Idents, DiskTypes, NamespaceAssumption
<1>5. DiskTypes'
  BY <1>1, <1>3, <1>4, Facts DEF DiskTypes, Phases
<1>6. ProcTypes' /\ Alone(p) /\ pc'[p] = step
  BY <1>1, <1>2, <1>5, Moved DEF Steps, Waiting, Recovering, DiskTypes
<1>7. LocksAt(p)'
  BY <1>1, <1>2, <1>6, Facts DEF LocksAt, StepsOf, OwnsNode, AdmissionAt, LifecycleOf,
     Replacing, Locks,
     Recovering, Acquiring, NamespaceAssumption, AllRoles
<1>8. MetaNamed' /\ ReadyIsSound'
  BY <1>1, <1>3, <1>4 DEF NamespaceInvariant, MetaNamed, ReadyIsSound, SoundDir, NoMeta
<1>9. (OpenAt(p) /\ StageAt(p))'
  BY <1>1, <1>3, <1>6, Facts DEF OpenAt, StageAt, NoMeta
<1>10. \A q \in Procs \ {p} : pc[q] # "open" /\ pc[q] \notin Recovering
  <2>1. SUFFICES ASSUME NEW q \in Procs, q # p PROVE pc[q] # "open" /\ pc[q] \notin Recovering
    OBVIOUS
  <2>2. held["lifecycle"][q] = "none"
    BY <1>1, <2>1 DEF Lock, CanLock
  <2>3. pc[q] # "open"
    BY <2>2, Facts DEF LocksAt, LifecycleOf, Replacing
  <2>4. pc[q] \notin Recovering
    BY <1>1, <2>1, NobodyBeside, "exclusive" \in Recovering DEF Recovering
  <2> QED
    BY <2>3, <2>4
<1> QED
  BY <1>1, <1>2, <1>5, <1>6, <1>7, <1>8, <1>9, <1>10, SolitaryStep

\* The intent is recorded below the handles that are still open: they keep
\* the identity they have.
LEMMA RecordIntentStep ==
    ASSUME NamespaceInvariant, NamespaceAssumption, NEW p \in Procs, RecordIntent(p)
    PROVE  NamespaceInvariant'
<1>1. /\ LocksAt(p) /\ pc[p] = "intent" /\ minted < MaxIdents /\ minted' = minted + 1
      /\ history' = IF meta.phase \in {"ready", "missing"} THEN history
                                                            ELSE history \cup {meta.id}
      /\ meta' = [phase |-> "fencing", op |-> minted + 1,
                  id |-> IF meta = NoMeta THEN minted + 1 ELSE meta.id]
      /\ Goto(p, "fence")
      /\ UNCHANGED <<anchor, dir, quarantine, held, role, ident, expects, session, crashes>>
  BY Facts DEF RecordIntent, Mint
<1>2. minted + 1 \in Idents /\ minted + 1 \in 0..MaxIdents
  BY <1>1, Facts DEF Idents, DiskTypes, NamespaceAssumption
<1>3. meta = NoMeta \/ meta.id \in Idents
  BY DEF NamespaceInvariant, MetaNamed
<1>4. held' \in [Locks -> [Procs -> Modes]]
  BY <1>1, Facts DEF ProcTypes
<1>5. ProcTypes' /\ Alone(p) /\ pc'[p] = "fence"
  BY <1>1, <1>4, Moved DEF Steps, Recovering
<1>6. LocksAt(p)'
  BY <1>1, <1>5, Facts DEF LocksAt, StepsOf, OwnsNode, AdmissionAt, LifecycleOf, Replacing,
     Locks,
     Recovering, Acquiring, NamespaceAssumption, AllRoles
<1>7. meta'.id \in Idents /\ meta' # NoMeta /\ meta'.phase = "fencing"
      /\ (meta # NoMeta => meta'.id = meta.id)
  BY <1>1, <1>2, <1>3 DEF NoMeta
<1>8. DiskTypes'
  BY <1>1, <1>2, <1>3, <1>7, Facts DEF DiskTypes, Phases, NoMeta
<1>9. MetaNamed' /\ ReadyIsSound'
  BY <1>1, <1>7 DEF NamespaceInvariant, MetaNamed, ReadyIsSound
<1>10. ASSUME NEW q \in Procs PROVE (OpenAt(q) /\ StageAt(q))'
  <2>1. CASE q = p
    BY <1>5, <1>7, <2>1 DEF OpenAt, StageAt
  <2>2. CASE q # p
    <3>1. pc'[q] = pc[q] /\ ident'[q] = ident[q] /\ OpenAt(q)
      BY <1>5, <2>2, Facts DEF Alone
    <3>2. pc[q] \notin Recovering
      BY <1>1, <2>2, NobodyBeside DEF Recovering
    <3>3. OpenAt(q)'
      BY <1>1, <1>7, <3>1 DEF OpenAt, SoundDir
    <3> QED
      BY <3>1, <3>2, <3>3 DEF StageAt, Recovering
  <2> QED
    BY <2>1, <2>2
<1> QED
  BY <1>1, <1>5, <1>6, <1>8, <1>9, <1>10, AnyStep, SameLocks

\* quarantine_replay_state.
LEMMA QuarantineStep ==
    ASSUME NamespaceInvariant, NamespaceAssumption, NEW p \in Procs, Quarantine(p)
    PROVE  NamespaceInvariant'
<1>1. /\ LocksAt(p) /\ StageAt(p) /\ pc[p] = "quarantine" /\ Goto(p, "session")
      /\ quarantine' = IF dir = Absent THEN quarantine ELSE quarantine \cup {dir.id}
      /\ dir' = Absent
      /\ UNCHANGED <<anchor, meta, history, held, role, ident, expects, session, minted, crashes>>
  BY Facts DEF Quarantine, Mint
<1>2. \A q \in Procs \ {p} : pc[q] # "open" /\ pc[q] \notin Recovering
  BY <1>1, Solitary DEF Replacing
<1>3. held' \in [Locks -> [Procs -> Modes]]
  BY <1>1, Facts DEF ProcTypes
<1>4. minted < MaxIdents => minted + 1 \in Idents /\ minted + 1 \in 0..MaxIdents
  BY Facts DEF Idents, DiskTypes, NamespaceAssumption
<1>5. ProcTypes' /\ Alone(p) /\ pc'[p] = "session"
  BY <1>1, <1>3, <1>4, Moved DEF Steps, Recovering, Waiting
<1>6. LocksAt(p)'
  BY <1>1, <1>5, Facts DEF LocksAt, StepsOf, OwnsNode, AdmissionAt, LifecycleOf, Replacing,
     Locks,
     Recovering, Acquiring, NamespaceAssumption, AllRoles
<1>7. DiskTypes'
  BY <1>1, <1>4, Facts DEF DiskTypes, Phases, Absent, NamespaceInvariant, MetaNamed, StageAt,
     ProcTypes
<1>8. meta # NoMeta /\ meta.id \in Idents
  BY <1>1 DEF NamespaceInvariant, MetaNamed, StageAt, NoMeta
<1>9. MetaNamed' /\ ReadyIsSound' /\ (OpenAt(p) /\ StageAt(p))'
  BY <1>1, <1>5, <1>8, Facts DEF MetaNamed, ReadyIsSound, OpenAt, StageAt, SoundDir
<1> QED
  BY <1>1, <1>2, <1>5, <1>6, <1>7, <1>9, SolitaryStep, SameLocks

\* initialize_session: the only change of identity below an exclusive lock.
LEMMA InitializeSessionStep ==
    ASSUME NamespaceInvariant, NamespaceAssumption, NEW p \in Procs, InitializeSession(p)
    PROVE  NamespaceInvariant'
<1>1. /\ LocksAt(p) /\ StageAt(p) /\ pc[p] = "session" /\ Goto(p, "build")
      /\ minted < MaxIdents /\ minted' = minted + 1
      /\ meta' = [phase |-> "initializing", id |-> minted + 1, op |-> meta.op]
      /\ ident' = [ident EXCEPT ![p] = minted + 1]
      /\ UNCHANGED <<anchor, history, dir, quarantine, held, role, expects, session, crashes>>
  BY Facts DEF InitializeSession, Mint
<1>2. \A q \in Procs \ {p} : pc[q] # "open" /\ pc[q] \notin Recovering
  BY <1>1, Solitary DEF Replacing
<1>3. held' \in [Locks -> [Procs -> Modes]]
  BY <1>1, Facts DEF ProcTypes
<1>4. minted < MaxIdents => minted + 1 \in Idents /\ minted + 1 \in 0..MaxIdents
  BY Facts DEF Idents, DiskTypes, NamespaceAssumption
<1>5. ProcTypes' /\ Alone(p) /\ pc'[p] = "build"
  BY <1>1, <1>3, <1>4, Moved DEF Steps, Recovering, Waiting
<1>6. LocksAt(p)'
  BY <1>1, <1>5, Facts DEF LocksAt, StepsOf, OwnsNode, AdmissionAt, LifecycleOf, Replacing,
     Locks,
     Recovering, Acquiring, NamespaceAssumption, AllRoles
<1>7. DiskTypes'
  BY <1>1, <1>4, Facts DEF DiskTypes, Phases, Absent, NamespaceInvariant, MetaNamed, StageAt,
     ProcTypes
<1>8. meta # NoMeta /\ meta.id \in Idents
  BY <1>1 DEF NamespaceInvariant, MetaNamed, StageAt, NoMeta
<1>9. MetaNamed' /\ ReadyIsSound' /\ (OpenAt(p) /\ StageAt(p))'
  <2>1. ident'[p] = meta'.id
    BY <1>1, Facts DEF ProcTypes
  <2> QED
    BY <1>1, <1>4, <1>5, <2>1 DEF MetaNamed, ReadyIsSound, OpenAt, StageAt, NoMeta,
       NamespaceInvariant
<1> QED
  BY <1>1, <1>2, <1>5, <1>6, <1>7, <1>9, SolitaryStep, SameLocks

\* The journal is created for the new identity.
LEMMA BuildStep ==
    ASSUME NamespaceInvariant, NamespaceAssumption, NEW p \in Procs, Build(p), pc[p] = "build"
    PROVE  NamespaceInvariant'
<1>1. /\ LocksAt(p) /\ StageAt(p) /\ pc[p] = "build" /\ Goto(p, "import")
      /\ dir' = [id |-> ident[p], complete |-> FALSE]
      /\ UNCHANGED <<anchor, meta, history, quarantine, held, role, ident, expects, session, minted, crashes>>
  BY Facts DEF Build, Mint
<1>2. \A q \in Procs \ {p} : pc[q] # "open" /\ pc[q] \notin Recovering
  BY <1>1, Solitary DEF Replacing
<1>3. held' \in [Locks -> [Procs -> Modes]]
  BY <1>1, Facts DEF ProcTypes
<1>4. minted < MaxIdents => minted + 1 \in Idents /\ minted + 1 \in 0..MaxIdents
  BY Facts DEF Idents, DiskTypes, NamespaceAssumption
<1>5. ProcTypes' /\ Alone(p) /\ pc'[p] = "import"
  BY <1>1, <1>3, <1>4, Moved DEF Steps, Recovering, Waiting
<1>6. LocksAt(p)'
  BY <1>1, <1>5, Facts DEF LocksAt, StepsOf, OwnsNode, AdmissionAt, LifecycleOf, Replacing,
     Locks,
     Recovering, Acquiring, NamespaceAssumption, AllRoles
<1>7. DiskTypes'
  BY <1>1, <1>4, Facts DEF DiskTypes, Phases, Absent, NamespaceInvariant, MetaNamed, StageAt,
     ProcTypes
<1>8. meta # NoMeta /\ meta.id \in Idents
  BY <1>1 DEF NamespaceInvariant, MetaNamed, StageAt, NoMeta
<1>9. MetaNamed' /\ ReadyIsSound' /\ (OpenAt(p) /\ StageAt(p))'
  BY <1>1, <1>5, <1>8, Facts DEF MetaNamed, ReadyIsSound, OpenAt, StageAt, SoundDir
<1> QED
  BY <1>1, <1>2, <1>5, <1>6, <1>7, <1>9, SolitaryStep, SameLocks

\* The retained allocations are imported.
LEMMA ImportStep ==
    ASSUME NamespaceInvariant, NamespaceAssumption, NEW p \in Procs, Build(p), pc[p] = "import"
    PROVE  NamespaceInvariant'
<1>1. /\ LocksAt(p) /\ StageAt(p) /\ pc[p] = "import" /\ Goto(p, "await")
      /\ dir' = [dir EXCEPT !.complete = TRUE]
      /\ UNCHANGED <<anchor, meta, history, quarantine, held, role, ident, expects, session, minted, crashes>>
  BY Facts DEF Build, Mint
<1>2. \A q \in Procs \ {p} : pc[q] # "open" /\ pc[q] \notin Recovering
  BY <1>1, Solitary DEF Replacing
<1>3. held' \in [Locks -> [Procs -> Modes]]
  BY <1>1, Facts DEF ProcTypes
<1>4. minted < MaxIdents => minted + 1 \in Idents /\ minted + 1 \in 0..MaxIdents
  BY Facts DEF Idents, DiskTypes, NamespaceAssumption
<1>5. ProcTypes' /\ Alone(p) /\ pc'[p] = "await"
  BY <1>1, <1>3, <1>4, Moved DEF Steps, Recovering, Waiting
<1>6. LocksAt(p)'
  BY <1>1, <1>5, Facts DEF LocksAt, StepsOf, OwnsNode, AdmissionAt, LifecycleOf, Replacing,
     Locks,
     Recovering, Acquiring, NamespaceAssumption, AllRoles
<1>7. DiskTypes'
  BY <1>1, <1>4, Facts DEF DiskTypes, Phases, Absent, NamespaceInvariant, MetaNamed, StageAt,
     ProcTypes
<1>8. meta # NoMeta /\ meta.id \in Idents
  BY <1>1 DEF NamespaceInvariant, MetaNamed, StageAt, NoMeta
<1>9. MetaNamed' /\ ReadyIsSound' /\ (OpenAt(p) /\ StageAt(p))'
  <2>1. dir'.id = dir.id /\ dir'.complete
    BY <1>1, Facts DEF DiskTypes
  <2> QED
    BY <1>1, <1>5, <1>8, <2>1, Facts DEF MetaNamed, ReadyIsSound, OpenAt, StageAt, SoundDir
<1> QED
  BY <1>1, <1>2, <1>5, <1>6, <1>7, <1>9, SolitaryStep, SameLocks

\* await_readiness.
LEMMA AwaitReadinessStep ==
    ASSUME NamespaceInvariant, NamespaceAssumption, NEW p \in Procs, AwaitReadiness(p)
    PROVE  NamespaceInvariant'
<1>1. /\ LocksAt(p) /\ StageAt(p) /\ pc[p] = "await" /\ Goto(p, "heartbeat")
      /\ meta' = [meta EXCEPT !.phase = "awaiting_readiness"]
      /\ UNCHANGED <<anchor, history, dir, quarantine, held, role, ident, expects, session, minted, crashes>>
  BY Facts DEF AwaitReadiness, Mint
<1>2. \A q \in Procs \ {p} : pc[q] # "open" /\ pc[q] \notin Recovering
  BY <1>1, Solitary DEF Replacing
<1>3. held' \in [Locks -> [Procs -> Modes]]
  BY <1>1, Facts DEF ProcTypes
<1>4. minted < MaxIdents => minted + 1 \in Idents /\ minted + 1 \in 0..MaxIdents
  BY Facts DEF Idents, DiskTypes, NamespaceAssumption
<1>5. ProcTypes' /\ Alone(p) /\ pc'[p] = "heartbeat"
  BY <1>1, <1>3, <1>4, Moved DEF Steps, Recovering, Waiting
<1>6. LocksAt(p)'
  BY <1>1, <1>5, Facts DEF LocksAt, StepsOf, OwnsNode, AdmissionAt, LifecycleOf, Replacing,
     Locks,
     Recovering, Acquiring, NamespaceAssumption, AllRoles
<1>7. DiskTypes'
  BY <1>1, <1>4, Facts DEF DiskTypes, Phases, Absent, NamespaceInvariant, MetaNamed, StageAt,
     ProcTypes
<1>8. meta # NoMeta /\ meta.id \in Idents
  BY <1>1 DEF NamespaceInvariant, MetaNamed, StageAt, NoMeta
<1>9. MetaNamed' /\ ReadyIsSound' /\ (OpenAt(p) /\ StageAt(p))'
  <2>1. meta'.id = meta.id /\ meta'.phase = "awaiting_readiness"
    BY <1>1, Facts DEF DiskTypes
  <2>2. meta' # NoMeta
    BY <2>1 DEF NoMeta
  <2> QED
    BY <1>1, <1>5, <1>8, <2>1, <2>2, Facts DEF MetaNamed, ReadyIsSound, OpenAt, StageAt,
       NamespaceInvariant
<1> QED
  BY <1>1, <1>2, <1>5, <1>6, <1>7, <1>9, SolitaryStep, SameLocks

\* Maintenance::activate: only a directory that was finished becomes ready.
LEMMA ActivateStep ==
    ASSUME NamespaceInvariant, NamespaceAssumption, NEW p \in Procs, Activate(p),
    pc[p] = "activate"
    PROVE  NamespaceInvariant'
<1>1. /\ LocksAt(p) /\ StageAt(p) /\ pc[p] = "activate" /\ Goto(p, "drop")
      /\ meta' = [meta EXCEPT !.phase = "ready"]
      /\ UNCHANGED <<anchor, history, dir, quarantine, held, role, ident, expects, session, minted, crashes>>
  BY Facts DEF Activate, Mint
<1>2. \A q \in Procs \ {p} : pc[q] # "open" /\ pc[q] \notin Recovering
  BY <1>1, Solitary DEF Replacing
<1>3. held' \in [Locks -> [Procs -> Modes]]
  BY <1>1, Facts DEF ProcTypes
<1>4. minted < MaxIdents => minted + 1 \in Idents /\ minted + 1 \in 0..MaxIdents
  BY Facts DEF Idents, DiskTypes, NamespaceAssumption
<1>5. ProcTypes' /\ Alone(p) /\ pc'[p] = "drop"
  BY <1>1, <1>3, <1>4, Moved DEF Steps, Recovering, Waiting
<1>6. LocksAt(p)'
  BY <1>1, <1>5, Facts DEF LocksAt, StepsOf, OwnsNode, AdmissionAt, LifecycleOf, Replacing,
     Locks,
     Recovering, Acquiring, NamespaceAssumption, AllRoles
<1>7. DiskTypes'
  BY <1>1, <1>4, Facts DEF DiskTypes, Phases, Absent, NamespaceInvariant, MetaNamed, StageAt,
     ProcTypes
<1>8. meta # NoMeta /\ meta.id \in Idents
  BY <1>1 DEF NamespaceInvariant, MetaNamed, StageAt, NoMeta
<1>9. MetaNamed' /\ ReadyIsSound' /\ (OpenAt(p) /\ StageAt(p))'
  <2>1. meta'.id = meta.id /\ meta'.phase = "ready"
    BY <1>1, Facts DEF DiskTypes
  <2>2. meta' # NoMeta
    BY <2>1 DEF NoMeta
  <2> QED
    BY <1>1, <1>5, <1>8, <2>1, <2>2, Facts DEF MetaNamed, ReadyIsSound, OpenAt, StageAt,
       SoundDir, NamespaceInvariant
<1> QED
  BY <1>1, <1>2, <1>5, <1>6, <1>7, <1>9, SolitaryStep, SameLocks

-----------------------------------------------------------------------------
\* Before anybody came there is nothing.
LEMMA NamespaceStarts ==
    ASSUME NamespaceAssumption, Init
    PROVE  NamespaceInvariant
<1>1. ProcTypes
  BY DEF Init, ProcTypes, Modes, Steps, NoIdent
<1>2. DiskTypes
  <2>1. NoMeta \in [phase : Phases, id : Idents \cup {NoIdent}, op : Idents \cup {NoIdent}]
    BY DEF NoMeta, Phases
  <2>2. Absent \in [id : Idents \cup {NoIdent}, complete : BOOLEAN]
    BY DEF Absent
  <2>3. 0 \in 0..MaxIdents /\ 0 \in 0..MaxCrashes
    BY DEF NamespaceAssumption
  <2> QED
    BY <2>1, <2>2, <2>3 DEF Init, DiskTypes
<1>3. ASSUME NEW p \in Procs PROVE LocksAt(p)
  <2>1. \A l \in Locks : held[l][p] = "none"
    BY DEF Init
  <2>2. pc[p] = "idle"
    BY DEF Init
  <2> QED
    BY <2>1, <2>2 DEF LocksAt, StepsOf, OwnsNode, AdmissionAt, LifecycleOf, Replacing, Locks,
       Recovering, Acquiring
<1>4. Exclusion
  BY DEF Init, Exclusion
<1>5. MetaNamed /\ ReadyIsSound
  BY DEF Init, MetaNamed, ReadyIsSound, SoundDir
<1>6. \A p \in Procs : OpenAt(p) /\ StageAt(p)
  BY DEF Init, OpenAt, StageAt
<1> QED
  BY <1>1, <1>2, <1>3, <1>4, <1>5, <1>6, TypeParts DEF NamespaceInvariant

\* Every step of every process keeps the invariant.
LEMMA NamespaceSteps ==
    ASSUME NamespaceAssumption, NamespaceInvariant, [Next]_vars
    PROVE  NamespaceInvariant'
<1>1. CASE UNCHANGED vars
  BY <1>1 DEF vars, NamespaceInvariant, TypeOK, LocksAt, OwnsNode, AdmissionAt, Exclusion,
     MetaNamed,
     ReadyIsSound, SoundDir, OpenAt, StageAt
<1>2. CASE Next
  <2>1. PICK p \in Procs : New(p) \/ Step(p) \/ Close(p) \/ Crash(p) \/ \E q \in Procs : Launch(p, q)
    BY <1>2 DEF Next
  <2>2. CASE New(p) \/ Close(p) \/ Crash(p) \/ Refused(p) \/ Timeout(p)
    BY <2>2, NewStep, LeaveStep
  <2>3. CASE \E q \in Procs : Launch(p, q)
    BY <2>3, LaunchStep
  <2>4. CASE Step(p)
    <3>1. CASE Owner(p) \/ AcquireAdmission(p) \/ Peek(p) \/ ReopenAdmission(p) \/ AcquireLifecycle(p)
               \/ Verify(p) \/ BeginMaintenance(p) \/ OpenReplaySession(p) \/ Heartbeat(p)
      BY <3>1, OwnerStep, AcquireAdmissionStep, PeekStep, ReopenAdmissionStep,
         AcquireLifecycleStep,
         VerifyStep, BeginMaintenanceStep, OpenReplaySessionStep, HeartbeatStep
    <3>2. CASE WriteInitial(p) \/ OpenStore(p) \/ Exclusive(p) \/ RecordIntent(p) \/ Quarantine(p)
               \/ InitializeSession(p) \/ AwaitReadiness(p)
      BY <3>2, WriteInitialStep, OpenStoreStep, ExclusiveStep, RecordIntentStep, QuarantineStep,
         InitializeSessionStep, AwaitReadinessStep
    <3>3. CASE Build(p)
      BY <3>3, BuildStep, ImportStep DEF Build
    <3>4. CASE Activate(p)
      BY <3>4, ActivateStep, HandOverStep
    <3>5. CASE Refused(p) \/ Timeout(p)
      BY <2>2, <3>5
    <3> QED
      BY <2>4, <3>1, <3>2, <3>3, <3>4, <3>5 DEF Step
  <2> QED
    BY <2>1, <2>2, <2>3, <2>4
<1> QED
  BY <1>1, <1>2

-----------------------------------------------------------------------------
(* What the invariant says.                                                *)
LEMMA OpenHolds ==
    ASSUME NamespaceInvariant
    PROVE  OpenIsCurrent /\ OpenIsComplete
BY DEF NamespaceInvariant, OpenAt, SoundDir, OpenIsCurrent, OpenIsComplete

LEMMA AloneHolds ==
    ASSUME NamespaceInvariant
    PROVE  ReplacementIsAlone
<1> SUFFICES ASSUME NEW p \in Procs, NEW q \in Procs, p # q, pc[p] \in Replacing
             PROVE  pc[q] \notin {"open"} \cup Replacing
  BY DEF ReplacementIsAlone, Replacing
<1> QED
  BY NobodyInside

\* Both would have the owner lock.
LEMMA OneServiceHolds ==
    ASSUME NamespaceInvariant
    PROVE  OneService
<1> SUFFICES ASSUME NEW p \in Procs, NEW q \in Procs, p # q,
                    role[p] \in {"agent", "replay"}, role[q] \in {"agent", "replay"},
                    pc[p] = "open",
                    pc[q] \in {"open", "admission", "peek", "verify"} \cup Recovering
             PROVE  FALSE
  BY DEF OneService
<1>1. LocksAt(p) /\ LocksAt(q) /\ "owner" \in Locks
  BY DEF NamespaceInvariant, Locks
<1>2. OwnsNode(p) /\ OwnsNode(q)
  BY DEF OwnsNode, Recovering
<1>3. held["owner"][p] = "exclusive" /\ held["owner"][q] = "exclusive"
  BY <1>1, <1>2 DEF LocksAt
<1> QED
  BY <1>1, <1>3 DEF NamespaceInvariant, Exclusion

\* Who waits for a lock has none of that lock's rank or a later one.
LEMMA NoCircleHolds ==
    ASSUME NamespaceInvariant
    PROVE  NoWaitCycle
<1> SUFFICES ASSUME NEW p \in Procs, NEW q \in Procs, p # q, Blocks(q, p), pc[q] \in Waiting
             PROVE  Rank(LockOf(pc[p])) < Rank(LockOf(pc[q]))
  BY DEF NoWaitCycle
<1>1. pc[p] \in Waiting /\ held[LockOf(pc[p])][q] # "none" /\ LocksAt(q)
  BY DEF Blocks, NamespaceInvariant
<1>2. LockOf(pc[p]) \in Locks /\ LockOf(pc[q]) \in Locks
  BY DEF LockOf, Locks
<1>3. CASE LockOf(pc[p]) = "owner"
  <2>1. OwnsNode(q)
    BY <1>1, <1>3 DEF LocksAt
  <2>2. pc[q] \notin {"owner", "mowner"}
    BY <1>1, <2>1 DEF OwnsNode, LocksAt, StepsOf, Acquiring, Recovering
  <2> QED
    BY <1>3, <2>2 DEF LockOf, Rank, Waiting
<1>4. CASE LockOf(pc[p]) = "admission"
  <2>1. pc[q] \notin {"owner", "admission", "reopen", "mowner", "madmission"}
    BY <1>1, <1>4 DEF LocksAt, AdmissionAt
  <2> QED
    BY <1>4, <2>1 DEF LockOf, Rank, Waiting
<1>5. CASE LockOf(pc[p]) = "lifecycle"
  BY <1>1, <1>5 DEF LocksAt, LifecycleOf, Replacing, Waiting
<1> QED
  BY <1>2, <1>3, <1>4, <1>5 DEF Locks

\* What an abandoned recovery left is named before it is replaced.
LEMMA AbandonedIsKept ==
    ASSUME NamespaceAssumption, NamespaceInvariant, Next
    PROVE  KeepsAbandoned
<1>1. PICK p \in Procs : New(p) \/ Step(p) \/ Close(p) \/ Crash(p) \/ \E q \in Procs : Launch(p, q)
  BY DEF Next
<1>2. StageAt(p) /\ DiskTypes
  BY Facts
<1>3. CASE RecordIntent(p)
  BY <1>2, <1>3 DEF RecordIntent, KeepsAbandoned
<1>4. CASE Quarantine(p)
  BY <1>2, <1>4 DEF Quarantine, KeepsAbandoned
<1>5. CASE Build(p)
  <2>1. meta' = meta /\ (dir = Absent \/ dir'.id = dir.id)
    BY <1>2, <1>5 DEF Build, StageAt, DiskTypes
  <2> QED
    BY <2>1 DEF KeepsAbandoned
<1>6. CASE OpenStore(p)
  BY <1>6 DEF OpenStore, KeepsAbandoned
<1>7. CASE WriteInitial(p) \/ Exclusive(p) \/ InitializeSession(p) \/ AwaitReadiness(p) \/ Activate(p)
  <2>1. dir' = dir
    BY <1>7 DEF WriteInitial, Exclusive, InitializeSession, AwaitReadiness, Activate, durable
  <2>2. meta' = meta \/ meta'.phase \in {"ready", "initializing", "awaiting_readiness"}
    BY <1>2, <1>7 DEF WriteInitial, Exclusive, InitializeSession, AwaitReadiness, Activate,
       durable,
       DiskTypes
  <2> QED
    BY <2>1, <2>2 DEF KeepsAbandoned
<1>8. CASE New(p) \/ Close(p) \/ Crash(p) \/ (\E q \in Procs : Launch(p, q)) \/ Owner(p)
           \/ AcquireAdmission(p) \/ Peek(p) \/ ReopenAdmission(p) \/ AcquireLifecycle(p) \/ Verify(p)
           \/ Refused(p) \/ BeginMaintenance(p) \/ OpenReplaySession(p) \/ Heartbeat(p) \/ Timeout(p)
  <2>1. dir' = dir /\ meta' = meta
    BY <1>8 DEF New, Close, Crash, Launch, Owner, AcquireAdmission, Peek, ReopenAdmission,
       AcquireLifecycle, Verify, Refused, BeginMaintenance, OpenReplaySession, Heartbeat,
       Timeout,
       Leave, durable
  <2> QED
    BY <2>1 DEF KeepsAbandoned
<1> QED
  BY <1>1, <1>3, <1>4, <1>5, <1>6, <1>7, <1>8 DEF Step

-----------------------------------------------------------------------------
(* Theorems, for any processes, roles and number of recoveries and deaths.  *)

\* Every process has exactly the locks its step needs, and the disk is what
\* the phase says (namespace.rs, start_replay_session).
THEOREM NamespaceInductive ==
    ASSUME NamespaceAssumption
    PROVE  Spec => []NamespaceInvariant
<1>1. Init => NamespaceInvariant
  BY NamespaceStarts
<1>2. NamespaceInvariant /\ [Next]_vars => NamespaceInvariant'
  BY NamespaceSteps
<1> QED
  BY <1>1, <1>2, PTL DEF Spec

\* The safety properties of the directory's lifetime protection hold of every
\* reachable state (acquire, exclusive, initialize_session, activate).
THEOREM NamespaceSafe ==
    ASSUME NamespaceAssumption
    PROVE  Spec => [](TypeOK /\ OpenIsCurrent /\ OpenIsComplete /\ ReplacementIsAlone
                      /\ OneService /\ NoWaitCycle)
<1>1. NamespaceInvariant => TypeOK /\ OpenIsCurrent /\ OpenIsComplete /\ ReplacementIsAlone
                              /\ OneService /\ NoWaitCycle
  BY OpenHolds, AloneHolds, OneServiceHolds, NoCircleHolds DEF NamespaceInvariant
<1> QED
  BY <1>1, NamespaceInductive, PTL

\* No step overwrites what an abandoned recovery left (record_intent,
\* quarantine_replay_state, initialize_session).
THEOREM AbandonedKept ==
    ASSUME NamespaceAssumption
    PROVE  Spec => [][KeepsAbandoned]_vars
<1>1. NamespaceInvariant /\ [Next]_vars => [KeepsAbandoned]_vars
  BY AbandonedIsKept
<1> QED
  BY <1>1, NamespaceInductive, PTL DEF Spec
=============================================================================
