------------------------------ MODULE Namespace ------------------------------
(***************************************************************************)
(* Cooperative lifetime protection of one state directory (namespace.rs),  *)
(* with the processes that use it: services and tools that acquire shared  *)
(* access, supervisors that expect the identity they were launched under,  *)
(* offline tools that exclude everyone, and the authenticated recovery of  *)
(* a replay node, which replaces the directory (agent.rs).                 *)
(*                                                                         *)
(* Three flock files outside the directory are taken in the order owner,   *)
(* admission, lifecycle.  namespace.json names the identity the directory  *)
(* belongs to and the phase of a recovery.                                 *)
(***************************************************************************)
EXTENDS Naturals, FiniteSets

CONSTANTS
    Procs,         \* operating-system processes
    Roles,         \* roles they may play: subset of AllRoles
    MaxIdents,     \* bound: identities ever minted (namespace UUIDs)
    MaxCrashes     \* bound: process deaths and failed RPCs

AllRoles == {"client", "supervisor", "agent", "offline", "replay"}

NamespaceAssumption ==
    /\ Roles \subseteq AllRoles
    /\ MaxIdents \in Nat \ {0}
    /\ MaxCrashes \in Nat

VARIABLES
    anchor,      \* lock-identities.json exists
    meta,        \* namespace.json: identity, phase and operation
    history,     \* recovery-history-*.json: identities of abandoned recoveries
    dir,         \* the state directory: the identity it was built for
    quarantine,  \* directories renamed away
    held,        \* held[l][p]: how process p holds lock l
    pc, role, ident, expects, \* of each process: step, role, guard identity, bootstrap
    session,     \* replay session the coordinator last fenced to
    minted, crashes

vars == <<anchor, meta, history, dir, quarantine, held, pc, role, ident, expects,
          session, minted, crashes>>
durable == <<anchor, meta, history, dir, quarantine>>
procVars == <<held, pc, role, ident, expects>>

Locks == {"owner", "admission", "lifecycle"}
Modes == {"none", "shared", "exclusive"}
Idents == 1..MaxIdents
NoIdent == 0
Phases == {"missing", "ready", "fencing", "initializing", "awaiting_readiness"}
NoMeta == [phase |-> "missing", id |-> NoIdent, op |-> NoIdent]
Absent == [id |-> NoIdent, complete |-> FALSE]

Waiting == {"owner", "admission", "reopen", "lifecycle", "mowner", "madmission",
            "exclusive", "relock"}
Recovering == {"intent", "fence", "exclusive", "quarantine", "session", "build",
               "import", "await", "heartbeat", "activate", "drop", "relock", "confirm"}
Steps == {"idle", "peek", "initial", "verify", "open", "offline"} \cup Waiting \cup Recovering

(***************************************************************************)
(* flock: any number of shared holders, or one exclusive holder.           *)
(***************************************************************************)
CanLock(p, l, mode) ==
    \A q \in Procs \ {p} : held[l][q] = "none" \/ (mode = "shared" /\ held[l][q] = "shared")
Lock(p, l, mode) ==
    /\ CanLock(p, l, mode)
    /\ held' = [held EXCEPT ![l][p] = mode]
Unlocked(p, l) == [held EXCEPT ![l][p] = "none"]
NoLocks(p) == [l \in Locks |-> [held[l] EXCEPT ![p] = "none"]]

Goto(p, step) == pc' = [pc EXCEPT ![p] = step]
Mint == minted' = minted + 1

\* A process that fails, is refused, times out, dies or closes its last handle
\* gives back every lock; what it persisted stays.
Leave(p) ==
    /\ held' = NoLocks(p)
    /\ pc' = [pc EXCEPT ![p] = "idle"]
    /\ ident' = [ident EXCEPT ![p] = NoIdent]
    /\ expects' = [expects EXCEPT ![p] = NoIdent]
    /\ UNCHANGED <<durable, role, session, minted>>

Init ==
    /\ anchor = FALSE
    /\ meta = NoMeta
    /\ history = {}
    /\ dir = Absent
    /\ quarantine = {}
    /\ held = [l \in Locks |-> [p \in Procs |-> "none"]]
    /\ pc = [p \in Procs |-> "idle"]
    /\ role \in [Procs -> Roles]
    /\ ident = [p \in Procs |-> NoIdent]
    /\ expects = [p \in Procs |-> NoIdent]
    /\ session = NoIdent
    /\ minted = 0
    /\ crashes = 0

-----------------------------------------------------------------------------
FirstStep(r) ==
    CASE r = "agent" -> "owner"
      [] r \in {"offline", "replay"} -> "mowner"
      [] OTHER -> "admission"

\* Namespace::new: the first process to come installs the identities of the
\* lock files, under exclusive admission that it gives back at once.
New(p) ==
    /\ pc[p] = "idle"
    /\ role[p] # "supervisor"
    /\ anchor \/ CanLock(p, "admission", "exclusive")
    /\ anchor' = TRUE
    /\ Goto(p, FirstStep(role[p]))
    /\ UNCHANGED <<meta, history, dir, quarantine, held, role, ident, expects, session,
                   minted, crashes>>

\* An agent that runs hands its guard's identity to the supervisor it launches.
Launch(p, q) ==
    /\ role[p] \in {"agent", "replay"} /\ pc[p] = "open"
    /\ role[q] = "supervisor" /\ pc[q] = "idle"
    /\ expects' = [expects EXCEPT ![q] = ident[p]]
    /\ Goto(q, "admission")
    /\ UNCHANGED <<durable, held, role, ident, session, minted, crashes>>

\* Namespace::owner, taken by a durable agent before it acquires.
Owner(p) ==
    /\ pc[p] = "owner"
    /\ Lock(p, "owner", "exclusive")
    /\ Goto(p, "admission")
    /\ UNCHANGED <<durable, role, ident, expects, session, minted, crashes>>

-----------------------------------------------------------------------------
(* Namespace::acquire. *)
AcquireAdmission(p) ==
    /\ pc[p] = "admission"
    /\ Lock(p, "admission", "shared")
    /\ Goto(p, "peek")
    /\ UNCHANGED <<durable, role, ident, expects, session, minted, crashes>>

\* Faulty: waits for exclusive admission while keeping the shared lock.
PeekKeepsShared(p) ==
    /\ pc[p] = "peek"
    /\ Goto(p, IF meta = NoMeta THEN "reopen" ELSE "lifecycle")
    /\ UNCHANGED <<durable, held, role, ident, expects, session, minted, crashes>>

\* Missing metadata cannot be written under shared admission: give it back
\* and come again exclusively.
Peek(p) ==
    /\ pc[p] = "peek"
    /\ IF meta = NoMeta
          THEN held' = Unlocked(p, "admission") /\ Goto(p, "reopen")
          ELSE UNCHANGED held /\ Goto(p, "lifecycle")
    /\ UNCHANGED <<durable, role, ident, expects, session, minted, crashes>>

ReopenAdmission(p) ==
    /\ pc[p] = "reopen"
    /\ Lock(p, "admission", "exclusive")
    /\ Goto(p, "initial")
    /\ UNCHANGED <<durable, role, ident, expects, session, minted, crashes>>

WriteInitial(p) ==
    /\ pc[p] = "initial"
    /\ \/ meta # NoMeta /\ UNCHANGED <<meta, minted>>
       \/ /\ meta = NoMeta
          /\ minted < MaxIdents
          /\ meta' = [phase |-> "ready", id |-> minted + 1, op |-> NoIdent]
          /\ Mint
    /\ Goto(p, "lifecycle")
    /\ UNCHANGED <<anchor, history, dir, quarantine, held, role, ident, expects, session, crashes>>

AcquireLifecycle(p) ==
    /\ pc[p] = "lifecycle"
    /\ Lock(p, "lifecycle", "shared")
    /\ Goto(p, "verify")
    /\ UNCHANGED <<durable, role, ident, expects, session, minted, crashes>>

Admits(p) ==
    /\ meta.phase = "ready"
    /\ expects[p] \in {NoIdent, meta.id}

\* The phase and the identity are read once more under the lifecycle lock; the
\* guard keeps the identity, and admission is given back.
Verify(p) ==
    /\ pc[p] = "verify"
    /\ Admits(p)
    /\ ident' = [ident EXCEPT ![p] = meta.id]
    /\ held' = Unlocked(p, "admission")
    /\ Goto(p, "open")
    /\ UNCHANGED <<durable, role, expects, session, minted, crashes>>

Refused(p) ==
    /\ pc[p] = "verify"
    /\ ~Admits(p)
    /\ Leave(p)
    /\ UNCHANGED crashes

\* StateStore::open_with_profile_guarded builds a directory that is not there.
OpenStore(p) ==
    /\ pc[p] = "open"
    /\ dir = Absent
    /\ dir' = [id |-> ident[p], complete |-> TRUE]
    /\ UNCHANGED <<anchor, meta, history, quarantine, procVars, session, minted, crashes>>

Close(p) ==
    /\ pc[p] \in {"open", "offline"}
    /\ Leave(p)
    /\ UNCHANGED crashes

-----------------------------------------------------------------------------
(* Namespace::begin_maintenance and Maintenance::exclusive. *)
BeginMaintenance(p) ==
    \/ /\ pc[p] = "mowner"
       /\ Lock(p, "owner", "exclusive")
       /\ Goto(p, "madmission")
       /\ UNCHANGED <<durable, role, ident, expects, session, minted, crashes>>
    \/ /\ pc[p] = "madmission"
       /\ Lock(p, "admission", "exclusive")
       /\ Goto(p, IF role[p] = "replay" THEN "intent" ELSE "exclusive")
       /\ UNCHANGED <<durable, role, ident, expects, session, minted, crashes>>

\* Faulty: the directory is taken over without waiting for its open handles.
ExclusiveUnlocked(p) ==
    /\ pc[p] = "exclusive"
    /\ UNCHANGED <<meta, minted, held>>
    /\ ident' = [ident EXCEPT ![p] = meta.id]
    /\ Goto(p, IF role[p] = "replay" THEN "quarantine" ELSE "offline")
    /\ UNCHANGED <<anchor, history, dir, quarantine, role, expects, session, crashes>>

Exclusive(p) ==
    /\ pc[p] = "exclusive"
    /\ Lock(p, "lifecycle", "exclusive")
    /\ \/ meta # NoMeta /\ UNCHANGED <<meta, minted>>
       \/ /\ meta = NoMeta
          /\ minted < MaxIdents
          /\ meta' = [phase |-> "ready", id |-> minted + 1, op |-> NoIdent]
          /\ Mint
    /\ ident' = [ident EXCEPT ![p] = meta'.id]
    /\ Goto(p, IF role[p] = "replay" THEN "quarantine" ELSE "offline")
    /\ UNCHANGED <<anchor, history, dir, quarantine, role, expects, session, crashes>>

-----------------------------------------------------------------------------
(* start_replay_session. *)
\* Faulty: a new intent overwrites what an interrupted recovery left.
RecordIntentForgetful(p) ==
    /\ pc[p] = "intent"
    /\ minted < MaxIdents
    /\ meta' = [phase |-> "fencing", op |-> minted + 1,
                id |-> IF meta = NoMeta THEN minted + 1 ELSE meta.id]
    /\ Mint
    /\ Goto(p, "fence")
    /\ UNCHANGED <<anchor, history, dir, quarantine, held, role, ident, expects, session, crashes>>

\* Maintenance::record_intent, persisted before the fencing RPC.  The session
\* UUID is minted here; the identity of an unfinished recovery goes to history.
RecordIntent(p) ==
    /\ pc[p] = "intent"
    /\ minted < MaxIdents
    /\ history' = IF meta.phase \in {"ready", "missing"} THEN history ELSE history \cup {meta.id}
    /\ meta' = [phase |-> "fencing", op |-> minted + 1,
                id |-> IF meta = NoMeta THEN minted + 1 ELSE meta.id]
    /\ Mint
    /\ Goto(p, "fence")
    /\ UNCHANGED <<anchor, dir, quarantine, held, role, ident, expects, session, crashes>>

\* The coordinator fences every older session of the node.
OpenReplaySession(p) ==
    /\ pc[p] = "fence"
    /\ session' = meta.op
    /\ Goto(p, "exclusive")
    /\ UNCHANGED <<durable, held, role, ident, expects, minted, crashes>>

\* quarantine_replay_state: the directory is renamed and its parent synced.
Quarantine(p) ==
    /\ pc[p] = "quarantine"
    /\ quarantine' = IF dir = Absent THEN quarantine ELSE quarantine \cup {dir.id}
    /\ dir' = Absent
    /\ Goto(p, "session")
    /\ UNCHANGED <<anchor, meta, history, held, role, ident, expects, session, minted, crashes>>

\* initialize_session: the identity changes under the exclusive lifecycle lock.
InitializeSession(p) ==
    /\ pc[p] = "session"
    /\ minted < MaxIdents
    /\ meta' = [phase |-> "initializing", id |-> minted + 1, op |-> meta.op]
    /\ Mint
    /\ ident' = [ident EXCEPT ![p] = minted + 1]
    /\ Goto(p, "build")
    /\ UNCHANGED <<anchor, history, dir, quarantine, held, role, expects, session, crashes>>

\* The journal is created, then every retained allocation is imported and the
\* recovery snapshot written.
Build(p) ==
    /\ \/ pc[p] = "build"
          /\ dir' = [id |-> ident[p], complete |-> FALSE]
          /\ Goto(p, "import")
       \/ pc[p] = "import"
          /\ dir' = [dir EXCEPT !.complete = TRUE]
          /\ Goto(p, "await")
    /\ UNCHANGED <<anchor, meta, history, quarantine, held, role, ident, expects, session,
                   minted, crashes>>

\* Faulty: the namespace is declared ready before the journal is rebuilt.
AwaitReadinessEarly(p) ==
    /\ pc[p] \in {"build", "await"}
    /\ meta' = [meta EXCEPT !.phase = IF pc[p] = "build" THEN "ready" ELSE "awaiting_readiness"]
    /\ Goto(p, IF pc[p] = "build" THEN "import" ELSE "heartbeat")
    /\ dir' = IF pc[p] = "build" THEN [id |-> ident[p], complete |-> FALSE] ELSE dir
    /\ UNCHANGED <<anchor, history, quarantine, held, role, ident, expects, session, minted, crashes>>

\* Faulty: records a phase no reader of the metadata knows.
AwaitReadinessMisspelt(p) ==
    /\ pc[p] = "await"
    /\ meta' = [meta EXCEPT !.phase = "awaiting"]
    /\ Goto(p, "heartbeat")
    /\ UNCHANGED <<anchor, history, dir, quarantine, held, role, ident, expects, session, minted, crashes>>

AwaitReadiness(p) ==
    /\ pc[p] = "await"
    /\ meta' = [meta EXCEPT !.phase = "awaiting_readiness"]
    /\ Goto(p, "heartbeat")
    /\ UNCHANGED <<anchor, history, dir, quarantine, held, role, ident, expects, session, minted, crashes>>

\* The coordinator acknowledges readiness only to the session it fenced to.
Heartbeat(p) ==
    /\ pc[p] = "heartbeat"
    /\ session = meta.op
    /\ Goto(p, "activate")
    /\ UNCHANGED <<durable, held, role, ident, expects, session, minted, crashes>>

(* Maintenance::activate: ready, lifecycle released, taken again shared while  *)
(* admission stays exclusive, and only then admission given back.              *)

Activate(p) ==
    \/ /\ pc[p] = "activate"
       /\ meta' = [meta EXCEPT !.phase = "ready"]
       /\ Goto(p, "drop")
       /\ UNCHANGED <<anchor, history, dir, quarantine, held, role, ident, expects, session,
                      minted, crashes>>
    \/ /\ pc[p] = "drop"
       /\ held' = Unlocked(p, "lifecycle")
       /\ Goto(p, "relock")
       /\ UNCHANGED <<durable, role, ident, expects, session, minted, crashes>>
    \/ /\ pc[p] = "relock"
       /\ Lock(p, "lifecycle", "shared")
       /\ Goto(p, "confirm")
       /\ UNCHANGED <<durable, role, ident, expects, session, minted, crashes>>
    \/ /\ pc[p] = "confirm"
       /\ meta.phase = "ready" /\ meta.id = ident[p]
       /\ held' = Unlocked(p, "admission")
       /\ Goto(p, "open")
       /\ UNCHANGED <<durable, role, ident, expects, session, minted, crashes>>

-----------------------------------------------------------------------------
\* A lock that stays taken past the timeout is an error: the process gives up.
LockOf(step) ==
    CASE step \in {"owner", "mowner"} -> "owner"
      [] step \in {"admission", "reopen", "madmission"} -> "admission"
      [] OTHER -> "lifecycle"
ModeOf(step) == IF step \in {"admission", "lifecycle", "relock"} THEN "shared" ELSE "exclusive"

Timeout(p) ==
    /\ pc[p] \in Waiting
    /\ ~CanLock(p, LockOf(pc[p]), ModeOf(pc[p]))
    /\ Leave(p)
    /\ UNCHANGED crashes

\* A process dies, or an RPC of the recovery fails and the process ends.
Crash(p) ==
    /\ pc[p] # "idle"
    /\ crashes < MaxCrashes
    /\ crashes' = crashes + 1
    /\ Leave(p)

Step(p) ==
    \/ Owner(p) \/ AcquireAdmission(p) \/ Peek(p) \/ ReopenAdmission(p) \/ WriteInitial(p)
    \/ AcquireLifecycle(p) \/ Verify(p) \/ Refused(p) \/ OpenStore(p)
    \/ BeginMaintenance(p) \/ Exclusive(p) \/ RecordIntent(p) \/ OpenReplaySession(p)
    \/ Quarantine(p) \/ InitializeSession(p) \/ Build(p) \/ AwaitReadiness(p)
    \/ Heartbeat(p) \/ Activate(p) \/ Timeout(p)

Next ==
    \E p \in Procs : \/ New(p) \/ Step(p) \/ Close(p) \/ Crash(p)
                     \/ \E q \in Procs : Launch(p, q)

Spec == Init /\ [][Next]_vars

-----------------------------------------------------------------------------
TypeOK ==
    /\ anchor \in BOOLEAN
    /\ meta \in [phase : Phases, id : Idents \cup {NoIdent}, op : Idents \cup {NoIdent}]
    /\ history \subseteq Idents
    /\ dir \in [id : Idents \cup {NoIdent}, complete : BOOLEAN]
    /\ quarantine \subseteq Idents
    /\ held \in [Locks -> [Procs -> Modes]]
    /\ pc \in [Procs -> Steps]
    /\ role \in [Procs -> Roles]
    /\ ident \in [Procs -> Idents \cup {NoIdent}]
    /\ expects \in [Procs -> Idents \cup {NoIdent}]
    /\ session \in Idents \cup {NoIdent}
    /\ minted \in 0..MaxIdents
    /\ crashes \in 0..MaxCrashes

\* A process that has the data open works under the identity that is current:
\* no recovery replaces the directory, and no second process mints another
\* identity, below an open guard (acquire, exclusive, initialize_session).
OpenIsCurrent == \A p \in Procs : pc[p] = "open" => ident[p] = meta.id

\* Whoever has the data open finds a directory a recovery finished building,
\* or none at all: a crash at any stage leaves the node non-ready.
OpenIsComplete ==
    \A p \in Procs : pc[p] = "open" => dir = Absent \/ (dir.complete /\ dir.id = meta.id)

\* While one process moves, rebuilds or copies the directory, no other has it open.
ReplacementIsAlone ==
    \A p, q \in Procs :
        /\ p # q
        /\ pc[p] \in {"offline", "quarantine", "session", "build", "import", "await",
                      "heartbeat", "activate", "drop"}
        => pc[q] \notin {"open", "offline", "quarantine", "session", "build", "import", "await",
                         "heartbeat", "activate", "drop"}

\* One service owns the node: no second agent or recovery runs beside an open
\* one, also across the hand-over from maintenance to service (activate).
OneService ==
    \A p, q \in Procs :
        /\ p # q
        /\ role[p] \in {"agent", "replay"} /\ role[q] \in {"agent", "replay"}
        => ~(pc[p] = "open" /\ pc[q] \in {"open", "admission", "peek", "verify"} \cup Recovering)

\* Nobody waits in a circle: a process blocked at a lock waits for holders that
\* either run or are blocked at a later lock of the order owner, admission,
\* lifecycle (begin_maintenance, acquire, activate).
Rank(l) == CASE l = "owner" -> 1 [] l = "admission" -> 2 [] OTHER -> 3
Blocks(q, p) ==
    /\ pc[p] \in Waiting
    /\ LET l == LockOf(pc[p]) IN
       /\ held[l][q] # "none"
       /\ ~(ModeOf(pc[p]) = "shared" /\ held[l][q] = "shared")
NoWaitCycle ==
    \A p, q \in Procs :
        p # q /\ Blocks(q, p) /\ pc[q] \in Waiting => Rank(LockOf(pc[p])) < Rank(LockOf(pc[q]))

\* A recovery that was abandoned leaves its identity in the history, and the
\* directory it built in quarantine or in place: nothing a session wrote is
\* overwritten by the next (a condition on steps).
KeepsAbandoned ==
    /\ meta'.phase = "fencing" /\ meta' # meta /\ meta.phase \notin {"ready", "missing"}
         => meta.id \in history'
    /\ dir # Absent /\ dir'.id # dir.id => dir.id \in quarantine'
=============================================================================
