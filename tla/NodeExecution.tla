--------------------------- MODULE NodeExecution ---------------------------
(***************************************************************************)
(* Execution on one node: the local journal (execution_state.rs and        *)
(* managed_children.rs), the assignment supervisors that write it          *)
(* (supervision.rs, child_supervision.rs), the agent that launches them    *)
(* and reconciles what it does not own (agent.rs), and the processes of    *)
(* the operating system, which live and die on their own.                  *)
(*                                                                         *)
(* A supervisor is a process of its own: it survives its agent, and its    *)
(* workload survives it.  Every journal write is one transaction; a write  *)
(* the journal refuses is an error of the writer, as is any failed system  *)
(* call, so the actions below are the accepted writes, and Fail,           *)
(* FailChild and AbortPass are the errors.                                 *)
(*                                                                         *)
(* A process identity (pid, boot, start time) is unique per spawn, so the  *)
(* boot it was spawned in identifies the one process of an assignment or   *)
(* of a child; 0 stands for no identity.                                   *)
(***************************************************************************)
EXTENDS Resources

CONSTANTS
    Assignments,    \* assignments the coordinator may offer to this node
    TaskOf, Generation,
    Need,           \* requested resources
    ReplaySafe, Opportunistic,  \* assignments whose launch request says so
    ChildLimit,     \* managed_child_limit, 0 for a single process
    Requests,       \* request ids a leader uses for its children
    Budget,         \* the node's capacity
    Profiles,       \* nodes to consider: the storage profile, replayable if the
                    \* journal may be lost, the assignments offered to it, and a
                    \* bound on its boots
    MaxBoot         \* bounds the boots of every node

Children == {c \in Assignments \X Requests : ChildLimit[c[1]] > 0}
ParentOf(c) == c[1]
ChildrenOf(a) == {c \in Children : ParentOf(c) = a}

ExecutionPhases == {"none", "reserved", "prepared", "authorized", "running",
                    "draining", "needs_reconciliation", "released"}
ProcessStates == {"none", "gate", "user", "dead"}
Marks == {"missing_prepared", "unauthorized", "unknown_children"}
SupervisorSteps == {"none", "starting", "reserved", "gated", "identified",
                    "prepared", "granted", "authorized", "sent", "running",
                    "draining", "failing", "cleaning", "exited"}
MediatedPhases == {"none", "reserved", "prepared", "authorized", "sent",
                   "running", "draining", "uncertain", "lost", "released"}

ASSUME RequestAssumption ==
    /\ IsFiniteSet(Assignments) /\ IsFiniteSet(Requests)
    /\ Generation \in [Assignments -> Nat \ {0}]
    /\ DOMAIN TaskOf = Assignments
    /\ Need \in [Assignments -> Vector] /\ Budget \in Vector
    /\ ReplaySafe \subseteq Assignments /\ Opportunistic \subseteq Assignments
    /\ ChildLimit \in [Assignments -> 0..8]
    /\ MaxBoot \in Nat \ {0}
    /\ Profiles \subseteq [replayable : BOOLEAN, offered : SUBSET Assignments,
                            boots : 1..MaxBoot]

VARIABLES
    record,     \* executions: phase, identity and recovery marks
    family,     \* managed_children: phase and identity
    tasks,      \* tasks: generation and whether it is assigned or fenced
    sup,        \* what each supervisor is about to do, and knows
    mediated,   \* the in-memory phase of each child of a supervisor
    leader,     \* the process of an assignment
    worker,     \* the process of a managed child
    boot,       \* the current boot
    profile,    \* which node this is, fixed by its configuration
    agent,      \* "down", "importing", "reconciling" or "up"
    slots,      \* assignments whose supervisor this agent owns
    pass,       \* the reconciliation in progress
    toImport,   \* allocations of the recovery snapshot still to import
    open,       \* the coordinator's row: "none", "open" or "closed"
    registered, \* the process identity it recorded, 0 for none
    leased      \* assignments it granted a lease

journal == <<record, family, tasks>>
owner == <<sup, mediated>>
processes == <<leader, worker>>
host == <<boot, profile>>
service == <<agent, slots, pass, toImport>>
remote == <<open, registered, leased>>
vars == <<journal, owner, processes, host, service, remote>>

NoRecord == [phase |-> "none", identity |-> 0, marks |-> {}]
NoChild == [phase |-> "none", identity |-> 0]
NoTask == [status |-> "queued", generation |-> 0]
NoSupervisor == [step |-> "none", identity |-> 0, drain |-> FALSE,
                 seen |-> FALSE, clean |-> TRUE]
Idle == [on |-> FALSE, at |-> {}, left |-> {}, kids |-> {}, released |-> FALSE,
         snapshot |-> [a \in Assignments |-> NoRecord]]

Replayable == profile.replayable

Tasks == {TaskOf[a] : a \in Assignments}

Init ==
    /\ record = [a \in Assignments |-> NoRecord]
    /\ family = [c \in Children |-> NoChild]
    /\ tasks = [t \in Tasks |-> NoTask]
    /\ sup = [a \in Assignments |-> NoSupervisor]
    /\ mediated = [c \in Children |-> "none"]
    /\ leader = [a \in Assignments |-> "none"]
    /\ worker = [c \in Children |-> "none"]
    /\ boot = 1 /\ profile \in Profiles
    /\ agent = "down" /\ slots = {} /\ pass = Idle /\ toImport = {}
    /\ open = [a \in Assignments |-> "none"]
    /\ registered = [a \in Assignments |-> 0] /\ leased = {}

-----------------------------------------------------------------------------
(* The journal.                                                            *)

Held(a) == record[a].phase \notin {"none", "released"}
HeldChildren(a) == {c \in ChildrenOf(a) :
                      family[c].phase \notin {"none", "released"}}

\* Faulty: a late writer may reopen a released record.
FollowsReopened(phase) ==
    IF phase = "none" THEN {} ELSE ExecutionPhases \ {"none", "reserved"}

\* A released record may only be written again as released.
Follows(phase) ==
    CASE phase = "reserved" -> {"prepared", "needs_reconciliation", "released"}
      [] phase = "prepared" -> {"authorized", "needs_reconciliation", "released"}
      [] phase = "authorized" -> {"running", "draining",
                                  "needs_reconciliation", "released"}
      [] phase = "running" -> {"draining", "needs_reconciliation", "released"}
      [] phase \in {"draining", "needs_reconciliation"} ->
           {"needs_reconciliation", "released"}
      [] phase = "released" -> {"released"}
      [] OTHER -> {}

\* Leader absence proves nothing about an incompletely known family.
Incomplete(marks) == marks \cap {"unauthorized", "unknown_children"} # {}

\* Faulty: a parent is released over its children.
MayReleaseAlone(a, new) == "missing_prepared" \notin new.marks

\* What the journal demands of a release.
MayRelease(a, new) ==
    /\ "missing_prepared" \notin new.marks
    /\ (\/ /\ Replayable /\ ChildLimit[a] > 0
           /\ record[a].phase = "needs_reconciliation"
        \/ Incomplete(new.marks))
         => record[a].identity \notin {0, boot}
    /\ HeldChildren(a) = {}

\* StateStore::transition accepts the record new.
Accepts(a, new) ==
    /\ new.phase \in Follows(record[a].phase)
    /\ record[a].identity # 0 => new.identity = record[a].identity
    /\ new.phase \in {"prepared", "authorized", "running"} => new.identity # 0
    /\ record[a].marks \subseteq new.marks
    /\ new.phase = "released" => MayRelease(a, new)

ChildFollows(phase) ==
    {phase} \cup
    CASE phase = "reserved" -> {"prepared", "needs_reconciliation", "released"}
      [] phase = "prepared" -> {"authorized", "needs_reconciliation", "released"}
      [] phase = "authorized" -> {"running", "draining",
                                  "needs_reconciliation", "released"}
      [] phase = "running" -> {"draining", "needs_reconciliation", "released"}
      [] phase = "draining" -> {"needs_reconciliation", "released"}
      [] phase = "needs_reconciliation" -> {"released"}
      [] OTHER -> {}

ParentAuthorizes(c) == record[ParentOf(c)].phase \in {"authorized", "running"}

\* transition_managed_child accepts the phase.
ChildAccepts(c, phase) ==
    /\ phase \in ChildFollows(family[c].phase)
    /\ phase \in {"authorized", "running"} =>
         family[c].identity # 0 /\ ParentAuthorizes(c)

-----------------------------------------------------------------------------
(* A supervisor, from its reservation to EXEC.                             *)

At(a, step) == sup[a].step = step
Goto(a, step) == sup' = [sup EXCEPT ![a].step = step]
Alive(a) == sup[a].step \notin {"none", "exited"}

\* The supervisors of A end, and what they knew is gone.
Exit(A) ==
    /\ sup' = [a \in Assignments |-> IF a \in A
                 THEN [NoSupervisor EXCEPT !.step = "exited"] ELSE sup[a]]
    /\ mediated' = [c \in Children |-> IF ParentOf(c) \in A THEN "none"
                                       ELSE mediated[c]]

\* The record the supervisor of a would write.  A supervisor never marks a recovery.
Write(a, phase) == [phase |-> phase, identity |-> sup[a].identity, marks |-> {}]

\* The supervisor writes phase, and goes on from there.
Journals(a, phase) ==
    /\ Accepts(a, Write(a, phase))
    /\ record' = [record EXCEPT ![a] = Write(a, phase)]
    /\ Goto(a, phase)

\* Faulty: a reservation in doubt is no longer charged.
ChargedCertain ==
    Total(LAMBDA a : Need[a],
          {a \in Assignments : Held(a) /\ record[a].phase # "needs_reconciliation"})

Charged == Total(LAMBDA a : Need[a], {a \in Assignments : Held(a)})

\* Faulty: an attempt in doubt does not keep the next one out.
ReservableOverDoubt(a) ==
    /\ record[a].phase = "none"
    /\ \A b \in Assignments :
         Held(b) /\ TaskOf[b] = TaskOf[a] => record[b].phase = "needs_reconciliation"
    /\ FitsRequested(Add(Charged, Need[a]), Budget, Need[a])
    /\ Generation[a] > tasks[TaskOf[a]].generation

(***************************************************************************)
(* reserve_generation.  A retained reservation of the same task, in any    *)
(* unreleased phase, keeps a newer generation out.                         *)
(***************************************************************************)
Reservable(a) ==
    LET task == tasks[TaskOf[a]] IN
    /\ Replayable => a \in ReplaySafe /\ a \in Opportunistic
    /\ record[a].phase = "none"
    /\ \A b \in Assignments : Held(b) => TaskOf[b] # TaskOf[a]
    /\ FitsRequested(Add(Charged, Need[a]), Budget, Need[a])
    /\ Generation[a] > task.generation
    /\ task.status = "queued" \/ (a \in ReplaySafe /\ task.status = "assigned")

Reserve(a) ==
    /\ At(a, "starting") /\ Reservable(a)
    /\ record' = [record EXCEPT ![a].phase = "reserved"]
    /\ tasks' = [tasks EXCEPT ![TaskOf[a]] =
                   [status |-> "assigned", generation |-> Generation[a]]]
    /\ Goto(a, "reserved")
    /\ UNCHANGED <<family, mediated, processes, host, service, remote>>

ReserveRefused(a) ==
    /\ At(a, "starting") /\ ~Reservable(a)
    /\ Exit({a})
    /\ UNCHANGED <<journal, processes, host, service, remote>>

SpawnGate(a) ==
    /\ At(a, "reserved")
    /\ leader' = [leader EXCEPT ![a] = "gate"]
    /\ Goto(a, "gated")
    /\ UNCHANGED <<journal, mediated, worker, host, service, remote>>

\* Faulty: the gate's claim is not compared with the owned process.
IdentifyUnverified(a) ==
    /\ At(a, "gated") /\ leader[a] = "gate"
    /\ \E claim \in boot..(boot + 1) :
         sup' = [sup EXCEPT ![a].step = "identified", ![a].identity = claim]
    /\ UNCHANGED <<journal, mediated, processes, host, service, remote>>

\* The gate's claim matches the identity of the owned, unreaped process.
Identify(a) ==
    /\ At(a, "gated") /\ leader[a] = "gate"
    /\ sup' = [sup EXCEPT ![a].step = "identified", ![a].identity = boot]
    /\ UNCHANGED <<journal, mediated, processes, host, service, remote>>

WritePrepared(a) ==
    /\ At(a, "identified")
    /\ Journals(a, "prepared")
    /\ UNCHANGED <<family, tasks, mediated, processes, host, service, remote>>

(***************************************************************************)
(* PipeControl::prepared: the agent passes the identity on, also when the  *)
(* supervisor has given up waiting; the coordinator records it and may or  *)
(* may not grant a lease, and the answer may be lost.                      *)
(***************************************************************************)
Register(a, granted) ==
    /\ agent = "up" /\ pass = Idle /\ a \in slots /\ open[a] = "open"
    /\ Alive(a) /\ record[a].phase = "prepared"
    /\ registered' = [registered EXCEPT ![a] = sup[a].identity]
    /\ leased' = IF granted THEN leased \cup {a} ELSE leased
    /\ UNCHANGED <<journal, owner, processes, host, service, open>>

Grant(a) ==
    /\ At(a, "prepared") /\ agent = "up" /\ a \in slots
    /\ a \in leased
    /\ Goto(a, "granted")
    /\ UNCHANGED <<journal, mediated, processes, host, service, remote>>

WriteAuthorized(a) ==
    /\ At(a, "granted")
    /\ Journals(a, "authorized")
    /\ UNCHANGED <<family, tasks, mediated, processes, host, service, remote>>

\* Faulty: EXEC is sent before the authorization is journalled.
SendExecEarly(a) ==
    /\ sup[a].step \in {"granted", "authorized"} /\ leader[a] = "gate"
    /\ leader' = [leader EXCEPT ![a] = "user"]
    /\ Goto(a, IF At(a, "granted") THEN "granted" ELSE "sent")
    /\ UNCHANGED <<journal, mediated, worker, host, service, remote>>

\* EXEC is in the pipe; user code counts as running from here.
SendExec(a) ==
    /\ At(a, "authorized") /\ leader[a] = "gate"
    /\ leader' = [leader EXCEPT ![a] = "user"]
    /\ Goto(a, "sent")
    /\ UNCHANGED <<journal, mediated, worker, host, service, remote>>

WriteRunning(a) ==
    /\ At(a, "sent")
    /\ Journals(a, "running")
    /\ UNCHANGED <<family, tasks, mediated, processes, host, service, remote>>

-----------------------------------------------------------------------------
(* The loop of a supervisor.                                               *)

Looping(a) == sup[a].step \in {"running", "draining"}

\* A drain command, agent loss, local policy or the end of the lease.
AskDrain(a) ==
    /\ Looping(a) /\ ~sup[a].drain
    /\ sup' = [sup EXCEPT ![a].drain = TRUE]
    /\ UNCHANGED <<journal, mediated, processes, host, service, remote>>

WriteDraining(a) ==
    /\ At(a, "running") /\ sup[a].drain
    /\ Journals(a, "draining")
    /\ UNCHANGED <<family, tasks, mediated, processes, host, service, remote>>

ObserveExit(a) ==
    /\ Looping(a) /\ leader[a] = "dead" /\ ~sup[a].seen
    /\ sup' = [sup EXCEPT ![a].seen = TRUE]
    /\ UNCHANGED <<journal, mediated, processes, host, service, remote>>

\* The leader is reaped and every child this supervisor started released.
Finish(a) ==
    /\ Looping(a) /\ sup[a].seen
    /\ \A c \in ChildrenOf(a) : mediated[c] \in {"none", "released"}
    /\ Accepts(a, Write(a, "released"))
    /\ record' = [record EXCEPT ![a] = Write(a, "released")]
    /\ Exit({a})
    /\ UNCHANGED <<family, tasks, processes, host, service, remote>>

\* Any error after the reservation.
Fail(a) ==
    /\ Alive(a) /\ sup[a].step \notin {"starting", "failing", "cleaning"}
    /\ Goto(a, "failing")
    /\ UNCHANGED <<journal, mediated, processes, host, service, remote>>

\* kill_and_confirm: a confirmed kill means the process is gone.
AfterKill(P, x, confirmed) ==
    IF confirmed /\ P[x] # "none" THEN [P EXCEPT ![x] = "dead"] ELSE P

CleanupLeader(a, confirmed) ==
    /\ At(a, "failing")
    /\ leader' = AfterKill(leader, a, confirmed)
    /\ sup' = [sup EXCEPT ![a].step = "cleaning",
                          ![a].clean = confirmed \/ leader[a] = "none"]
    /\ UNCHANGED <<journal, mediated, worker, host, service, remote>>

\* A refused write ends the cleanup: the children left are given up.
CleanupChild(c, confirmed) ==
    LET a == ParentOf(c)
        phase == IF confirmed THEN "released" ELSE "needs_reconciliation"
        unfinished == {d \in ChildrenOf(a) :
                         mediated[d] \notin {"none", "released", "lost"}}
    IN
    /\ At(a, "cleaning") /\ c \in unfinished
    /\ worker' = AfterKill(worker, c, confirmed)
    /\ IF ChildAccepts(c, phase)
       THEN /\ family' = [family EXCEPT ![c].phase = phase]
            /\ mediated' = [mediated EXCEPT ![c] = IF confirmed THEN "released"
                                                   ELSE "lost"]
            /\ sup' = [sup EXCEPT ![a].clean = @ /\ confirmed]
       ELSE /\ mediated' = [d \in Children |-> IF d \in unfinished THEN "lost"
                                               ELSE mediated[d]]
            /\ sup' = [sup EXCEPT ![a].clean = FALSE]
            /\ UNCHANGED family
    /\ UNCHANGED <<record, tasks, leader, host, service, remote>>

\* Faulty: a refused write leaves the supervisor waiting.
CleanupRecordInsists(a, confirmed) ==
    LET new == Write(a, IF sup[a].clean /\ confirmed THEN "released"
                        ELSE "needs_reconciliation")
    IN
    /\ At(a, "cleaning") /\ Accepts(a, new)
    /\ \A c \in ChildrenOf(a) : mediated[c] \in {"none", "released", "lost"}
    /\ record' = [record EXCEPT ![a] = new]
    /\ Exit({a})
    /\ UNCHANGED <<family, tasks, processes, host, service, remote>>

(***************************************************************************)
(* The last write of the error path: released only when every kill and the *)
(* backend and GPU release were confirmed.  When the journal refuses it,   *)
(* the reservation stays as it was.                                        *)
(***************************************************************************)
CleanupRecord(a, confirmed) ==
    LET new == Write(a, IF sup[a].clean /\ confirmed THEN "released"
                        ELSE "needs_reconciliation")
    IN
    /\ At(a, "cleaning")
    /\ \A c \in ChildrenOf(a) : mediated[c] \in {"none", "released", "lost"}
    /\ record' = IF Accepts(a, new) THEN [record EXCEPT ![a] = new] ELSE record
    /\ Exit({a})
    /\ UNCHANGED <<family, tasks, processes, host, service, remote>>

-----------------------------------------------------------------------------
(* Managed children, one poll of the supervisor at a time.                 *)

\* authorize_child: checked before a child is created and before its EXEC.
\* The leader may end between the check and its use.
Authorizes(a) == At(a, "running") /\ ~sup[a].drain /\ ~sup[a].seen

Created(a) == {c \in ChildrenOf(a) : mediated[c] # "none"}

\* reserve_managed_child, after the supervisor's own lifetime limit.
ChildReservable(c) ==
    LET a == ParentOf(c) IN
    /\ family[c].phase = "none"
    /\ ParentAuthorizes(c)
    /\ Cardinality(Created(a)) < ChildLimit[a]
    /\ Cardinality(HeldChildren(a)) < ChildLimit[a]

\* A gate that could not be spawned releases its child at once.
CreateChild(c, spawned) ==
    /\ Authorizes(ParentOf(c)) /\ ChildReservable(c)
    /\ family' = [family EXCEPT ![c].phase = IF spawned THEN "reserved"
                                             ELSE "released"]
    /\ IF spawned
       THEN /\ worker' = [worker EXCEPT ![c] = "gate"]
            /\ mediated' = [mediated EXCEPT ![c] = "reserved"]
       ELSE UNCHANGED <<worker, mediated>>
    /\ UNCHANGED <<record, tasks, sup, leader, host, service, remote>>

\* The supervisor ticks its child: the phase is journalled, then remembered.
TicksChild(c, phase) ==
    /\ Looping(ParentOf(c))
    /\ ChildAccepts(c, phase)
    /\ family' = [family EXCEPT ![c].phase = phase]
    /\ mediated' = [mediated EXCEPT ![c] = phase]
    /\ UNCHANGED <<record, tasks, sup, processes, host, service, remote>>

\* The parent accepted children when this poll began; a drain or an exit
\* noticed since by the launch of another child does not revoke it.
PrepareChild(c) ==
    /\ At(ParentOf(c), "running") /\ mediated[c] = "reserved" /\ worker[c] = "gate"
    /\ family[c].phase = "reserved" /\ ParentAuthorizes(c)
    /\ record[ParentOf(c)].identity = boot
    /\ family' = [family EXCEPT ![c] = [phase |-> "prepared", identity |-> boot]]
    /\ mediated' = [mediated EXCEPT ![c] = "prepared"]
    /\ UNCHANGED <<record, tasks, sup, processes, host, service, remote>>

AuthorizeChild(c) ==
    /\ At(ParentOf(c), "running") /\ mediated[c] = "prepared"
    /\ TicksChild(c, "authorized")

ExecChild(c) ==
    /\ Authorizes(ParentOf(c))
    /\ mediated[c] = "authorized" /\ worker[c] = "gate"
    /\ worker' = [worker EXCEPT ![c] = "user"]
    /\ mediated' = [mediated EXCEPT ![c] = "sent"]
    /\ UNCHANGED <<journal, sup, leader, host, service, remote>>

RunChild(c) == mediated[c] = "sent" /\ TicksChild(c, "running")

\* On an explicit stop, or when the parent no longer accepts children.
DrainChild(c) == mediated[c] = "running" /\ TicksChild(c, "draining")

ReapChild(c) ==
    /\ worker[c] = "dead" /\ mediated[c] \notin {"none", "released"}
    /\ TicksChild(c, "released")

\* A tick that fails kills its child; one not confirmed gone fails the parent.
FailChild(c, confirmed) ==
    LET phase == IF confirmed THEN "released" ELSE "needs_reconciliation" IN
    /\ Looping(ParentOf(c)) /\ mediated[c] \notin {"none", "released"}
    /\ worker' = AfterKill(worker, c, confirmed)
    /\ ChildAccepts(c, phase)
    /\ family' = [family EXCEPT ![c].phase = phase]
    /\ mediated' = [mediated EXCEPT ![c] = IF confirmed THEN "released"
                                           ELSE "uncertain"]
    /\ IF confirmed THEN UNCHANGED sup ELSE Goto(ParentOf(c), "failing")
    /\ UNCHANGED <<record, tasks, leader, host, service, remote>>

-----------------------------------------------------------------------------
(* Processes and failures.                                                 *)

\* A process may end at any time; a blocked gate ends when its input closes.
LeaderExit(a) ==
    /\ leader[a] \in {"gate", "user"}
    /\ leader' = [leader EXCEPT ![a] = "dead"]
    /\ UNCHANGED <<journal, owner, worker, host, service, remote>>

WorkerExit(c) ==
    /\ worker[c] \in {"gate", "user"}
    /\ worker' = [worker EXCEPT ![c] = "dead"]
    /\ UNCHANGED <<journal, owner, leader, host, service, remote>>

SupervisorCrash(a) ==
    /\ Alive(a)
    /\ Exit({a})
    /\ UNCHANGED <<journal, processes, host, service, remote>>

StopAgent == agent' = "down" /\ slots' = {} /\ pass' = Idle /\ toImport' = {}

AgentCrash ==
    /\ agent # "down" /\ StopAgent
    /\ UNCHANGED <<journal, owner, processes, host, remote>>

Ended(P) == [x \in DOMAIN P |-> IF P[x] = "none" THEN "none" ELSE "dead"]

Reboot ==
    /\ boot < profile.boots /\ boot' = boot + 1
    /\ Exit({a \in Assignments : Alive(a)})
    /\ leader' = Ended(leader) /\ worker' = Ended(worker)
    /\ StopAgent
    /\ UNCHANGED <<journal, profile, remote>>

-----------------------------------------------------------------------------
(* The agent: launch, report, reconciliation and recovery.                 *)

Offer(a) ==
    /\ agent = "up" /\ pass = Idle /\ open[a] = "none"
    /\ a \in profile.offered
    /\ open' = [open EXCEPT ![a] = "open"]
    /\ UNCHANGED <<journal, owner, processes, host, service, registered, leased>>

Launch(a) ==
    /\ agent = "up" /\ pass = Idle
    /\ open[a] = "open" /\ At(a, "none") /\ record[a].phase = "none"
    /\ Goto(a, "starting")
    /\ slots' = slots \cup {a}
    /\ UNCHANGED <<journal, mediated, processes, host, agent, pass, toImport, remote>>

\* Faulty: a supervisor that left its record unreleased keeps its slot.
HarvestReleased(a) ==
    /\ agent = "up" /\ pass = Idle /\ a \in slots /\ At(a, "exited")
    /\ record[a].phase \in {"none", "released"}
    /\ slots' = slots \ {a}
    /\ UNCHANGED <<journal, owner, processes, host, agent, pass, toImport, remote>>

\* The agent saw the supervisor exit.  A replayable journal that has no row
\* for it may have lost one: the agent ends and recovers.
Harvest(a) ==
    /\ agent = "up" /\ pass = Idle /\ a \in slots /\ At(a, "exited")
    /\ Replayable => record[a].phase # "none"
    /\ slots' = slots \ {a}
    /\ UNCHANGED <<journal, owner, processes, host, agent, pass, toImport, remote>>

(***************************************************************************)
(* Without a row there is no way to EXEC, so an offer that was not         *)
(* launched, or whose supervisor exited without a row, is reported as      *)
(* released.  A supervisor of an earlier agent may still be about to       *)
(* reserve; its output directory refuses a second launch.                  *)
(***************************************************************************)
Refuse(a) ==
    /\ agent = "up" /\ pass = Idle /\ a \notin slots
    /\ open[a] = "open" /\ record[a].phase = "none"
    /\ open' = [open EXCEPT ![a] = "closed"]
    /\ UNCHANGED <<journal, owner, processes, host, service, registered, leased>>

\* A heartbeat reports a release and the coordinator records it.
Report(a) ==
    /\ agent = "up" /\ pass = Idle
    /\ open[a] = "open" /\ record[a].phase = "released"
    /\ open' = [open EXCEPT ![a] = "closed"]
    /\ UNCHANGED <<journal, owner, processes, host, service, registered, leased>>

\* reconcile_guarded reads all records once, then decides one at a time.
Reads(excluded) ==
    LET left == {a \in Assignments \ excluded : Held(a)} IN
    pass' = [Idle EXCEPT !.on = TRUE, !.left = left,
               !.snapshot = [a \in Assignments |-> IF a \in left THEN record[a]
                                                  ELSE NoRecord]]

\* Startup owns no supervisor: a survivor of the last agent is reconciled.
Start ==
    /\ ~Replayable /\ agent = "down"
    /\ agent' = "reconciling"
    /\ Reads({})
    /\ UNCHANGED <<journal, owner, processes, host, slots, toImport, remote>>

BeginPass ==
    /\ agent = "up" /\ pass = Idle /\ \E a \in Assignments \ slots : Held(a)
    /\ Reads(slots)
    /\ UNCHANGED <<journal, owner, processes, host, agent, slots, toImport, remote>>

\* identity_absent: another boot, or the process is gone or a zombie.
Absent(identity, state) == identity # 0 /\ (identity # boot \/ state = "dead")

\* The marks reconciliation writes: a replayable child registry is suspect.
MarksOf(a) ==
    pass.snapshot[a].marks \cup
      (IF Replayable /\ ChildLimit[a] > 0 THEN {"unknown_children"} ELSE {})

\* recovery_allows_release
RecoveryAllows(a) ==
    Incomplete(MarksOf(a)) => pass.snapshot[a].identity \notin {0, boot}

\* gpu: GpuReleaseGuard confirms that the process left the GPU.
ReconcileLeader(a, gpu) ==
    /\ pass.at = {} /\ a \in pass.left
    /\ pass' = [pass EXCEPT
         !.at = {a}, !.left = @ \ {a},
         !.released = /\ gpu /\ RecoveryAllows(a)
                      /\ Absent(pass.snapshot[a].identity, leader[a]),
         !.kids = {<<c, family[c].identity>> : c \in HeldChildren(a)}]
    /\ UNCHANGED <<journal, owner, processes, host, agent, slots, toImport, remote>>

Verdict(gone) == IF gone THEN "released" ELSE "needs_reconciliation"

ReconcileChild(kid, gpu) ==
    LET c == kid[1]
        gone == gpu /\ Absent(kid[2], worker[c])
    IN
    /\ kid \in pass.kids /\ ChildAccepts(c, Verdict(gone))
    /\ family' = [family EXCEPT ![c].phase = Verdict(gone)]
    /\ pass' = [pass EXCEPT !.kids = @ \ {kid}, !.released = @ /\ gone]
    /\ UNCHANGED <<record, tasks, owner, processes, host, agent, slots,
                   toImport, remote>>

\* The snapshot, not the current record, is written back.
Reconciled(a) == [phase |-> Verdict(pass.released),
                  identity |-> pass.snapshot[a].identity, marks |-> MarksOf(a)]

ReconcileRecord(a) ==
    /\ a \in pass.at /\ pass.kids = {} /\ Accepts(a, Reconciled(a))
    /\ record' = [record EXCEPT ![a] = Reconciled(a)]
    /\ pass' = [pass EXCEPT !.at = {}, !.released = FALSE,
                                   !.snapshot[a] = NoRecord]
    /\ UNCHANGED <<family, tasks, owner, processes, host, agent, slots,
                   toImport, remote>>

\* A write that the journal refuses ends the agent.
AbortPass ==
    /\ \/ \E kid \in pass.kids, gpu \in BOOLEAN :
             ~ChildAccepts(kid[1], Verdict(gpu /\ Absent(kid[2], worker[kid[1]])))
       \/ pass.kids = {} /\ \E a \in pass.at : ~Accepts(a, Reconciled(a))
    /\ StopAgent
    /\ UNCHANGED <<journal, owner, processes, host, remote>>

EndPass ==
    /\ pass.on /\ pass.at = {} /\ pass.left = {}
    /\ pass' = Idle /\ agent' = "up"
    /\ UNCHANGED <<journal, owner, processes, host, slots, toImport,
                   remote>>

\* The unreleased rows of this node in the coordinator's snapshot.
Inventory == {a \in Assignments : open[a] = "open"}

(***************************************************************************)
(* start_replay_session: with the namespace held exclusively no supervisor *)
(* is left, and one that had not joined yet will be refused.  The old      *)
(* journal is set aside and rebuilt from the coordinator's inventory.      *)
(***************************************************************************)
StartReplaySession ==
    /\ Replayable /\ agent = "down"
    /\ \A a \in Assignments : sup[a].step \in {"none", "starting", "exited"}
    /\ Exit({a \in Assignments : At(a, "starting")})
    /\ record' = [a \in Assignments |-> NoRecord]
    /\ family' = [c \in Children |-> NoChild]
    /\ tasks' = [t \in Tasks |-> NoTask]
    /\ agent' = "importing"
    /\ toImport' = Inventory
    /\ UNCHANGED <<processes, host, slots, pass, remote>>

ImportMarks(a) ==
    (IF registered[a] = 0 THEN {"missing_prepared"} ELSE {})
    \cup (IF a \notin leased THEN {"unauthorized"} ELSE {})
    \cup (IF ChildLimit[a] > 0 THEN {"unknown_children"} ELSE {})

\* import_replay_reservation
Import(a) ==
    LET t == TaskOf[a] IN
    /\ agent = "importing" /\ a \in toImport
    /\ record' = [record EXCEPT ![a] =
                    [phase |-> "needs_reconciliation",
                     identity |-> registered[a],
                     marks |-> ImportMarks(a)]]
    /\ tasks' = [tasks EXCEPT ![t] =
                   [status |-> IF a \in ReplaySafe THEN "assigned"
                               ELSE "needs_reconciliation",
                    generation |-> IF Generation[a] > @.generation
                                   THEN Generation[a] ELSE @.generation]]
    /\ toImport' = toImport \ {a}
    /\ UNCHANGED <<family, owner, processes, host, agent, slots, pass,
                   remote>>

EndImport ==
    /\ agent = "importing" /\ toImport = {}
    /\ agent' = "reconciling"
    /\ Reads({})
    /\ UNCHANGED <<journal, owner, processes, host, slots, toImport,
                   remote>>

-----------------------------------------------------------------------------
SupervisorNext(a) ==
    \/ Reserve(a) \/ ReserveRefused(a) \/ SpawnGate(a) \/ Identify(a)
    \/ WritePrepared(a) \/ Grant(a) \/ WriteAuthorized(a) \/ SendExec(a)
    \/ WriteRunning(a) \/ AskDrain(a) \/ WriteDraining(a) \/ ObserveExit(a)
    \/ Finish(a) \/ Fail(a)
    \/ \E confirmed \in BOOLEAN : CleanupLeader(a, confirmed)
                                 \/ CleanupRecord(a, confirmed)

ChildNext(c) ==
    \/ PrepareChild(c) \/ AuthorizeChild(c) \/ ExecChild(c) \/ RunChild(c)
    \/ DrainChild(c) \/ ReapChild(c)
    \/ \E flag \in BOOLEAN : CreateChild(c, flag) \/ FailChild(c, flag)
                            \/ CleanupChild(c, flag)

AgentNext ==
    \/ \E a \in Assignments :
         \/ Offer(a) \/ Launch(a) \/ Harvest(a) \/ Refuse(a)
         \/ Report(a)
         \/ ReconcileRecord(a) \/ Import(a)
         \/ \E flag \in BOOLEAN : Register(a, flag) \/ ReconcileLeader(a, flag)
    \/ \E kid \in pass.kids, gpu \in BOOLEAN : ReconcileChild(kid, gpu)
    \/ Start \/ BeginPass \/ AbortPass \/ EndPass
    \/ StartReplaySession \/ EndImport

HostNext ==
    \/ \E a \in Assignments : LeaderExit(a) \/ SupervisorCrash(a)
    \/ \E c \in Children : WorkerExit(c)
    \/ AgentCrash \/ Reboot

Next ==
    \/ \E a \in Assignments : SupervisorNext(a)
    \/ \E c \in Children : ChildNext(c)
    \/ AgentNext
    \/ HostNext

Spec == Init /\ [][Next]_vars

\* The service loop: exits are harvested and every heartbeat reconciles.
\* The GPU query may fail any number of times, but not for ever.
AgentFairness ==
    /\ WF_vars(BeginPass) /\ WF_vars(AbortPass) /\ WF_vars(EndPass)
    /\ \A a \in Assignments :
         /\ WF_vars(Harvest(a)) /\ WF_vars(ReconcileRecord(a))
         /\ SF_vars(ReconcileLeader(a, TRUE))
    /\ \A c \in Children :
         /\ WF_vars(ReconcileChild(<<c, 0>>, FALSE))
         /\ \A i \in 1..MaxBoot : SF_vars(ReconcileChild(<<c, i>>, TRUE))

\* A draining supervisor meets its kill deadline, and cleanup has deadlines.
SupervisorFairness ==
    /\ \A a \in Assignments :
         /\ WF_vars(sup[a].drain /\ Fail(a))
         /\ WF_vars(\E confirmed \in BOOLEAN :
                      CleanupLeader(a, confirmed) \/ CleanupRecord(a, confirmed))
    /\ \A c \in Children :
         WF_vars(\E confirmed \in BOOLEAN : CleanupChild(c, confirmed))

FairSpec == Spec /\ AgentFairness /\ SupervisorFairness

-----------------------------------------------------------------------------
(* Properties.                                                             *)

Records == [phase : ExecutionPhases, identity : 0..MaxBoot, marks : SUBSET Marks]

\* Every table and every process state stays within its type.
TypeOK ==
    /\ record \in [Assignments -> Records]
    /\ family \in [Children -> [phase : ExecutionPhases, identity : 0..MaxBoot]]
    /\ tasks \in [Tasks -> [status : {"queued", "assigned", "needs_reconciliation"},
                            generation : Nat]]
    /\ sup \in [Assignments -> [step : SupervisorSteps, identity : 0..MaxBoot,
                                drain : BOOLEAN, seen : BOOLEAN, clean : BOOLEAN]]
    /\ mediated \in [Children -> MediatedPhases]
    /\ leader \in [Assignments -> ProcessStates]
    /\ worker \in [Children -> ProcessStates]
    /\ boot \in 1..profile.boots /\ profile \in Profiles
    /\ agent \in {"down", "importing", "reconciling", "up"}
    /\ slots \subseteq Assignments /\ toImport \subseteq Assignments
    /\ pass \in [on : BOOLEAN, at : SUBSET Assignments,
                 left : SUBSET Assignments, kids : SUBSET (Children \X (0..MaxBoot)),
                 released : BOOLEAN, snapshot : [Assignments -> Records]]
    /\ open \in [Assignments -> {"none", "open", "closed"}]
    /\ registered \in [Assignments -> 0..MaxBoot] /\ leased \subseteq Assignments

Living(state) == state \in {"gate", "user"}
LiveFamily(a) == \/ Living(leader[a])
                 \/ \E c \in ChildrenOf(a) : Living(worker[c])

(***************************************************************************)
(* A released reservation has no process left, neither the leader nor any  *)
(* child, whoever wrote the release: the supervisor, its error path, or a  *)
(* reconciliation racing with a supervisor that outlived its agent.        *)
(***************************************************************************)
ReleasedIsGone ==
    \A a \in Assignments : record[a].phase = "released" => ~LiveFamily(a)

\* No two attempts of a task have processes on the node at the same time.
OneLiveAttempt ==
    \A a, b \in Assignments :
      TaskOf[a] = TaskOf[b] /\ LiveFamily(a) /\ LiveFamily(b) => a = b

(***************************************************************************)
(* The families with a process on the node never need more than the node's *)
(* budget, also after crashes, restarts and the loss of the journal.       *)
(***************************************************************************)
BudgetKept ==
    LET total == Total(LAMBDA a : Need[a], {a \in Assignments : LiveFamily(a)})
    IN \A s \in Shared : total[s] <= Budget[s]

(***************************************************************************)
(* User code runs only after its authorization was durable, so that a      *)
(* crash never leaves user code under a record that says it was not begun  *)
(* (a journal that was lost is rebuilt without phases).                    *)
(***************************************************************************)
AuthorizedFirst ==
    ~Replayable =>
    /\ \A a \in Assignments :
         leader[a] = "user" => record[a].phase \notin {"reserved", "prepared"}
    /\ \A c \in Children :
         worker[c] = "user" => family[c].phase \notin {"reserved", "prepared"}

(***************************************************************************)
(* What the coordinator was told is released runs no user code, neither    *)
(* after a refusal whose supervisor outlived its agent nor after a release *)
(* found by reconciliation.                                                *)
(***************************************************************************)
ClosedNeverRuns ==
    \A a \in Assignments : open[a] = "closed" =>
      leader[a] # "user" /\ \A c \in ChildrenOf(a) : worker[c] # "user"

\* User code runs only under an authorization that is recorded and was not
\* reported as over.
RunsAreRecorded == AuthorizedFirst /\ ClosedNeverRuns

\* Nothing of a is left, and the journal holds what it takes to prove it.
Recoverable(a) ==
    /\ ~Alive(a) /\ ~LiveFamily(a) /\ Held(a) /\ record[a].identity # 0
    /\ Incomplete(record[a].marks) => record[a].identity # boot
    /\ \A c \in HeldChildren(a) : family[c].identity # 0

(***************************************************************************)
(* Capacity is not leaked: once every process of an assignment with a      *)
(* recorded identity is gone, an agent that stays up releases it, whatever *)
(* its supervisor had journalled before it crashed.                        *)
(***************************************************************************)
EventuallyReleased ==
    <>[](agent # "down") =>
      \A a \in Assignments : Recoverable(a) ~> record[a].phase = "released"

\* A supervisor asked to drain ends, also when the journal refuses it.
DrainEnds == \A a \in Assignments : sup[a].drain ~> ~Alive(a)

(***************************************************************************)
(* A release is final and a recorded identity is never replaced or lost:   *)
(* only setting the whole journal aside forgets them.                      *)
(***************************************************************************)
KeepsJournal ==
    \/ agent' = "importing"
    \/ /\ \A a \in Assignments :
            /\ record[a].phase = "released" => record'[a].phase = "released"
            /\ record[a].identity # 0 => record'[a].identity = record[a].identity
            /\ record[a].marks \subseteq record'[a].marks
       /\ \A c \in Children :
            /\ family[c].phase = "released" => family'[c].phase = "released"
            /\ family[c].identity # 0 => family'[c].identity = family[c].identity

JournalKeeps == [][KeepsJournal]_vars
=============================================================================
