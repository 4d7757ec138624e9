# A TLA+ development for CedeGrid

CedeGrid runs opportunistic and guaranteed work on shared machines. An operator
submits jobs to a coordinator; node agents report capacity and allocations,
receive offers, launch each attempt behind a gate, and run it only under a lease
that the coordinator grants and renews. The whole design is about one question:
*who may be running what, when nobody can be sure*. A process may outlive its
lease, a report may be late or contradict an earlier one, a node may forget its
journal, and the coordinator may restart between any two transactions.

This directory models that logic, checks it with TLC on small instances and
proves with TLAPS, for every instance, what everything else rests on: on the
coordinator who has authority, which results stand, how work is retried and that
the task ledger is implemented; how a lease ends; and on a node that capacity is
released only when nothing is alive, that one attempt of a task lives, that user
code runs only on record and that no committed result is lost; on disk that state
directories, their upgrades and their backups are never open, served or overwritten
half done.

## 1. Inventory

| Part (source) | State | Operations | Interacts with | What is hard |
|---|---|---|---|---|
| Coordinator (`coordinator.rs`) | 17 SQLite tables: pools, jobs, task_specs, tasks, assignments, reservations, fences, drain requests, preparations, nodes, unrecognized allocations, sessions, retired sessions, retry state, failure receipts, publications, checkpoints; epoch and clock watermark | one request per action under one mutex; restart | agents (requests), artifact store | expiry inside every request, non-atomic requests, late and contradictory reports, restarts, sessions, preemption across nodes |
| Task ledger (`state.rs`) | status, generation, receipt of a task | submit, assign, mark_uncertain, accept_result | coordinator, node journal | stale generations, replay of unsafe work |
| Node journal (`execution_state.rs`) | execution record per assignment, local task row | reserve, import, transition | agent, supervisor | capacity kept while anything may be alive, recovery markers |
| Managed children (`managed_children.rs`, `child_supervision.rs`) | child record per request | reserve, prepare, transition | journal, supervisor | a parent released before its children |
| Agent (`agent.rs`) | preparing set, running supervisors, outbox | heartbeat, start, reconcile, publish | coordinator, journal, supervisor | lost replies, epochs, reconcile during preparation |
| Supervisor (`supervision.rs`) | lifecycle phase, lease deadline, drain time | gate, renewal, tick, drain, release | agent, kernel | lease expiry while not scheduled, late grants |
| Publisher and GC (`publication.rs`, `publication_gc.rs`) | uploads, publications, heads, spool charges, pins | begin, chunk, finish, commit, reconcile, reclaim | worker SDK, agent | a file and a row that must agree across crashes |
| Artifact store (`artifacts.rs`) | partial uploads, blobs, the lane | begin, append, publish, abort | coordinator | resends, two uploaders, quota, a proof used after the mutex was given back |
| Namespace (`namespace.rs`) | three locks, phase and identity file | acquire, begin_maintenance, exclusive, activate | every opener of a state directory | lock order, recovery interrupted half way |
| Backup, upgrade (`backup.rs`, `upgrade.rs`) | markers, holds, copied tree | create, restore, upgrade | namespace, coordinator tables | interruption between copy and activation |
| Policy (`policy.rs`) | budget cap, stability clocks per device and host, last sample | evaluate | telemetry, agent | saturation, unknown and repeated measurements, cooldowns |
| Pagination (`pagination.rs`) | change counters | read | coordinator | a cursor over changing tables |
| Readers, configuration, protocol, CLI, SDKs, tools | none, or external | | | I/O and parsing |

The properties that make the parts correct:

* **Coordinator.** A superseded attempt never regains authority; a fence and a
  drain are final; an attempt is authorized only after its gated process was
  recorded; expiry can never be refused; the accepted
  result is from the latest authorized attempt and immutable; checkpoints never
  rewind; retries stay within the failure budget and a failure is charged once;
  at most one attempt of a task holds capacity; nodes and pools are not
  overcommitted; preemption keeps the floor; a node without durable storage runs
  nothing before its recovery is complete.
* **Task ledger.** One holder per task, unsafe work only after an operator's
  retry, one result.
* **Journal, children, supervisor and agent on one node.** Capacity is released
  only when nothing can be alive, whoever writes the release; a release is final
  and an identity or recovery marker is never lost; user code runs only after its
  durable authorization; two attempts of a task never run together; what is gone
  is released in the end, and a drain ends.
* **Agent with coordinator.** No two live processes of one task unless the
  coordinator was told that the first is gone; an offered task eventually runs or
  is taken back.
* **Lease.** When the coordinator gives a lease up, nobody on the node still
  believes in it; nothing revives one that ended; guaranteed work is not ended by
  a clock.
* **Publisher.** The head never rewinds, and a charged byte is never freed while
  its file may exist.
* **Delivery and collection.** A committed result reaches the coordinator and is
  never replaced by a plain exit; nothing is collected before it was delivered.
* **Artifact store.** What is recorded is stored under its digest, durably and for
  ever, and only for a current attempt; the quota holds.
* **Namespace.** No reader while maintenance is exclusive; recovery that stopped
  half way keeps admission closed; no deadlock.
* **Upgrade and backup.** The archive is what the old version left; unfinished work
  is held once; a copy that stopped half way is never served; a restored
  coordinator keeps every allocation it cannot prove released.
* **Policy.** Work is admitted only after a whole undisturbed cooldown, drained
  work is enough for the shortage, and a budget never goes below zero.

The hazards behind these properties, each at its line, are in `PROJECT.json`.

## 2. Modules

| Module | What it is |
|---|---|
| `Resources` | vectors of CPU, RAM and GPU memory: sum, saturating difference, maximum, and the comparison that looks only at the scopes a request uses |
| `Coordinator` | the coordinator: one variable per durable table, one action per request, restart and the crash points inside a request; the properties |
| `TaskLedger` | the abstract specification of a task: what `Coordinator` implements |
| `MCCoordinator`, `MCRequests` | the instances: task catalogues, capacities and reports for the runs |
| `CoordinatorProofs` | theorems about `Coordinator`: types and authority; leases, fences, drains, accepted results and checkpoints; sessions of nodes with replayable storage; retries, and that `Coordinator` implements `TaskLedger` |
| `NodeExecution` | one node: the journal, the supervisors and their children, the agent that launches and reconciles, the processes; crashes and reboots |
| `MCNodeExecution` | the instances of a node |
| `NodeProofs` | theorems about `NodeExecution`: types and the journal; releases, live attempts and recorded authorizations |
| `Lease` | one lease from the coordinator's grant over network, agent and pipe to the supervisor's deadlines |
| `LeaseProofs` | the theorems about `Lease` |
| `Publication` | the local publisher: uploads, publications, heads and the spool ledger |
| `Delivery`, `MCDelivery` | `Publication` composed with the supervisor's end, the agent's delivery and garbage collection |
| `DeliveryProofs` | theorems about `Publication` (heads, undecided publications, charges, answered bytes) and `Delivery` (no result is lost) |
| `ArtifactStore` | the coordinator's store of uploads and blobs, and its lane |
| `Namespace` | the locks, identity and recovery phase of a state directory |
| `NamespaceProofs` | theorems about `Namespace`: locks, open directories, waiting |
| `OfflineUpgrade` | the upgrade of a 0.1 directory |
| `UpgradeProofs` | theorems about `OfflineUpgrade`: the bundle, held work, interruptions |
| `OfflineBackup` | snapshots of a coordinator and their restoration |
| `BackupProofs` | theorems about `OfflineBackup`: whole and fenced copies |
| `MCStorage` | the instances of `Namespace`, `OfflineUpgrade`, `OfflineBackup`, `Publication` and `ArtifactStore`, and what each must keep; where there are proofs, an instance of the module that holds them, so that its lemmas hold of the instance |
| `StorageProofs` | theorems about the artifact store, and those of the other modules for the properties that `MCStorage` states |
| `Policy`, `MCPolicy` | the capacity engine with the agent and the coordinator's admissions around it |

### How `Coordinator` corresponds to the code

*Requests.* `handle_at` runs every request under one mutex: session check, clock
watermark, expiry of lapsed leases, handler. Each action therefore contains that
preamble (`ClockAccepts`, `ResAt`, `TasksAt`, `FencesAt`) and then the handler's
effect on the tables that expiry left. A refused request keeps the preamble's
effects and nothing else, which is the action `Status`; so do reads and
idempotent repeats. Requests that fail the session check change nothing.

*Identity.* An assignment row is the pair of its task and its generation. The
code's UUID names the same pair, since a generation is inserted once
(`GenerationsCounted`). A row that does not exist has phase `none`.

*Time.* `lastClock` is the durable watermark; a request names its `now`, at or
after the watermark, up to `MaxClock`. Lease, freshness limit and backoffs are
constants in the same unit.

*Reports.* A heartbeat's report is any record over the node's own allocations:
which it names, their phases and usage, its capacity, its age (`Lags`), and the
allocations it holds or freed that the ledger does not know. With `Truthful =
FALSE` nothing restricts what is said; with `Truthful = TRUE` a node never
reports a released allocation as alive, which its journal guarantees as long as
the journal exists.

*Scheduling.* The code walks the queue once. `IsOffering` states its outcome as
the set in which each eligible task is offered exactly if it is admitted after
the earlier ones, and `Preempted` as the shortest prefix of the candidates that
makes room; both are the deterministic result of the loops.

*Crashes.* SQLite commits are atomic and durable, so a crash is a restart between
two commits. `ExpireInterrupted`, `PreparedInterrupted` and
`HeartbeatInterrupted` are the requests with several commits, stopped after some
of them; every other crash is `Restart` after a whole request. `Reopen` is what
`open` does: a new epoch, drains made durable, every unreleased row uncertain.

*Left out.* Wording, details and timestamps that no decision reads; the bytes of
artifacts (`CommitUpload` is its row in `publications`); the `ReadArtifact` and
`GetResult` reads; validation of identifiers and sizes. Counters are unbounded
naturals: the code refuses the request on overflow of 64 bits, which no bound of
a run reaches.

### The abstract ledger

`TaskLedger` knows only tasks and the generations that may still hold capacity.
A step of the coordinator steps several tasks at once (one expiry, one report),
so a ledger step is a step or a stutter of every task. The refinement maps
`holders` to the unreleased reservations. It needs truthful nodes: a report that
contradicts a release makes a second generation hold capacity again, fenced, and
the coordinator keeps the charge on purpose.

### How `NodeExecution` corresponds to the code

*Processes.* The agent, each assignment's supervisor and the workload are
processes of their own and end independently. A supervisor survives its agent
(its pipe closes), a workload survives its supervisor; `AgentCrash`,
`SupervisorCrash`, `LeaderExit`, `WorkerExit` and `Reboot` are those ends. An
exited supervisor keeps nothing (`Exit`).

*Journal.* `record`, `family` and `tasks` are the tables `executions`,
`managed_children` and `tasks`. `Accepts` and `ChildAccepts` are the conditions
under which `transition` and `transition_managed_child` commit; each write is one
transaction. A refused write is an error of its writer: the supervisor goes to its
error path (`Fail`), the agent's reconciliation ends the agent (`AbortPass`).
Evidence is reduced to the three recovery markers that decide a release.

*Supervisor.* `sup[a].step` is the place in `supervise`: reserve, spawn the gate,
check its identity, write Prepared, wait for the agent's grant, write Authorized,
send EXEC, write Running, loop. Every error after the reservation leads to
`failing`: `CleanupLeader`, one `CleanupChild` per child, `CleanupRecord`; each
kill may stay unconfirmed. `mediated` is what the supervisor believes of a child,
which may differ from the registry after another writer touched it. When a drain
is asked is left open (`AskDrain`); the deadlines that ask for it are in `Lease`.

*Agent.* `slots` are the supervisors it started and has not seen exit.
`reconcile_guarded` reads all records once (`Reads`) and then decides record by
record and child by child, each with its own write, so a surviving supervisor can
write in between. `Refuse` is the report of an offer without a journal row.

*Identity.* Process identities (pid, boot, start time) are unique per spawn, and
an assignment spawns one leader, a request one child: the boot number identifies
the process.

*Profiles.* The storage profile and the assignments that a node is offered are
fixed by its configuration: `profile` is chosen initially and never changes.

*Replayable storage.* With a replayable profile an agent start sets the journal
aside once no supervisor is left, and imports the coordinator's inventory
(`registered`, `leased`), which survives.

### How `Lease` corresponds to the code

`coord` is the reservation row with the coordinator's epoch, `asked` the Prepared
and Renew requests that have not been handled, `slot` the agent's view (sequence,
epoch, last renewal, the request it waits for), `pipe` the controls on their way,
`sup` the supervisor's step and `life` the reducer `Lifecycle`. A grant is a
duration. The agent takes off the time since it asked, and the supervisor counts
what is left from the moment at which it began to poll: `now` is what has passed on
every clock, and all are assumed to run at one speed. Requests may be handled late,
after the agent gave up waiting, or never. Only expiry fences the row here; the
other fences are in `Coordinator`. The gate opens without a second look at the
lease after the journal commit, as in the code, so a workload may start with
nothing left of its lease; it is drained at the first tick. The poll in front of a
child launch is a poll of the loop.

### How `Publication` and `Delivery` correspond to the code

A publisher is in the middle of at most one request, `job`. Each SQLite
transaction, write, link and directory sync is a step, each may fail, the publisher
may die after any of them, and `PowerLoss` takes what was not synced. `ledger` is
the spool ledger of the node, shared by all publishers, output capture and input
downloads. A publisher may be opened again over an attempt, as the tests do; the
production code opens one per supervisor, which the larger model of `Delivery`
keeps to (`MaxReopen = 0`).

`Delivery` extends it with the end of a supervisor (Released, drain of the
publisher, outcome file), the agent's slot loop and its outbox, uploads, the final
report and the receipt, recovery after a death, and `publication_gc.rs`. The
coordinator is external: it stores artifacts and keeps the first final report.
Pins are derived: a pin with a living owner is an open publisher or an agent task.
`WorkerWaits` says whether the worker waits for its last answer, as the SDKs do.

### How `ArtifactStore` corresponds to the code

Files are inodes with written and synced content; metadata, partial files and blobs
are names of inodes. A request on a thread authorizes under the mutex, waits for
the lane, verifies outside of the mutex, and takes it again to record
(`Seal`, `Link`, `SyncBlob`, `Pin`, `Decide`); the attempt may be fenced in between.
A digest is the content it names: the model assumes no collisions and keeps wrong
and garbled bytes.

### How `Namespace`, `OfflineUpgrade` and `OfflineBackup` correspond to the code

`Namespace` has the three `flock` files (owner, admission, lifecycle), the identity
and phase of `namespace.json`, the history of recoveries, the quarantined
directories, and processes in the roles of client, supervisor, agent, offline tool
and replay agent. `Step(p)` is the next system call of a process; a process may die
before any of them, which frees its locks and leaves its files.

`OfflineUpgrade` takes the locks for granted and looks at the order of the durable
steps: inspection, bundle, operation record, intent, marker or migration,
completion record, phase. A death leaves a record absent, torn or written. 0.1
services know nothing of the new files; they are assumed not to be started again
once an upgrade is recorded (`docs/migration-0.2.md` has them stopped).

`OfflineBackup` marks a new directory, copies, and unmarks it last. The operator
is assumed to do what the command asks to be confirmed: the old coordinator is
retired before the restored one is started, so that one deployment runs at a time,
on a directory that holds a database. Files of an archive may rot.

### How `Policy` corresponds to the code

`Sample` is one snapshot: the host, each GPU with its external processes, what each
allocation uses, and how the collector's marker and clock compare with the last
ones. `Evaluate` is `PolicyEngine::evaluate` on it, with all that the engine keeps
(`engine`) and the decision it returns. `Heartbeat` is the agent's report, received
or lost, with the offers that the coordinator makes from it; `Launch` the agent's
start of an offered attempt, `Prepare` the journal's reservation against the room
captured then, `Authorize` the coordinator's first grant from its last report,
`Yield` and `Release` the end of an allocation. `alarm` and `since` record the past
for the properties only. The Linux snapshot with kernel-scoped CPU is modelled.

## 3. Runs

`CHECK_DEADLOCK FALSE` everywhere: the bounds on clock, epoch, generations and
boots stop a behaviour, and the system may be idle for ever. The module and the
configuration of each run are in `PROJECT.json`; the run `lease_path` is about the
module `Lease`, the rows of the coordinator are in `requests`.

| Run | Instance | Shows |
|---|---|---|
| `authority` | 1 task, 2 generations, 1 node, reports two steps late, contradictory, 2 epochs, clock 0..2 | the inductive invariant and its consequence `AttemptAuthority`; `FenceIsFinal` |
| `requests` | side by side: 2 attempts, one failure allowed, 2 checkpoints, a result with an artifact; and 1 attempt, two leases, reports of early and late phases, a foreign allocation, drain and cancel | `AcceptedResult`, `RetriesAreSound` (budget, receipts, one holder of capacity), `PreparedFirst`, `ResultsAreKept`, `DrainIsFinal` |
| `replay` | a safe and an unsafe task, 2 sessions | session discipline, and `LedgerSpec`, the refinement |
| `placement` | 3 tasks of 2 priorities, 2 nodes that report running and released work, one pool with a floor of one and a maximum of two, CPU and GPU | `WithinLimits` (budgets and pool maximum, within and across passes), `PreemptionBounded` |
| `node` | three nodes: a durable one that reboots under a family of one child; a replayable one that loses its journal while two generations of the task race; a crowded durable one, not rebooted, where two tasks want the same capacity | releases are true and final, user code runs only on record, one live attempt, `BudgetKept` |
| `node_recovery` | one family, 2 boots, fair | `EventuallyReleased`, `DrainEnds` |
| `lease_path` | opportunistic, lease of 2, drain and term of 1, time to 4, 2 coordinator epochs, one request and one control on the way | when the row is fenced nobody believes in the lease; the end is counted from the deadline; no revival |
| `storage` | nine scenarios, below | what is kept on disk |
| `delivery` | 1 attempt, an artifact, 2 publications, 1 death, fair | `NoResultLost` (nothing is collected before delivery, sends find their files, no plain fallback, all charged), `ResultDelivered` |
| `policy` | four nodes, below | admission follows an undisturbed cooldown, caps are held, victims are enough, nothing flaps, no budget below zero |
| `preemption_two_nodes` | 3 tasks, 2 nodes | *violated:* see below |
| `delivery_race` | as `delivery`, a worker that does not wait for its answer, no death | *violated:* see below |

`storage` and `policy` explore independent instances side by side: a variable says
which one a behaviour is about, what the others would use keeps one value, and no
step mixes two, so the states add up and each instance is explored as if it were
alone. The scenarios of `storage`:

| Scenario | Instance | Properties |
|---|---|---|
| locks | 3 processes of any role, 2 deaths, 4 identities | `OpenIsSound`, `ReplacementIsAlone`, `NoWaitCycle`, an abandoned recovery is not overwritten |
| durable, replay | 2 tasks, a 0.1 workload, 2 bundle paths, 3 interruptions | `LegacyIsKept`; new work is not held |
| copies, restores | 3 directories; one blob with 3 epochs, or two allocations with 2; 1 interruption, rot | `CopiesAreSound`; the remains of a copy are not taken over |
| heads | 1 attempt, an artifact of 2 bytes, 3 publications, reopening, 1 power loss | heads are durable and never rewind, one undecided publication, answered bytes are kept |
| quota | an upload, a capture and a download want a quota too small for all | every byte on disk is charged and fits |
| store | 2 attempts, one content of 2 bytes, 2 connections, wrong bytes, 1 crash | recorded is stored, under its digest, for ever, for current attempts |
| full | 2 contents, a quota for one and a half, 1 crash | quota |

The nodes of `policy` are a GPU in automatic mode with other processes, an occupied
GPU with a permitted and another process, a host without GPU with opportunistic and
guaranteed work, bad and repeated readings, resets and stops, and a node with CPU and
GPU work that must yield.

**Bounds.** Two generations are enough for "superseded" to happen and one more
task or node adds no interaction to a property about one task; leases of one
clock step with a clock up to two let a lease lapse, be observed late and lapse
again; a lag of two is past the freshness limit. A sequence of two is a grant and a
renewal, whose reply may be lost and repeated. Two tasks that one outranks, with room
for two, are the least with which a pass makes several offers and takes
victims. On a node, two generations are a race for the task and two tasks a race
for the budget, which needs no reboot; one child is enough for a family to outlive
its leader, and two boots for an identity to become stale. A leader's further children differ only in
their request.

A lease of two with a drain and a term of one and a time of four lets a lease be
renewed, lapse, be drained and killed; two epochs put a restart between a request
and its answer. Three processes are
the least for a holder, a waiter and one that overtakes; three publications for a
head that could rewind over an undecided one. Two connections of two attempts that
upload one content are all that can collide in the store. Three interruptions let
an upgrade, its resumption and a recovery each stop once. A cooldown of two is the
least that can be interrupted and restarted.

**Findings.** The two violation runs are disagreements between the code and a line of
the repository; the quotations are in `PROJECT.json`.

* `preemption_two_nodes`: passes on two nodes drain a pool below its floor; the
  second counts the reservation that the first asked to leave. Within one pass the
  floor is kept (`placement`).
* `delivery_race`: a leader exits before its result commit is answered; the agent
  reads the head before the commit and the outcome after it, and reports a plain
  exit as the result. With a worker that waits, as the SDKs do, this cannot happen
  (`delivery`).

**Further differences** that came up while modelling and have no run of their own. The
named predicates are in the modules; adding one to the properties of the scenario it
belongs to shows it.

* `OfflineUpgrade.ReportedIsUsable` (`src/src/upgrade.rs:146`): an upgrade that died
  between its completion record and the phase takes the early return ever after,
  reports success, and the directory stays closed, while
  `src/docs/release-0.2-spec.md:173` has an interrupted upgrade resume or remain
  blocked.
* `OfflineUpgrade.ReadyIsWhole` (`src/src/upgrade.rs:202`): an interrupted replay
  upgrade, resumed after an interrupted recovery, declares a half rebuilt directory
  ready (`src/docs/release-0.2-spec.md:60`).
* `Lease.ExpiryIsAlwaysDeadline` (`src/src/supervision.rs:824`): a supervisor that
  slept past the deadline applies a drain before its next tick, and the kill is
  counted from that late observation. Without such a control it is counted from the
  deadline (`lease_path`).
* `Policy` (`src/src/execution_state.rs:320`): the node's own recheck adds the requests
  of the other allocations and not what they are seen to use, although
  `src/docs/guarantees.md:57` and `:78` read as if it did. A sibling that grew meanwhile
  is then noticed by the next evaluation, which yields.

**Fairness.** The coordinator's runs assume none. `FairSpec` of a node assumes
that the agent's service loop goes on: it sees exits (`Harvest`), starts a
reconciliation at every heartbeat and takes it to its end. A GPU query may fail
again and again but not for ever, hence strong fairness for the deciding reads
with a confirmed release. Nothing forces an agent to stay up: `EventuallyReleased`
says what happens if it does. Of a supervisor it assumes what its deadlines
enforce: once draining, the loop ends with an error at the latest when a killed
process is not confirmed in time, and each cleanup step has a timeout. No process
is assumed to exit, and no grant or drain to come.
`EventuallyReleased` speaks of records with an identity. A supervisor that dies
between its reservation and Prepared leaves one without; reconciliation
never releases it, since nothing proves that an unknown process is gone, and the
capacity stays charged.

`Delivery` assumes that each process of the node goes
on and that an agent is started again; strong fairness is assumed for the leader's
exit, which waits while a request of the worker is unanswered, and for submissions that the
coordinator answers, since a lost answer is retried but not lost for ever.
The other modules state safety only.

## 4. Proofs

Eight modules hold the theorems, and `tlapm` checks every leaf. Where a theorem
states a property that a run checks, the run shows it on a small instance and the
theorem for every value of the constants: catalogues, capacities, numbers of
nodes, tasks, generations, children, reports, and all bounds.

*Assumptions.* Only those named in `Resources`, `Coordinator`, `NodeExecution`,
`Lease`, `MCStorage` and `MCDelivery`, which TLC evaluates in the runs of these modules: the
catalogue is finite and well formed, `None` is not a node, leases and backoffs are
positive, each assignment has a positive generation; on disk, that processes have one
of the roles that exist, bounds are naturals, digests are of contents of the size that
every artifact has, and "no directory" is not a directory; of publishers, that a
file is not empty and "no publication" is not a publication. Two theorems, `RetriesSound` and
`LedgerRefined`, have the hypothesis `Truthful` in addition: no report calls a
released allocation alive. It restricts only what a report may say, every request,
late report, restart and crash remains; without it a contradiction makes a second
generation hold capacity again, fenced, on purpose. A node that reads its reports from
its journal is truthful as long as it has the journal: by `JournalIsKept` a release is
never taken back there. `DeliveryInductive` and `ResultsAreNotLost` have the hypothesis
`WorkerWaits`, which is what the SDKs do; `delivery_race` shows that without it the
property is false.

### Authority: `CoordinatorProofs`

`Typing`, and `AuthorityInductive` with its consequences `SingleAuthority`,
`GenerationsAgree`, `FencedStaysDead` and `ExpiryAlwaysPossible`.

`AttemptAuthority` alone is not inductive. A new offer makes the
attempt before it superseded, so one must know that this one is inert; that
follows because offers are made only when no reservation of the task is held,
hence all are released. A report may turn a released row uncertain, so one must
know that it is fenced in the same step, and that a fence never sits on a live
row (`FencedOf`). Expiry takes the task away from a row, so the row must be the
latest of its task (`GenerationsOf` with `AuthorityOf`). `Submit` sets a status
without looking at rows, so unsubmitted tasks must have none
(`SubmittedWithJob`). These conjuncts together are `AuthorityInvariant`.

Five ways to rewrite the tables occur in all requests: rows become
uncertain with their fences, tasks change status without losing a current row, a
lease is extended, a report is merged, offers are inserted. One lemma for each
says that it keeps `SafeTables`; the lemma of a request composes them, and the
theorem composes the requests.

### Leases and results: `CoordinatorProofs`

`LeaseInductive` with `NothingRunsUnprepared`, `FencesAreFinal` and
`DrainsAreFinal`; `ResultInductive` with `AcceptedIsCurrent` and `ResultsStay`.

From here on a proof has two halves. A summary says in a few alternatives what any
request, restart or crash may do to the tables it is about, and one lemma per
action shows that the action is one of them; the invariants and the action
properties then follow from the summary alone. `LeaseStep`: of each row the
sequence stays, or the gated and live attempt gets a lease (`Granted`); fences,
drains and preparations only grow. `ResultStep`: nothing is accepted, or one task
takes the result of its latest attempt, or a checkpoint of it.

`LeaseInvariant` adds to `PreparedFirst` that a row that does not exist has no
sequence, or an offer could be born with a lease, and that the phase *draining*,
which a report may set, comes with its durable mark, so that what refuses a renewal
survives a restart. `ResultInvariant` adds that a completed
task has the receipt of an attempt, and that a stored checkpoint is of the task and
of a generation that was counted, so that the latest attempt never falls behind it.

### Sessions: `CoordinatorProofs`

`SessionInductive` with `ReplayDisciplined`.

`SessionStep`: sessions are left alone, a report completes the recovery of a node,
or a new session replaces the one before, with every row of the node inert.
`OnlyReplayable` must speak of more than live rows: one that is uncertain but not
fenced may be revived by the next report, so it must already be of work that may be
replayed.

### Retries and refinement: `CoordinatorProofs`

`LedgerInductive` with `ReceiptsAlwaysRetire` and `RetriesSound`, and
`LedgerRefined`, `Spec => LedgerSpec`.

`TaskStep(t)` lists what one step may do to the row of a task (untouched, taken
back, given up, charged, started, submitted, retried by the operator, finished),
`HolderStep(a)` what to the capacity of one attempt, `ReceiptStep` what to the
receipts. `RetriesAreSound` is not inductive: a failure is charged together with a
release, so a charged attempt must hold nothing (`ReceiptsHoldNothing`); the
attempt that may be offered next must be the only one with capacity
(`HeldByLatest`); and work that used up its budget must be out of the queue with
no attempt left to fail again (`BudgetSpent`), through expiry and restarts, which
put other work back into it.

The refinement maps the status and generation of a task to themselves and the
unreleased reservations to `holders`. For each alternative of `TaskStep` a lemma
gives the step of the ledger that it is, or the stutter; as one request moves several
tasks, the ledger's next-state relation is the conjunction over tasks, and no
interleaving has to be invented.

### A node: `NodeProofs`

`NodeTyping`, `NamesInductive` (a child has no identity before it is prepared) and
`JournalIsKept`; `NodeInductive` with `ReleasedAreGone`, `OneLives` and
`RunsRecorded`.

The first part shows field by field what each action does to the rows it writes. In
`JournalStep` every record moves as `Accepts` allows, or not at all; only the start
of a replay session and an import do otherwise.

`ReleasedIsGone` is far from inductive, since three writers release on what
each believes. `NodeInvariant` follows an assignment through its life:

* `NotYetPrepared`, `SeesTruly`: a supervisor has nothing recorded before it
  reserved, and a leader that it saw exit, or killed with confirmation, is gone;
* `IdentifiesLiving`: what lives is of this boot, so a record of an earlier boot
  proves that its processes are gone;
* `Covered`: a living leader is charged, a released record has no family;
  the exception is `Awaited`, a lost record that the next import brings back while
  nobody runs;
* `Inventoried`: a node that may lose its journal keeps its supervisors in the
  agent's slots, and the coordinator still has what lives there open, or a journal
  set aside would leave a process that no import names;
* `Authorized`: user code and every step towards EXEC follow the lease and the
  journalled authorization, and on a durable node what was reported as over never
  had a lease or is released;
* `ChildInvariant`: a living child is held in the registry or, on a replayable node,
  its parent's record is marked for reconciliation; a held child keeps its parent
  held, whence no parent is released before its children (`ReleaseIsEnd`);
* `AgentInvariant` with `ReadsTruly`: what a reconciliation has read is still so
  when it writes, although a supervisor may have written in between: identities
  never change, and a leader found gone stays gone. It never decides about an
  assignment whose supervisor is in a slot;
* `OneBusy`: of the assignments of a task at most one has a process, or a supervisor
  that may still start one with its reservation held. `OneLiveAttempt` says only the
  former, which a reservation that is about to start its leader would break.

Steps touch one assignment, child or table at a time. `Alone` frames
the steps of a supervisor, `ChildFrame` those of a child, `AgentFrame` those of the
agent, and `Fades` the crashes, exits and reboots, which only take processes
away; `AttemptKept` and `ChildKept` carry the invariant over what a step leaves
alone. TLC checked `NodeInvariant` on the instance of the run `node` before it was proved.

### The path of a lease: `LeaseProofs`

For every lease, drain and term time, heartbeat interval and class:
`TypeHolds`, `NodeExpiresFirstHolds`, `AuthorityIsCurrentHolds`,
`ExpiryIsDeadlineHolds`, `GuaranteedContinuesHolds` and the action property
`NeverRevivedHolds`. The bounds on time, epochs, requests and controls are
constants without an upper limit, so the theorems hold for all of them.
That all clocks run at one speed is part of the model, not an assumption of the
proof alone.

`NodeExpiresFirst`, the node's deadline is not after the row's, says
nothing of a grant that has not arrived. The bound has to be carried along every
hop: the row's deadline is at most a lease away (`RowBound`); the request that an
agent waits for was asked at a time that bounds the answer (`RpcBound`); what is left
in a control on the pipe, in a command that was read and in the first grant ends no later than the
row (`PipeBound`, `CommandBound`, `GrantBound`), counted from a poll that is not in
the future (`PollBound`). Guaranteed
work continues because each drain has a cause that is not a clock: `ToldOrigin`,
`DrainOrigin` and `PhaseOrigin` record it from the control to the phase. `Inv` is
their conjunction with `TypeOK`; one lemma per action shows that it is kept.

### A state directory: `NamespaceProofs`

`NamespaceInductive`, `NamespaceSafe` (`OpenIsCurrent`, `OpenIsComplete`,
`ReplacementIsAlone`, `OneService` and `NoWaitCycle`, of any number of processes) and
`AbandonedKept`.

`OpenIsCurrent` speaks of a process that has the directory open. It
has long released the admission lock, and what keeps a recovery away from it is
only that both would need the life-cycle lock. So `NamespaceInvariant` gives, for each
process and step, the locks it holds (`LocksAt`) and what `flock` makes of them
(`Exclusion`); the state of the directory is tied to the recorded phase
(`ReadyIsSound`: a directory under a *ready* record is finished and has its identity),
and each step of a recovery to what it has done so far (`StageAt`), which is what a
process that dies there leaves behind. `NoWaitCycle` follows from `LocksAt`
alone: a process that waits for a lock holds none of its rank or a later one.

### Upgrade: `UpgradeProofs`

`UpgradeInductive`, `UpgradeSafe` (`BundleIsOriginal`, `LegacyIsBundled` and
`LegacyIsHeld`) and `NewWorkIsNotHeld`, for either storage profile.

Each file the upgrade leaves is an assumption of the run that resumes it.
`Recorded` says that no step that changes the schema precedes a durable operation
record, and that the record names a full bundle; `Quieted`, that release 0.1 is
stopped from the first write of an upgrade and for good once the operation is
recorded, or a bundle would not be what 0.1 left; `Migrated` compares the migrated
directory with the bundle and not with the directory it came from, which no longer
exists, and says that until completion is recorded the directory is still fenced and nothing
in it is queued: the only reason why a migration that is repeated after a crash
does not hold new work.

### Backup: `BackupProofs`

`BackupInductive`, `BackupSafe` (`SnapshotIsWhole`, `RestoredIsWhole` and
`RestoredIsFenced`) and `IncompleteLeft`.

`DirAt(d)` compares a restored directory with the archive it came from, which must
stay what it was: a directory with a manifest has no coordinator
in it and no command writes to it. `JobStage`, `CreateStage` and `RestoreStage` say
what each step of a copy has done, and that the marker is there until the
last; so a command that stops anywhere leaves a directory that says that it is incomplete.
`RestoredIsFenced` needs more than the fences in the restored ledger: the
work that nodes may still run must be known to the archive, and every
grant in it must be of an epoch before the restored one.

### Publication and delivery: `DeliveryProofs`

`SpoolSound` (`HeadIsDurable`, `OneUndecided`, `DiskIsCharged`) and `PublishedKept`
(`AdvancesHeads`, `KeepsAnswered`) are about publishers alone, `DeliveryInductive` and
`ResultsAreNotLost` about publishers, supervisors, the agent and the collection together;
both for any attempts, uploads, publications, file sizes, quota, deaths and power losses.

`HeadIsDurable` says nothing of the publication that is about to become the head.
`PublisherInvariant` therefore follows every row from its first transaction:
`UploadAt` says that a row never claims more than what the file holds for good (a file
is dirty only past the recorded offset, a sealed file is what its digest was computed
from), `PublicationAt` that an undecided result has no result before it, `UndecidedAt`
and `Newest` that sequences are handed out once, `JobAt` what the request that was
interrupted has done so far, and `ChargeAt` what is charged. `DiskIsCharged` bounds a file by the charges of its two
names together; `UploadsCharged` says which of them holds the full size, the staging name
while the upload is open and the final one once it is sealed.

A publisher touches the rows and files of its own attempt only. `Serves(a)`
states this once: the types, the attempt's own invariants, what may not move
backwards, and that every other attempt stays the `Same` with its charges (`LedgerKept`).
One lemma for each action shows that it serves an attempt, and `Delivery` needs to know
nothing else about a publisher's step.

`NoResultLost` compares the coordinator with the files of the node, and what lies between
are tasks, reads, reports and receipts of an agent that may have died. `TaskAt` says
that what a task no longer has to send the coordinator has, and that a plain exit is sent only
if no native result exists or can still appear; `ReportAt` says it of what was
accepted and of the answer that the agent is about to act on, and `SupervisorAt` gives the
reason: once the leader exited no request is left that could commit. It is here
that the hypothesis `WorkerWaits` is used. Files are deleted under `Shipped` only: the
receipt is the head, or a plain exit without one, and nobody has a task, a read or a slot
that would send again. `SpoolAt` says that an attempt's files are linked and charged until then.

### The disk: `StorageProofs`

`OpenSound`, `ReplacementAlone`, `NoProcessesCircle`, `LegacyKept`, `CopiesSound`,
`OverwritesNothing`, `RecordedDurable` and `PublishedHolds` state the properties of the
run `storage`. A behaviour of
`MCStorage` is about one of its parts; `StorageInvariant` is the inductive
invariant of that part, and each theorem follows from the lemmas of the module it
instances. The scenario *heads* is publishers alone, so that the variables of the agent and
the coordinator in `DeliveryProofs` keep one value there. The constants are those of
`MCStorage`; the theorems of the modules it instances hold for all.

The artifact store has its proof here, for any attempts, connections, digests, sizes,
quota, number of files and deaths: these are constants of `MCStorage`. `StoreInvariant`
says of each connection what its request has done so far (`ConnectionAt`): that it has
the lane, that its partial file is sealed before it is linked, that the name is durable
before it is pinned. Nobody who is not on the lane holds a proof; hence whatever touches
a file on the way touches none that is pinned (`NothingTouched`), and a request that is
authorized again under the mutex may record. A blob is never written to although the
partial it was linked from may still be named: it has its full size, and a chunk or a
byte that a crash leaves needs room.

### Only model-checked

* `WithinLimits`, `PreemptionBounded` and `BudgetKept` sum requests over sets. What a
  sum over an arbitrary finite set comes to needs induction over the set, which is out
  of the prover's reach; the proofs above use only the conditions around the sums.
* `EventuallyReleased`, `DrainEnds` and `ResultDelivered`: liveness under fairness and
  ENABLED are out of reach.
* Of `storage`, `TypeOK`, since the scenarios *quota* and *full* have no proof, and
  `DiskIsCharged`: that each file on a publisher's disk is charged is `SpoolSound`, but the
  quotas are sums of sizes, as in the first item.
* The properties of `policy`; `DrainSuffices` is about the outcome of a walk over the
  victims, which is an induction.

## 5. Plan

1. A proof for `Policy` (`AdmissionIsCalm`), whose invariant has no sums.
2. `Grid`: the agent's loop composed with the coordinator's tables over a network
   that loses, repeats and delays; no two live processes of one task across nodes;
   liveness of an offered task under fair agents.
3. The cursor pages of `pagination.rs` over tables that change meanwhile.

## 6. Not modelled

`PROJECT.json` lists every part with its status.

* Readers of kernel, cgroup and GPU interfaces, configuration, command line, wire
  decoding and packaging are I/O and parsing; their results are the inputs of the
  modules above. The SDKs are clients whose retries are the resends that the
  publisher and the child service accept.
* The storage qualification harness tests the host's file system; opening and
  checking a durable store is a sequence of file-system conditions, with nothing to
  interleave except the locks of `Namespace`.
* Pagination reads only, and nothing depends on it.
* Of the upgrade, the index of legacy outboxes, which only fills the report; of the
  backup, the import of format 1 archives, path, symlink and permission checks and
  the amounts of the byte budgets.
* Of the policy, snapshots without kernel diagnostics and the engine that each
  supervisor runs to drain its own attempt.
* Of the supervisor, GPU release confirmation and metrics; of the agent, telemetry
  sampling, token buckets and shutdown.
* Two hazards have no property, each with its reason in `PROJECT.json`.
