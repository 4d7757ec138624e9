------------------------- MODULE CoordinatorProofs -------------------------
(***************************************************************************)
(* Type correctness and single authority of the coordinator, for every     *)
(* number of nodes, tasks, jobs and generations, arbitrary reports, and    *)
(* crashes at every transaction boundary.                                  *)
(***************************************************************************)
EXTENDS Coordinator, FiniteSetTheorems, TLAPS

-----------------------------------------------------------------------------
(* The operators that build the tables of one request.                     *)

\* What an UPDATE leaves in a table.
LEMMA OverrideTable ==
  ASSUME NEW D, NEW B, NEW g \in [D -> B], NEW E, NEW f \in [E -> B],
         E \subseteq D
  PROVE  /\ Override(f, g) \in [D -> B]
         /\ \A x \in D : Override(f, g)[x] = IF x \in E THEN f[x] ELSE g[x]
BY DEF Override

TaskRow == [status : Statuses, generation : 0..MaxGen,
            receipt : {None} \cup (Attempts \X Results)]
ResRow == [node : Nodes \cup {None}, phase : RemotePhases \cup {"none"},
           observed : Usages \cup {None}, seq : Nat, deadline : Nat]

LEMMA Rows == TaskTable = [Tasks -> TaskRow] /\ ResTable = [Attempts -> ResRow]
BY DEF TaskTable, ResTable, TaskRow, ResRow

\* Changing the phase or the status of a row gives a row.
LEMMA PhaseRow ==
  ASSUME NEW row \in ResRow, NEW p \in RemotePhases
  PROVE  [row EXCEPT !.phase = p] \in ResRow
BY DEF ResRow

LEMMA StatusRow ==
  ASSUME NEW row \in TaskRow, NEW s \in Statuses
  PROVE  [row EXCEPT !.status = s] \in TaskRow
BY DEF TaskRow

\* Rows that become uncertain change their phase and nothing else.
LEMMA MakeUncertainRows ==
  ASSUME NEW R \in ResTable, NEW S \in SUBSET Attempts
  PROVE  /\ MakeUncertain(R, S) \in ResTable
         /\ \A a \in Attempts :
              MakeUncertain(R, S)[a] = IF a \in S
                THEN [R[a] EXCEPT !.phase = "uncertain"] ELSE R[a]
<1> DEFINE f == [a \in S |-> [R[a] EXCEPT !.phase = "uncertain"]]
<1>0. S \subseteq Attempts
  OBVIOUS
<1>1. f \in [S -> ResRow]
  BY Rows, PhaseRow DEF RemotePhases
<1>2. /\ Override(f, R) \in [Attempts -> ResRow]
      /\ \A a \in Attempts : Override(f, R)[a] = IF a \in S THEN f[a] ELSE R[a]
  <2>1. R \in [Attempts -> ResRow]
    BY Rows
  <2> HIDE DEF f
  <2> QED BY <1>0, <1>1, <2>1, OverrideTable
<1> QED BY <1>2, Rows DEF MakeUncertain

\* mark_uncertain moves assigned tasks of S, keeping generation and receipt.
LEMMA MarkUncertainRows ==
  ASSUME NEW T \in TaskTable, NEW S \in SUBSET Attempts
  PROVE  /\ MarkUncertain(T, S) \in TaskTable
         /\ \A t \in Tasks :
              MarkUncertain(T, S)[t] =
                IF t \in TasksOf(S) /\ T[t].status = "assigned"
                THEN [T[t] EXCEPT !.status = Unsettled(t)] ELSE T[t]
<1> DEFINE D == {u \in TasksOf(S) : T[u].status = "assigned"}
           f == [t \in D |-> [T[t] EXCEPT !.status = Unsettled(t)]]
<1>1. D \subseteq Tasks
  BY DEF TasksOf, TaskOf, Attempts
<1>2. f \in [D -> TaskRow]
  BY <1>1, Rows, StatusRow DEF Statuses, Unsettled
<1>3. /\ Override(f, T) \in [Tasks -> TaskRow]
      /\ \A t \in Tasks : Override(f, T)[t] = IF t \in D THEN f[t] ELSE T[t]
  <2>1. T \in [Tasks -> TaskRow]
    BY Rows
  <2> HIDE DEF f, D
  <2> QED BY <1>1, <1>2, <2>1 DEF Override
<1> QED BY <1>3, Rows DEF MarkUncertain

\* The expired tables keep their shape.
LEMMA SettledRows ==
  ASSUME TypeOK, NEW now
  PROVE  /\ Lapsed(now) \subseteq Attempts
         /\ ResAt(now) \in ResTable /\ TasksAt(now) \in TaskTable
         /\ FencesAt(now) \subseteq Attempts
BY MakeUncertainRows, MarkUncertainRows
   DEF TypeOK, Lapsed, ResAt, TasksAt, FencesAt

\* A failure moves unfinished tasks of S, keeping generation and receipt.
LEMMA FailedTasksRows ==
  ASSUME NEW T \in TaskTable, NEW S \in SUBSET Attempts, NEW Y
  PROVE  /\ FailedTasks(T, S, Y) \in TaskTable
         /\ \A t \in Tasks :
              FailedTasks(T, S, Y)[t] =
                IF t \in TasksOf(S) /\ T[t].status # "completed"
                THEN [T[t] EXCEPT !.status =
                        NextStatus(t, T[t].generation, t \in TasksOf(Y))]
                ELSE T[t]
<1> DEFINE f == [t \in Failing(T, S) |->
                   [T[t] EXCEPT !.status =
                      NextStatus(t, T[t].generation, t \in TasksOf(Y))]]
<1>1. Failing(T, S) \subseteq Tasks
  BY DEF Failing, TasksOf, TaskOf, Attempts
<1>2. f \in [Failing(T, S) -> TaskRow]
  BY <1>1, Rows, StatusRow DEF Statuses, NextStatus
<1>3. /\ Override(f, T) \in [Tasks -> TaskRow]
      /\ \A t \in Tasks : Override(f, T)[t]
                            = IF t \in Failing(T, S) THEN f[t] ELSE T[t]
  <2>1. T \in [Tasks -> TaskRow]
    BY Rows
  <2> HIDE DEF f
  <2> QED BY SMTT(30), <1>1, <1>2, <2>1, OverrideTable
<1> QED BY <1>3, Rows DEF FailedTasks, Failing

\* Backoff delays and retry rows are natural numbers.
LEMMA BackoffType ==
  ASSUME NEW base, NEW maximum \in Nat, NEW exponent
  PROVE  Backoff(base, maximum, exponent) \in Nat
BY DEF Backoff

LEMMA FailedRetryType ==
  ASSUME retry \in RetryTable, NEW T, NEW S \in SUBSET Attempts, NEW Y,
         NEW now \in Nat
  PROVE  FailedRetry(T, S, Y, now) \in RetryTable
<1> DEFINE Row == [failures : Nat, yields : Nat, notBefore : Nat]
           f == [t \in Failing(T, S) |-> RetryRow(t, t \in TasksOf(Y), now)]
<1>1. Failing(T, S) \subseteq Tasks
  BY DEF Failing, TasksOf, TaskOf, Attempts
<1>2. ASSUME NEW t \in Tasks, NEW y \in BOOLEAN
      PROVE  RetryRow(t, y, now) \in Row
  <2>1. FailureCount(t, y) \in Nat /\ YieldCount(t, y) \in Nat
    BY DEF FailureCount, YieldCount, RetryTable
  <2>2. /\ Backoff(YieldBackoff, YieldBackoffMax, YieldCount(t, y)) \in Nat
        /\ Backoff(RetryBackoff, RetryBackoffMax, FailureCount(t, y)) \in Nat
    BY BackoffType, TimingAssumption
  <2> QED BY <2>1, <2>2 DEF RetryRow
<1>3. f \in [Failing(T, S) -> Row]
  <2>1. ASSUME NEW t \in Failing(T, S) PROVE f[t] \in Row
    <3>1. t \in Tasks /\ (t \in TasksOf(Y)) \in BOOLEAN
      BY <1>1
    <3>2. RetryRow(t, t \in TasksOf(Y), now) \in Row
      BY <1>2, <3>1
    <3> QED BY <3>2
  <2> QED BY <2>1
<1>4. Override(f, retry) \in [Tasks -> Row]
  <2>1. retry \in [Tasks -> Row]
    BY DEF RetryTable
  <2> HIDE DEF f, Row
  <2> QED BY <1>1, <1>3, <2>1 DEF Override
<1> QED BY <1>4 DEF FailedRetry, RetryTable

\* The schedule moves offered and exhausted tasks.
LEMMA ScheduledTasksRows ==
  ASSUME NEW T \in TaskTable, NEW C \in SUBSET Tasks,
         NEW offers \in SUBSET Tasks,
         \A t \in offers : T[t].generation < MaxGen
  PROVE  /\ ScheduledTasks(T, C, offers) \in TaskTable
         /\ \A t \in Tasks :
              /\ ScheduledTasks(T, C, offers)[t].status =
                   IF t \in offers THEN "assigned"
                   ELSE IF t \in C /\ Exhausted(T, t)
                   THEN "needs_reconciliation" ELSE T[t].status
              /\ ScheduledTasks(T, C, offers)[t].generation =
                   IF t \in offers THEN T[t].generation + 1
                   ELSE T[t].generation
<1> DEFINE D == offers \cup {u \in C : Exhausted(T, u)}
           f == [t \in D |->
                   IF t \in offers
                   THEN [T[t] EXCEPT !.status = "assigned",
                                     !.generation = @ + 1]
                   ELSE [T[t] EXCEPT !.status = "needs_reconciliation"]]
<1>1. D \subseteq Tasks
  OBVIOUS
<1>2. ASSUME NEW t \in D PROVE f[t] \in TaskRow
  <2>1. CASE t \in offers
    <3>1. T[t] \in TaskRow /\ T[t].generation + 1 \in 0..MaxGen
      BY <1>1, <2>1, Rows, BoundsAssumption DEF TaskRow
    <3> QED BY <2>1, <3>1 DEF TaskRow, Statuses
  <2>2. CASE t \notin offers
    BY <1>1, <2>2, Rows, StatusRow DEF Statuses
  <2> QED BY <2>1, <2>2
<1>3. f \in [D -> TaskRow]
  BY <1>2
<1>4. /\ Override(f, T) \in [Tasks -> TaskRow]
      /\ \A t \in Tasks : Override(f, T)[t] = IF t \in D THEN f[t] ELSE T[t]
  <2>1. T \in [Tasks -> TaskRow]
    BY Rows
  <2> HIDE DEF f, D
  <2> QED BY <1>1, <1>3, <2>1, OverrideTable
<1>5. ASSUME NEW t \in Tasks
      PROVE  /\ Override(f, T)[t].status =
                  IF t \in offers THEN "assigned"
                  ELSE IF t \in C /\ Exhausted(T, t)
                  THEN "needs_reconciliation" ELSE T[t].status
             /\ Override(f, T)[t].generation =
                  IF t \in offers THEN T[t].generation + 1
                  ELSE T[t].generation
  <2>1. T[t] \in TaskRow
    BY Rows
  <2>2. CASE t \in offers
    BY <1>4, <2>1, <2>2 DEF TaskRow
  <2>3. CASE t \notin offers /\ t \in C /\ Exhausted(T, t)
    BY <1>4, <2>1, <2>3 DEF TaskRow
  <2>4. CASE t \notin D
    BY <1>4, <2>4
  <2> QED BY <2>2, <2>3, <2>4
<1> QED BY <1>4, <1>5, Rows DEF ScheduledTasks

\* The schedule inserts one offered row per offer.
LEMMA OfferedResRows ==
  ASSUME NEW R \in ResTable, NEW T \in TaskTable, NEW n \in Nodes,
         NEW offers \in SUBSET Tasks, NEW now \in Nat,
         \A t \in offers : T[t].generation < MaxGen
  PROVE  /\ OfferedRes(R, T, n, offers, now) \in ResTable
         /\ \A a \in Attempts :
              OfferedRes(R, T, n, offers, now)[a] =
                IF TaskOf(a) \in offers /\ a[2] = T[TaskOf(a)].generation + 1
                THEN [node |-> n, phase |-> "offered", observed |-> None,
                      seq |-> 0, deadline |-> now + Lease]
                ELSE R[a]
<1> DEFINE D == {NextAttempt(T, t) : t \in offers}
           row == [node |-> n, phase |-> "offered", observed |-> None,
                   seq |-> 0, deadline |-> now + Lease]
           f == [a \in D |-> row]
<1>1. D \subseteq Attempts
  BY BoundsAssumption DEF NextAttempt, Attempts, TaskTable
<1>2. row \in ResRow
  BY TimingAssumption DEF ResRow, RemotePhases
<1>3. f \in [D -> ResRow]
  BY <1>2
<1>4. /\ Override(f, R) \in [Attempts -> ResRow]
      /\ \A a \in Attempts : Override(f, R)[a] = IF a \in D THEN f[a] ELSE R[a]
  <2>1. R \in [Attempts -> ResRow]
    BY Rows
  <2> HIDE DEF f, D
  <2> QED BY <1>1, <1>3, <2>1, OverrideTable
<1>5. \A a \in Attempts :
        a \in D <=> TaskOf(a) \in offers /\ a[2] = T[TaskOf(a)].generation + 1
  BY DEF NextAttempt, Attempts, TaskOf
<1> QED BY <1>4, <1>5, Rows DEF OfferedRes

\* A report of node n, as far as the tables depend on it.
IsReport(n, r) ==
    /\ r.boot \in Boots /\ r.cap \in Capacities /\ r.observedAt \in Nat
    /\ r.foreign \in SUBSET Foreign
    /\ Seen(r) \in SUBSET Attempts
    /\ \A a \in Seen(r) : /\ res[a].node = n
                          /\ r.phase[a] \in RemotePhases
                          /\ r.usage[a] \in Usages

LEMMA ReportShape ==
  ASSUME NEW n, NEW now, NEW r \in Reports(n, now)
  PROVE  IsReport(n, r)
<1>1. PICK seen \in SUBSET {a \in Attempts : res[a].node = n} :
        r \in [boot : Boots, cap : Capacities,
              observedAt : {now - lag : lag \in Lags} \cap Nat,
              phase : [seen -> ReportPhases], usage : [seen -> Usages],
              foreign : SUBSET Foreign, freed : SUBSET Foreign]
  BY DEF Reports
<1>2. Seen(r) = seen
  BY <1>1 DEF Seen
<1> QED BY <1>1, <1>2, LaunchAssumption DEF IsReport

\* A report changes phase and usage of the rows it names or should name.
LEMMA MergedRows ==
  ASSUME NEW R \in ResTable, NEW F, NEW n, NEW r, NEW newer, IsReport(n, r)
  PROVE  /\ MergedRes(R, F, n, r, newer) \in ResTable
         /\ \A a \in Attempts :
              /\ MergedRes(R, F, n, r, newer)[a].phase =
                   IF a \in Seen(r) THEN ReportedPhase(R, F, r, newer, a)
                   ELSE IF a \in Missing(R, n, r) THEN "uncertain"
                   ELSE R[a].phase
              /\ MergedRes(R, F, n, r, newer)[a].node = R[a].node
              /\ MergedRes(R, F, n, r, newer)[a].seq = R[a].seq
<1> DEFINE D == Seen(r) \cup Missing(R, n, r)
           f == [a \in D |->
                   IF a \in Seen(r)
                   THEN [R[a] EXCEPT
                           !.phase = ReportedPhase(R, F, r, newer, a),
                           !.observed = r.usage[a]]
                   ELSE [R[a] EXCEPT !.phase = "uncertain",
                                     !.observed = None]]
<1>1. D \subseteq Attempts
  BY DEF IsReport, Missing
<1>2. ASSUME NEW a \in Seen(r)
      PROVE  ReportedPhase(R, F, r, newer, a) \in RemotePhases
  BY DEF IsReport, ReportedPhase, RemotePhases
<1>3. ASSUME NEW a \in D PROVE f[a] \in ResRow
  <2>1. R[a] \in ResRow
    BY <1>1, Rows
  <2>2. CASE a \in Seen(r)
    <3>1. r.usage[a] \in Usages \cup {None}
      BY <2>2 DEF IsReport
    <3> QED BY <1>2, <2>1, <2>2, <3>1 DEF ResRow
  <2>3. CASE a \notin Seen(r)
    BY <2>1, <2>3 DEF ResRow, RemotePhases
  <2> QED BY <2>2, <2>3
<1>4. f \in [D -> ResRow]
  BY <1>3
<1>5. /\ Override(f, R) \in [Attempts -> ResRow]
      /\ \A a \in Attempts : Override(f, R)[a] = IF a \in D THEN f[a] ELSE R[a]
  <2>1. R \in [Attempts -> ResRow]
    BY Rows
  <2> HIDE DEF f, D
  <2> QED BY <1>1, <1>4, <2>1 DEF Override
<1>6. ASSUME NEW a \in Attempts
      PROVE  /\ Override(f, R)[a].phase =
                  IF a \in Seen(r) THEN ReportedPhase(R, F, r, newer, a)
                  ELSE IF a \in Missing(R, n, r) THEN "uncertain"
                  ELSE R[a].phase
             /\ Override(f, R)[a].node = R[a].node
             /\ Override(f, R)[a].seq = R[a].seq
  <2>1. R[a] \in ResRow
    BY Rows
  <2>2. CASE a \in Seen(r)
    <3>1. f[a] = [R[a] EXCEPT !.phase = ReportedPhase(R, F, r, newer, a),
                              !.observed = r.usage[a]]
      BY <2>2
    <3>2. Override(f, R)[a] = f[a]
      BY <1>5, <2>2
    <3> HIDE DEF f
    <3> QED BY <2>1, <2>2, <3>1, <3>2 DEF ResRow
  <2>3. CASE a \notin Seen(r) /\ a \in Missing(R, n, r)
    <3>1. f[a] = [R[a] EXCEPT !.phase = "uncertain", !.observed = None]
      BY <2>3
    <3>2. Override(f, R)[a] = f[a]
      BY <1>5, <2>3
    <3> HIDE DEF f
    <3> QED BY <2>1, <2>3, <3>1, <3>2 DEF ResRow
  <2>4. CASE a \notin D
    BY <1>5, <2>4
  <2> QED BY <2>2, <2>3, <2>4
<1> QED BY <1>5, <1>6, Rows DEF MergedRes

\* A restart keeps the shape of the tables it rewrites.
LEMMA ReopenTyped ==
  ASSUME TypeOK, NEW R \in ResTable, NEW D \in SUBSET Attempts, Reopen(R, D)
  PROVE  res' \in ResTable /\ drains' \subseteq Attempts /\ epoch' \in Nat
<1>1. {a \in Attempts : Unreleased(R, a)} \in SUBSET Attempts
  OBVIOUS
<1>2. MakeUncertain(R, {a \in Attempts : Unreleased(R, a)}) \in ResTable
  BY <1>1, MakeUncertainRows
<1> QED BY <1>2 DEF Reopen, TypeOK

LEMMA TimesNat ==
  ASSUME TypeOK, NEW now \in Times
  PROVE  now \in Nat
BY BoundsAssumption DEF TypeOK, Times

\* The state the preamble leaves is typed.
LEMMA SettleTyped ==
  ASSUME TypeOK, NEW now \in Times, Settle(now)
  PROVE  /\ lastClock' \in Nat /\ res' \in ResTable /\ tasks' \in TaskTable
         /\ fences' \subseteq Attempts
BY SettledRows, TimesNat DEF Settle

LEMMA OperatorTyped ==
  ASSUME TypeOK, OperatorRequest
  PROVE  TypeOK'
<1> PICK now \in Times :
       \/ Status(now)
       \/ \E p \in Pools, spec \in PoolSpecs : PutPool(p, spec, now)
       \/ \E j \in Jobs : Submit(j, now)
       \/ \E t \in Tasks, confirmed \in BOOLEAN : Retry(t, confirmed, now)
       \/ \E j \in Cancellable : Cancel(j, now)
       \/ \E n \in Drainable, drain \in BOOLEAN : DrainNode(n, drain, now)
  BY DEF OperatorRequest
<1> USE DEF catalog, evidence, replay, failures, outcomes
<1>0. now \in Nat /\ ResAt(now) \in ResTable /\ TasksAt(now) \in TaskTable
      /\ FencesAt(now) \subseteq Attempts
  BY SettledRows, TimesNat
<1>1. CASE Status(now)
  BY <1>1, SettleTyped DEF Status, TypeOK
<1>2. CASE \E p \in Pools, spec \in PoolSpecs : PutPool(p, spec, now)
  BY <1>2, SettleTyped DEF PutPool, TypeOK
<1>3. CASE \E j \in Jobs : Submit(j, now)
  <2> PICK j \in Jobs : Submit(j, now)
    BY <1>3
  <2> DEFINE last == Cardinality({t \in Tasks : sequence[t] > 0})
             f == [t \in JobTasks(j) |-> last + Slot[t]]
             q == [t \in JobTasks(j) |-> [tasks[t] EXCEPT !.status = "queued"]]
  <2>1. JobTasks(j) \subseteq Tasks
    BY DEF JobTasks
  <2>2. last \in Nat
    <3>1. IsFiniteSet({t \in Tasks : sequence[t] > 0})
      BY FS_Subset, CatalogAssumption
    <3> QED BY <3>1, FS_CardinalityType
  <2>3. f \in [JobTasks(j) -> Nat]
    <3> HIDE DEF last
    <3> QED BY <2>1, <2>2, CatalogAssumption
  <2>4. Override(f, sequence) \in [Tasks -> Nat]
    <3>1. sequence \in [Tasks -> Nat]
      BY DEF TypeOK
    <3> HIDE DEF f
    <3> QED BY <2>1, <2>3, <3>1 DEF Override
  <2>5. q \in [JobTasks(j) -> TaskRow]
    <3>1. tasks \in [Tasks -> TaskRow] /\ "queued" \in Statuses
      BY Rows DEF TypeOK, Statuses
    <3> QED BY <2>1, <3>1, StatusRow
  <2>6. Override(q, TasksAt(now)) \in TaskTable
    <3>1. TasksAt(now) \in [Tasks -> TaskRow]
      BY <1>0, Rows
    <3>2. Override(q, TasksAt(now)) \in [Tasks -> TaskRow]
      <4> HIDE DEF q
      <4> QED BY <2>1, <2>5, <3>1 DEF Override
    <3> QED BY <3>2, Rows
  <2>7. jobs' \in [Jobs -> {"absent", "active", "cancelled"}]
    BY DEF Submit, TypeOK
  <2>8. /\ sequence' \in [Tasks -> Nat] /\ tasks' \in TaskTable
        /\ lastClock' \in Nat /\ res' \in ResTable /\ fences' \subseteq Attempts
    BY <1>0, <2>4, <2>6 DEF Submit
  <2>9. UNCHANGED <<pools, drains, preparations, evidence, replay, failures,
                    outcomes, epoch>>
    BY DEF Submit
  <2> QED BY <2>7, <2>8, <2>9 DEF TypeOK
<1>4. CASE \E t \in Tasks, confirmed \in BOOLEAN : Retry(t, confirmed, now)
  <2> PICK t \in Tasks, confirmed \in BOOLEAN : Retry(t, confirmed, now)
    BY <1>4
  <2>1. tasks' \in TaskTable
    <3>1. TasksAt(now) \in [Tasks -> TaskRow]
      BY <1>0, Rows
    <3>2. [TasksAt(now)[t] EXCEPT !.status = "queued"] \in TaskRow
      BY <3>1, StatusRow DEF Statuses
    <3> QED BY <3>1, <3>2, Rows DEF Retry
  <2>2. retry' \in RetryTable
    BY DEF Retry, TypeOK, RetryTable, NoRetry
  <2> QED BY <1>0, <2>1, <2>2 DEF Retry, TypeOK
<1>5. CASE \E j \in Cancellable : Cancel(j, now)
  BY <1>5, SettleTyped, CatalogAssumption DEF Cancel, TypeOK
<1>6. CASE \E n \in Drainable, drain \in BOOLEAN : DrainNode(n, drain, now)
  BY <1>6, SettleTyped, PrincipalsAssumption DEF DrainNode, TypeOK
<1> QED BY <1>1, <1>2, <1>3, <1>4, <1>5, <1>6

\* A grant changes phase, sequence and deadline of one row.
LEMMA GrantRow ==
  ASSUME NEW row \in ResRow, NEW q \in Nat, NEW d \in Nat
  PROVE  [row EXCEPT !.phase = "authorized", !.seq = q, !.deadline = d]
           \in ResRow
BY DEF ResRow, RemotePhases

LEMMA ExtendRows ==
  ASSUME NEW R \in ResTable, NEW a \in Attempts, NEW now \in Nat
  PROVE  Extend(R, a, now) \in ResTable
<1>1. R \in [Attempts -> ResRow] /\ R[a] \in ResRow /\ now + Lease \in Nat
  BY Rows, TimingAssumption
<1>2. R[a].seq + 1 \in Nat
  BY <1>1 DEF ResRow
<1>3. [R[a] EXCEPT !.phase = "authorized", !.seq = R[a].seq + 1,
                   !.deadline = now + Lease] \in ResRow
  BY <1>1, <1>2, GrantRow
<1> QED BY <1>1, <1>3, Rows DEF Extend

LEMMA AttemptTyped ==
  ASSUME TypeOK, AttemptRequest
  PROVE  TypeOK'
<1> PICK now \in Times, p \in Principals, s \in Wrappers, a \in Attempts :
       \/ \E e \in 1..MaxEpoch, identity \in Identities,
             applied \in SUBSET Controls :
             \/ Prepared(p, s, a, e, identity, applied, now)
             \/ PreparedInterrupted(p, s, a, e, identity, applied, now)
       \/ \E e \in 1..MaxEpoch, previous \in 0..MaxSeq :
             Renew(p, s, a, e, previous, now)
       \/ \E x \in Artifacts : CommitUpload(p, s, a, x, now)
       \/ \E r \in Results : PublishCheckpoint(p, s, a, r, now)
       \/ \E r \in Results : Complete(p, s, a, r, now)
       \/ \E kind \in {"yielded", "execution"} : Fail(p, s, a, kind, now)
  BY DEF AttemptRequest
<1> USE DEF catalog, evidence, replay, failures, outcomes
<1>0. /\ now \in Nat /\ ResAt(now) \in ResTable /\ TasksAt(now) \in TaskTable
      /\ FencesAt(now) \subseteq Attempts
      /\ Extend(ResAt(now), a, now) \in ResTable
  BY SettledRows, TimesNat, ExtendRows
<1>t. TaskOf(a) \in Tasks
  BY DEF TaskOf, Attempts
<1>1. ASSUME NEW e, NEW identity \in Identities, NEW applied,
             Prepared(p, s, a, e, identity, applied, now)
      PROVE  TypeOK'
  <2>1. res' \in ResTable
    BY <1>0, <1>1 DEF Prepared
  <2>2. preparations' \in [Attempts -> Identities \cup {None}]
    BY <1>1 DEF Prepared, TypeOK
  <2>3. UNCHANGED Identities
    BY DEF Identities
  <2> QED BY <1>0, <1>1, <2>1, <2>2, <2>3 DEF Prepared, TypeOK
<1>2. ASSUME NEW e, NEW identity \in Identities, NEW applied,
             PreparedInterrupted(p, s, a, e, identity, applied, now)
      PROVE  TypeOK'
  <2>1. res' \in ResTable /\ drains' \subseteq Attempts /\ epoch' \in Nat
    <3>1. drains \in SUBSET Attempts
      BY DEF TypeOK
    <3> QED BY <1>0, <1>2, <3>1, ReopenTyped DEF PreparedInterrupted
  <2>2. preparations' \in [Attempts -> Identities \cup {None}]
    BY <1>2 DEF PreparedInterrupted, TypeOK
  <2> QED BY <1>0, <1>2, <2>1, <2>2 DEF PreparedInterrupted, TypeOK
<1>3. ASSUME NEW e, NEW previous, Renew(p, s, a, e, previous, now)
      PROVE  TypeOK'
  <2>1. res' \in ResTable
    BY <1>0, <1>3 DEF Renew
  <2> QED BY <1>0, <1>3, <2>1 DEF Renew, TypeOK
<1>4. ASSUME NEW x \in Artifacts, CommitUpload(p, s, a, x, now)
      PROVE  TypeOK'
  BY <1>4, SettleTyped DEF CommitUpload, TypeOK
<1>5. ASSUME NEW r \in Results, PublishCheckpoint(p, s, a, r, now)
      PROVE  TypeOK'
  <2>1. checkpoints' \in [Tasks -> {None} \cup (Attempts \X Results)]
    BY <1>t, <1>5 DEF PublishCheckpoint, TypeOK
  <2>2. Settle(now)
    BY <1>5 DEF PublishCheckpoint
  <2>3. UNCHANGED <<catalog, drains, preparations, evidence, replay, failures,
                    publications, epoch>>
    BY <1>5 DEF PublishCheckpoint
  <2> QED BY <2>1, <2>2, <2>3, SettleTyped DEF TypeOK
<1>6. ASSUME NEW r \in Results, Complete(p, s, a, r, now)
      PROVE  TypeOK'
  <2>1. [TasksAt(now) EXCEPT ![TaskOf(a)].status = "completed",
                             ![TaskOf(a)].receipt = <<a, r>>] \in TaskTable
    BY ZenonT(40), <1>0, <1>t DEF TaskTable, Statuses
  <2> QED BY <1>0, <1>6, <2>1 DEF Complete, TypeOK
<1>7. ASSUME NEW kind, Fail(p, s, a, kind, now)
      PROVE  TypeOK'
  <2>1. /\ \A Y : FailedTasks(TasksAt(now), {a}, Y) \in TaskTable
        /\ \A Y : FailedRetry(TasksAt(now), {a}, Y, now) \in RetryTable
    <3>1. {a} \in SUBSET Attempts /\ retry \in RetryTable
      BY DEF TypeOK
    <3> QED BY <1>0, <3>1, FailedTasksRows, FailedRetryType
  <2>2. tasks' \in TaskTable /\ retry' \in RetryTable
    BY <1>7, <2>1 DEF Fail
  <2> QED BY <1>0, <1>7, <2>2 DEF Fail, TypeOK
<1> QED BY <1>1, <1>2, <1>3, <1>4, <1>5, <1>6, <1>7

\* The node tables after a report.
LEMMA RecordReportTyped ==
  ASSUME TypeOK, NEW n \in Nodes, NEW r, IsReport(n, r), NEW now \in Nat,
         RecordReport(n, r, now)
  PROVE  /\ nodes' \in [Nodes -> [boot : Boots, cap : Capacities,
                                observedAt : Nat, received : Nat] \cup {None}]
         /\ unrecognized' \in [Nodes -> SUBSET Foreign]
         /\ sessions' \in [Nodes -> [id : Nat, boot : Boots \cup {None},
                                   ready : BOOLEAN]]
<1>1. nodes' \in [Nodes -> [boot : Boots, cap : Capacities,
                           observedAt : Nat, received : Nat] \cup {None}]
  BY DEF RecordReport, TypeOK, IsReport
<1>2. Strangers(n, r) \in SUBSET Foreign
  BY DEF Strangers, TypeOK, IsReport
<1>3. unrecognized' \in [Nodes -> SUBSET Foreign]
  BY <1>2 DEF RecordReport, TypeOK
<1>4. sessions' \in [Nodes -> [id : Nat, boot : Boots \cup {None},
                              ready : BOOLEAN]]
  <2> DEFINE Row == [id : Nat, boot : Boots \cup {None}, ready : BOOLEAN]
  <2>1. sessions \in [Nodes -> Row] /\ Registered(n) \in BOOLEAN
    BY DEF TypeOK, Registered
  <2>2. ASSUME NEW b \in BOOLEAN
        PROVE  [sessions EXCEPT ![n].ready = b] \in [Nodes -> Row]
    BY <2>1
  <2> QED BY <2>1, <2>2 DEF RecordReport
<1> QED BY <1>1, <1>3, <1>4

\* The yields a report confirms are attempts it names.
LEMMA YieldingSeen ==
  ASSUME NEW T, NEW n, NEW r, IsReport(n, r)
  PROVE  Yielding(T, r) \in SUBSET Attempts
BY DEF Yielding, IsReport

\* Only rows of the ledger are asked to leave.
LEMMA PreemptedAttempts ==
  ASSUME NEW R, NEW n, NEW cap, NEW E, NEW offers
  PROVE  AllPreempted(R, n, cap, E, offers) \subseteq Attempts
<1>1. ASSUME NEW prior, NEW t
      PROVE  Preempted(R, n, cap, prior, t) \subseteq Attempts
  <2>1. Selected(R, n, prior, t) \subseteq Attempts
    BY DEF Selected, Preemptible
  <2>2. Preempted(R, n, cap, prior, t) \subseteq Selected(R, n, prior, t)
    BY DEF Preempted
  <2> QED BY <2>1, <2>2
<1> QED BY <1>1 DEF AllPreempted

LEMMA HeartbeatTyped ==
  ASSUME TypeOK, NEW now \in Times, NEW n \in Nodes, NEW s,
         NEW r \in Reports(n, now), Heartbeat(n, s, r, now)
  PROVE  TypeOK'
<1> DEFINE R == ResAt(now)
           F == FencesAt(now)
           M == MergedRes(R, F, n, r, Newer(n, r))
           Y == Yielding(TasksAt(now), r)
           T == FailedTasks(TasksAt(now), Y, Y)
           B == FailedRetry(TasksAt(now), Y, Y, now)
           schedules == /\ Fresh(r.observedAt, now) /\ ObservedLive(r)
                        /\ NothingUnknown(R, n, r, Newer(n, r)) /\ r.cap.expand
                        /\ n \notin drained
                        /\ ReplayNodeCanAdmit(M, n, TRUE, Strangers(n, r))
           C == IF schedules THEN Considered(T, B, n, now) ELSE {}
           E == Eligible(M, T, C, r.cap)
<1>1. /\ RecordReport(n, r, now) /\ lastClock' = now
      /\ fences' = MergedFences(R, F, M, n, r) /\ retry' = B
      /\ failureReceipts' = failureReceipts \cup Y
      /\ \E offers \in SUBSET E :
           /\ tasks' = ScheduledTasks(T, C, offers)
           /\ res' = OfferedRes(M, T, n, offers, now)
           /\ drains' = MergedDrains(M, r)
                          \cup AllPreempted(M, n, r.cap, E, offers)
      /\ UNCHANGED <<catalog, preparations, drained, retired, outcomes, epoch>>
  BY DEF Heartbeat
<1>2. IsReport(n, r) /\ now \in Nat
  BY ReportShape, TimesNat
<1>3. R \in ResTable /\ TasksAt(now) \in TaskTable /\ F \subseteq Attempts
  BY SettledRows
<1>4. Y \in SUBSET Attempts
  BY <1>2, YieldingSeen
<1>5. M \in ResTable
  <2> HIDE DEF R, F
  <2> QED BY <1>2, <1>3, MergedRows
<1>6. T \in TaskTable /\ B \in RetryTable
  <2> HIDE DEF Y
  <2>1. retry \in RetryTable
    BY DEF TypeOK
  <2> QED BY <1>2, <1>3, <1>4, <2>1, FailedTasksRows, FailedRetryType
<1>7. C \in SUBSET Tasks
  BY DEF Considered
<1>8. E \in SUBSET Tasks /\ \A t \in E : T[t].generation < MaxGen
  <2> HIDE DEF C, M, T
  <2> QED BY <1>7 DEF Eligible
<1> HIDE DEF R, F, M, Y, T, B, C, E
<1>9. PICK offers \in SUBSET E :
           /\ tasks' = ScheduledTasks(T, C, offers)
           /\ res' = OfferedRes(M, T, n, offers, now)
           /\ drains' = MergedDrains(M, r)
                          \cup AllPreempted(M, n, r.cap, E, offers)
  BY <1>1
<1>10. offers \in SUBSET Tasks /\ \A t \in offers : T[t].generation < MaxGen
  BY <1>8
<1>11. tasks' \in TaskTable
  BY <1>6, <1>7, <1>9, <1>10, ScheduledTasksRows
<1>12. res' \in ResTable
  BY <1>2, <1>5, <1>6, <1>9, <1>10, OfferedResRows
<1>13. drains' \subseteq Attempts
  BY <1>2, <1>9, PreemptedAttempts DEF MergedDrains, IsReport, TypeOK
<1>14. fences' \subseteq Attempts
  BY <1>1, <1>2, <1>3 DEF MergedFences, Missing, IsReport
<1>15. failureReceipts' \subseteq Attempts
  BY <1>1, <1>4 DEF TypeOK
<1>16. retry' \in RetryTable
  BY <1>1, <1>6
<1>17. lastClock' \in Nat
  BY <1>1, <1>2
<1> QED BY <1>1, <1>2, <1>11, <1>12, <1>13, <1>14, <1>15, <1>16, <1>17,
           RecordReportTyped DEF TypeOK, catalog, outcomes

LEMMA HeartbeatInterruptedTyped ==
  ASSUME TypeOK, NEW now \in Times, NEW n \in Nodes, NEW s,
         NEW r \in Reports(n, now), NEW K \in SUBSET Yielding(TasksAt(now), r),
         HeartbeatInterrupted(n, s, r, K, now)
  PROVE  TypeOK'
<1> DEFINE R == ResAt(now)
           F == FencesAt(now)
           M == MergedRes(R, F, n, r, Newer(n, r))
           D == MergedDrains(M, r)
<1>1. /\ RecordReport(n, r, now) /\ lastClock' = now
      /\ fences' = MergedFences(R, F, M, n, r)
      /\ tasks' = FailedTasks(TasksAt(now), K, K)
      /\ retry' = FailedRetry(TasksAt(now), K, K, now)
      /\ failureReceipts' = failureReceipts \cup K
      /\ Reopen(M, D)
      /\ UNCHANGED <<catalog, preparations, drained, retired, outcomes>>
  BY DEF HeartbeatInterrupted
<1>2. IsReport(n, r) /\ now \in Nat
  BY ReportShape, TimesNat
<1>3. R \in ResTable /\ TasksAt(now) \in TaskTable /\ F \subseteq Attempts
  BY SettledRows
<1>4. K \in SUBSET Attempts
  BY <1>2, YieldingSeen
<1>5. M \in ResTable
  <2> HIDE DEF R, F
  <2> QED BY <1>2, <1>3, MergedRows
<1> HIDE DEF R, F, M
<1>6. tasks' \in TaskTable /\ retry' \in RetryTable
  <2>1. retry \in RetryTable
    BY DEF TypeOK
  <2> QED BY <1>1, <1>2, <1>3, <1>4, <2>1, FailedTasksRows, FailedRetryType
<1>7. D \in SUBSET Attempts
  BY <1>2 DEF MergedDrains, IsReport, TypeOK
<1> HIDE DEF D
<1>8. res' \in ResTable /\ drains' \subseteq Attempts /\ epoch' \in Nat
  BY <1>1, <1>5, <1>7, ReopenTyped
<1>9. fences' \subseteq Attempts /\ failureReceipts' \subseteq Attempts
  BY <1>1, <1>2, <1>3, <1>4 DEF MergedFences, Missing, IsReport, TypeOK
<1> QED BY <1>1, <1>2, <1>6, <1>8, <1>9,
           RecordReportTyped DEF TypeOK, catalog, outcomes

LEMMA OpenReplaySessionTyped ==
  ASSUME TypeOK, NEW now \in Times, NEW n \in ReplayNodes, NEW boot \in Boots,
         NEW s \in 1..MaxSession, OpenReplaySession(n, boot, s, now)
  PROVE  TypeOK'
<1> DEFINE R == ResAt(now)
           lost == Lost(R, n)
           D == {u \in TasksOf({a \in lost : IsLatest(tasks, a)}) :
                   tasks[u].status # "completed"}
           f == [t \in D |-> [tasks[t] EXCEPT !.status = Unsettled(t)]]
<1>1. /\ retired' = [retired EXCEPT ![n] = @ \cup ({sessions[n].id} \ {0})]
      /\ sessions' = [sessions EXCEPT ![n] =
                        [id |-> s, boot |-> boot, ready |-> FALSE]]
      /\ tasks' = Override(f, TasksAt(now))
      /\ res' = MakeUncertain(R, lost)
      /\ fences' = FencesAt(now) \cup lost
      /\ lastClock' = now
      /\ UNCHANGED <<catalog, drains, preparations, evidence, failures,
                     outcomes, epoch>>
  BY DEF OpenReplaySession
<1>2. now \in Nat /\ n \in Nodes
  BY TimesNat, PrincipalsAssumption
<1>3. R \in ResTable /\ TasksAt(now) \in TaskTable
      /\ FencesAt(now) \subseteq Attempts
  BY SettledRows
<1>4. lost \in SUBSET Attempts
  BY DEF Lost
<1>5. D \subseteq Tasks
  BY DEF TasksOf, TaskOf, Attempts, Lost
<1>6. f \in [D -> TaskRow]
  <2>1. tasks \in [Tasks -> TaskRow]
    BY Rows DEF TypeOK
  <2> QED BY <1>5, <2>1, StatusRow DEF Statuses, Unsettled
<1> HIDE DEF R, lost, D, f
<1>7. tasks' \in TaskTable
  <2>1. TasksAt(now) \in [Tasks -> TaskRow]
    BY <1>3, Rows
  <2>2. Override(f, TasksAt(now)) \in [Tasks -> TaskRow]
    BY <1>5, <1>6, <2>1 DEF Override
  <2> QED BY <1>1, <2>2, Rows
<1>8. res' \in ResTable /\ fences' \subseteq Attempts
  BY <1>1, <1>3, <1>4, MakeUncertainRows
<1>9. retired' \in [Nodes -> SUBSET (Nat \ {0})]
  BY <1>1, <1>2 DEF TypeOK
<1>10. sessions' \in [Nodes -> [id : Nat, boot : Boots \cup {None},
                               ready : BOOLEAN]]
  <2>1. [id |-> s, boot |-> boot, ready |-> FALSE]
          \in [id : Nat, boot : Boots \cup {None}, ready : BOOLEAN]
    OBVIOUS
  <2> QED BY <1>1, <1>2, <2>1 DEF TypeOK
<1> QED BY <1>1, <1>2, <1>7, <1>8, <1>9, <1>10
        DEF TypeOK, catalog, evidence, failures, outcomes

LEMMA InterruptionTyped ==
  ASSUME TypeOK, Interruption
  PROVE  TypeOK'
<1> USE DEF catalog, evidence, replay, failures, outcomes
<1>0. drains \in SUBSET Attempts /\ res \in ResTable /\ tasks \in TaskTable
  BY DEF TypeOK
<1>1. CASE Restart
  <2>1. res' \in ResTable /\ drains' \subseteq Attempts /\ epoch' \in Nat
    BY <1>0, <1>1, ReopenTyped DEF Restart
  <2> QED BY <1>1, <2>1 DEF Restart, TypeOK
<1>2. ASSUME NEW now \in Times, NEW W \in SUBSET Lapsed(now),
             NEW X \in SUBSET Lapsed(now), ExpireInterrupted(W, X, now)
      PROVE  TypeOK'
  <2>1. res' \in ResTable /\ drains' \subseteq Attempts /\ epoch' \in Nat
    BY <1>0, <1>2, ReopenTyped DEF ExpireInterrupted
  <2>2. W \in SUBSET Attempts /\ X \in SUBSET Attempts
    BY DEF Lapsed
  <2>3. tasks' \in TaskTable
    BY <1>0, <1>2, <2>2, MarkUncertainRows DEF ExpireInterrupted
  <2>4. now \in Nat
    BY TimesNat
  <2> QED BY <1>2, <2>1, <2>2, <2>3, <2>4 DEF ExpireInterrupted, TypeOK
<1> QED BY <1>1, <1>2 DEF Interruption

(***************************************************************************)
(* Every table keeps its shape through every request, restart and crash.   *)
(***************************************************************************)
THEOREM Typing == Spec => []TypeOK
<1>1. Init => TypeOK
  <2> SUFFICES ASSUME Init PROVE TypeOK
    OBVIOUS
  <2>1. tasks \in TaskTable
    BY BoundsAssumption DEF Init, TaskTable, Statuses
  <2>2. res \in ResTable
    BY DEF Init, ResTable, NoReservation
  <2>3. retry \in RetryTable
    BY DEF Init, RetryTable, NoRetry
  <2> QED BY <2>1, <2>2, <2>3 DEF Init, TypeOK
<1>2. TypeOK /\ [Next]_vars => TypeOK'
  <2> SUFFICES ASSUME TypeOK, [Next]_vars PROVE TypeOK'
    OBVIOUS
  <2>1. CASE OperatorRequest
    BY <2>1, OperatorTyped
  <2>2. CASE AttemptRequest
    BY <2>2, AttemptTyped
  <2>3. CASE NodeRequest
    BY <2>3, HeartbeatTyped, HeartbeatInterruptedTyped, OpenReplaySessionTyped
       DEF NodeRequest
  <2>4. CASE Interruption
    BY <2>4, InterruptionTyped
  <2>5. CASE UNCHANGED vars
    BY <2>5 DEF TypeOK, vars, catalog, evidence, replay, failures, outcomes
  <2> QED BY <2>1, <2>2, <2>3, <2>4, <2>5 DEF Next
<1> QED BY <1>1, <1>2, PTL DEF Spec

-----------------------------------------------------------------------------
(* Single authority.  The tables change by five kinds of update, each of   *)
(* which keeps SafeTables; the actions are sequences of these updates.     *)

LEMMA AttemptPair ==
  ASSUME NEW a \in Attempts
  PROVE  a = <<a[1], a[2]>> /\ a[1] \in Tasks /\ a[2] \in 1..MaxGen
BY DEF Attempts

\* A task has one latest attempt.
LEMMA LatestUnique ==
  ASSUME NEW T, NEW a \in Attempts, NEW b \in Attempts,
         TaskOf(a) = TaskOf(b), IsLatest(T, a), IsLatest(T, b)
  PROVE  a = b
BY AttemptPair DEF IsLatest, TaskOf

LEMMA MakeUncertainFields ==
  ASSUME NEW R \in ResTable, NEW U \in SUBSET Attempts, NEW a \in Attempts
  PROVE  /\ MakeUncertain(R, U)[a].phase
              = IF a \in U THEN "uncertain" ELSE R[a].phase
         /\ MakeUncertain(R, U)[a].node = R[a].node
         /\ MakeUncertain(R, U)[a].seq = R[a].seq
<1>1. R[a] \in ResRow
  BY Rows
<1>2. MakeUncertain(R, U)[a] = IF a \in U
        THEN [R[a] EXCEPT !.phase = "uncertain"] ELSE R[a]
  BY MakeUncertainRows
<1> QED BY <1>1, <1>2 DEF ResRow

\* Update 1: unreleased rows become uncertain, dead rows may be fenced.
LEMMA UncertainKeeps ==
  ASSUME NEW R \in ResTable, NEW T, NEW F, SafeTables(R, T, F),
         NEW U \in SUBSET Attempts, \A a \in U : Unreleased(R, a),
         NEW F2 \in SUBSET Attempts, F \subseteq F2,
         \A a \in F2 : a \in F \cup U
  PROVE  SafeTables(MakeUncertain(R, U), T, F2)
<1> DEFINE M == MakeUncertain(R, U)
<1>1. \A a \in Attempts :
        /\ M[a].phase = IF a \in U THEN "uncertain" ELSE R[a].phase
        /\ M[a].node = R[a].node
  BY MakeUncertainFields
<1>2. \A a \in U : R[a].phase \notin {"none", "released"}
  BY DEF Unreleased
<1> HIDE DEF M
<1>3. RowsOf(M)
  BY <1>1, <1>2 DEF SafeTables, RowsOf
<1>4. GenerationsOf(M, T)
  BY <1>1, <1>2 DEF SafeTables, GenerationsOf
<1>5. FencedOf(M, F2)
  BY <1>1 DEF SafeTables, FencedOf
<1>6. AuthorityOf(M, T, F2)
  <2> SUFFICES ASSUME NEW a \in Attempts, M[a].phase # "none",
                      ~CurrentAttempt(T, a)
               PROVE  Inert(M, F2, a)
    BY DEF AuthorityOf
  <2>1. Inert(R, F, a)
    BY <1>1, <1>2 DEF SafeTables, AuthorityOf
  <2> QED BY <1>1, <1>2, <2>1 DEF Inert
<1> QED BY <1>3, <1>4, <1>5, <1>6 DEF SafeTables, M

\* Update 2: a task leaves its attempt once that attempt is inert.
LEMMA TasksKeep ==
  ASSUME NEW R, NEW T, NEW T2, NEW F, SafeTables(R, T, F),
         \A t \in Tasks :
           /\ T2[t].generation = T[t].generation
           /\ \/ T2[t].status = T[t].status
              \/ T2[t].status = "completed"
              \/ T[t].status \notin {"assigned", "completed"}
              \/ \A a \in Attempts : TaskOf(a) = t /\ IsLatest(T, a) =>
                                        Inert(R, F, a)
  PROVE  SafeTables(R, T2, F)
<1>1. \A a \in Attempts : TaskOf(a) \in Tasks /\ TaskOf(a) = a[1]
  BY AttemptPair DEF TaskOf
<1>2. GenerationsOf(R, T2)
  BY <1>1 DEF SafeTables, GenerationsOf
<1>3. AuthorityOf(R, T2, F)
  BY <1>1 DEF SafeTables, AuthorityOf, CurrentAttempt, IsLatest
<1> QED BY <1>2, <1>3 DEF SafeTables

\* Update 3: a grant extends a live current attempt.
LEMMA ExtendKeeps ==
  ASSUME NEW R \in ResTable, NEW T, NEW F \in SUBSET Attempts,
         SafeTables(R, T, F), NEW a \in Attempts, NEW now \in Nat,
         CurrentAttempt(T, a), Live(R, a)
  PROVE  SafeTables(Extend(R, a, now), T, F)
<1> DEFINE M == Extend(R, a, now)
<1>1. \A b \in Attempts :
        /\ M[b].phase = IF b = a THEN "authorized" ELSE R[b].phase
        /\ M[b].node = R[b].node
  BY DEF Extend, ResTable
<1>2. R[a].phase \notin {"none", "released", "uncertain"}
  BY DEF Live
<1> HIDE DEF M
<1>3. RowsOf(M)
  BY <1>1, <1>2 DEF SafeTables, RowsOf
<1>4. GenerationsOf(M, T)
  BY <1>1, <1>2 DEF SafeTables, GenerationsOf
<1>5. FencedOf(M, F)
  <2>1. a \notin F
    BY <1>2 DEF SafeTables, FencedOf
  <2> QED BY <1>1, <2>1 DEF SafeTables, FencedOf
<1>6. AuthorityOf(M, T, F)
  BY <1>1, <1>2 DEF SafeTables, AuthorityOf, Inert
<1> QED BY <1>3, <1>4, <1>5, <1>6 DEF SafeTables, M

\* Update 4: a report never revives an inert row, and fences what it doubts.
LEMMA MergeKeeps ==
  ASSUME NEW R \in ResTable, NEW T, NEW F \in SUBSET Attempts,
         SafeTables(R, T, F), NEW n \in Nodes, NEW r, IsReport(n, r),
         NEW newer, \A a \in Attempts : R[a].node = res[a].node
  PROVE  LET M == MergedRes(R, F, n, r, newer)
         IN  SafeTables(M, T, MergedFences(R, F, M, n, r))
<1> DEFINE M == MergedRes(R, F, n, r, newer)
           F2 == MergedFences(R, F, M, n, r)
           P(a) == ReportedPhase(R, F, r, newer, a)
<1>1. \A a \in Attempts :
        /\ M[a].phase = IF a \in Seen(r) THEN P(a)
                        ELSE IF a \in Missing(R, n, r) THEN "uncertain"
                        ELSE R[a].phase
        /\ M[a].node = R[a].node
  BY MergedRows
<1>2. \A a \in Missing(R, n, r) : R[a].phase \notin {"none", "released"}
  BY DEF Missing, Unreleased
<1>3. Seen(r) \subseteq Attempts /\ Missing(R, n, r) \subseteq Attempts
  BY DEF IsReport, Missing
<1>4. \A a \in Seen(r) : R[a].phase # "none" /\ P(a) # "none"
  <2> TAKE a \in Seen(r)
  <2>1. R[a].node = n /\ None # n
    BY PrincipalsAssumption DEF IsReport
  <2>2. R[a].phase # "none"
    BY <1>3, <2>1 DEF SafeTables, RowsOf
  <2>3. P(a) # "none"
    BY <2>2 DEF ReportedPhase, IsReport, RemotePhases
  <2> QED BY <2>2, <2>3
<1>5. \A a \in Seen(r) :
        /\ R[a].phase = "released" => P(a) \in {"released", "uncertain"}
        /\ R[a].phase = "uncertain" /\ a \in F => P(a) \in {"released", "uncertain"}
  BY DEF ReportedPhase
<1>6. F2 = F \cup Missing(R, n, r) \cup {a \in Seen(r) : M[a].phase = "uncertain"}
  BY DEF MergedFences
<1> HIDE DEF M, F2, P
<1>7. RowsOf(M)
  BY <1>1, <1>2, <1>4 DEF SafeTables, RowsOf
<1>8. GenerationsOf(M, T)
  BY <1>1, <1>2, <1>4 DEF SafeTables, GenerationsOf
<1>9. FencedOf(M, F2)
  <2>1. \A a \in F : a \in Attempts /\ R[a].phase \in {"uncertain", "released"}
    BY DEF SafeTables, FencedOf
  <2>2. ASSUME NEW a \in F PROVE M[a].phase \in {"uncertain", "released"}
    BY <1>1, <1>5, <2>1
  <2>3. ASSUME NEW a \in Missing(R, n, r) PROVE M[a].phase = "uncertain"
    BY <1>1, <1>3 DEF Missing
  <2> QED BY <1>6, <2>2, <2>3 DEF FencedOf
<1>10. AuthorityOf(M, T, F2)
  <2> SUFFICES ASSUME NEW a \in Attempts, M[a].phase # "none",
                      ~CurrentAttempt(T, a)
               PROVE  Inert(M, F2, a)
    BY DEF AuthorityOf
  <2>1. Inert(R, F, a)
    BY <1>1, <1>2, <1>4 DEF SafeTables, AuthorityOf
  <2> QED BY <1>1, <1>5, <1>6, <2>1 DEF Inert
<1> QED BY <1>7, <1>8, <1>9, <1>10 DEF SafeTables, M, F2

\* Update 5: an offer starts the next generation of a task nothing holds.
LEMMA OfferKeeps ==
  ASSUME NEW R \in ResTable, NEW T \in TaskTable, NEW F \in SUBSET Attempts,
         SafeTables(R, T, F), NEW n \in Nodes, NEW now \in Nat,
         NEW C \in SUBSET Tasks, \A t \in C : T[t].status = "queued",
         NEW offers \in SUBSET C,
         \A t \in offers : T[t].generation < MaxGen /\ ~Held(R, t)
  PROVE  SafeTables(OfferedRes(R, T, n, offers, now),
                    ScheduledTasks(T, C, offers), F)
<1> DEFINE M == OfferedRes(R, T, n, offers, now)
           T2 == ScheduledTasks(T, C, offers)
           New(a) == TaskOf(a) \in offers /\ a[2] = T[TaskOf(a)].generation + 1
<1>0. offers \in SUBSET Tasks
  OBVIOUS
<1>1. \A a \in Attempts :
        /\ M[a].phase = IF New(a) THEN "offered" ELSE R[a].phase
        /\ M[a].node = IF New(a) THEN n ELSE R[a].node
  <2> TAKE a \in Attempts
  <2>1. M[a] = IF New(a)
                THEN [node |-> n, phase |-> "offered", observed |-> None,
                      seq |-> 0, deadline |-> now + Lease]
                ELSE R[a]
    BY <1>0, OfferedResRows
  <2> HIDE DEF M
  <2> QED BY <2>1
<1>2. \A t \in Tasks :
        /\ T[t].generation \in Nat
        /\ t \in offers => /\ T2[t].status = "assigned"
                           /\ T2[t].generation = T[t].generation + 1
        /\ t \notin offers => /\ T2[t].generation = T[t].generation
                              /\ \/ T2[t].status = T[t].status
                                 \/ T[t].status = "queued"
  <2>1. \A t \in Tasks : T[t].generation \in Nat
    BY Rows, BoundsAssumption DEF TaskRow
  <2>2. \A t \in Tasks :
          /\ T2[t].status = IF t \in offers THEN "assigned"
                            ELSE IF t \in C /\ Exhausted(T, t)
                            THEN "needs_reconciliation" ELSE T[t].status
          /\ T2[t].generation = IF t \in offers THEN T[t].generation + 1
                                ELSE T[t].generation
    BY <1>0, ScheduledTasksRows
  <2> HIDE DEF T2
  <2> QED BY <2>1, <2>2
<1>3. \A a \in Attempts : /\ TaskOf(a) \in Tasks /\ TaskOf(a) = a[1]
                          /\ a[2] \in Nat
  BY AttemptPair, BoundsAssumption DEF TaskOf
<1>4. \A a \in Attempts : TaskOf(a) \in offers =>
        R[a].phase \in {"none", "released"}
  BY DEF Held, Unreleased
<1>5. \A a \in Attempts : New(a) => R[a].phase = "none"
  BY <1>0, <1>2, <1>3 DEF SafeTables, GenerationsOf
<1> HIDE DEF M, T2
<1>6. RowsOf(M)
  BY <1>1, PrincipalsAssumption DEF SafeTables, RowsOf
<1>7. GenerationsOf(M, T2)
  BY <1>0, <1>1, <1>2, <1>3 DEF SafeTables, GenerationsOf
<1>8. FencedOf(M, F)
  BY <1>1, <1>5 DEF SafeTables, FencedOf
<1>9. AuthorityOf(M, T2, F)
  <2> SUFFICES ASSUME NEW a \in Attempts, M[a].phase # "none"
               PROVE  CurrentAttempt(T2, a) \/ Inert(M, F, a)
    BY DEF AuthorityOf
  <2>1. CASE New(a)
    BY <1>2, <1>3, <2>1 DEF CurrentAttempt, IsLatest
  <2>2. CASE ~New(a) /\ TaskOf(a) \in offers
    BY <1>1, <1>4, <2>2 DEF Inert
  <2>3. CASE TaskOf(a) \notin offers
    <3>1. M[a].phase = R[a].phase
      BY <1>1, <2>3
    <3>2. CurrentAttempt(T, a) \/ Inert(R, F, a)
      BY <3>1 DEF SafeTables, AuthorityOf
    <3>3. CurrentAttempt(T, a) => CurrentAttempt(T2, a)
      BY <1>2, <1>3, <2>3 DEF CurrentAttempt, IsLatest
    <3> QED BY <3>1, <3>2, <3>3 DEF Inert
  <2> QED BY <2>1, <2>2, <2>3
<1> QED BY <1>6, <1>7, <1>8, <1>9 DEF SafeTables, M, T2

\* What the tasks a request leaves alone and moves have in common.
Grown(T, T2) ==
    \A t \in Tasks :
      IF T[t].status = "absent"
      THEN T2[t].status = "absent" /\ T2[t].generation = T[t].generation
      ELSE T2[t].status # "absent"

LEMMA GrownKeeps ==
  ASSUME SubmittedWithJob, Grown(tasks, tasks'),
         \A j \in Jobs : jobs'[j] = "absent" => jobs[j] = "absent"
  PROVE  SubmittedWithJob'
BY CatalogAssumption DEF SubmittedWithJob, Grown

LEMMA MarkUncertainFields ==
  ASSUME NEW T \in TaskTable, NEW S \in SUBSET Attempts, NEW t \in Tasks
  PROVE  /\ MarkUncertain(T, S)[t].status =
              IF t \in TasksOf(S) /\ T[t].status = "assigned"
              THEN Unsettled(t) ELSE T[t].status
         /\ MarkUncertain(T, S)[t].generation = T[t].generation
<1>1. T[t] \in TaskRow
  BY Rows
<1>2. MarkUncertain(T, S)[t] = IF t \in TasksOf(S) /\ T[t].status = "assigned"
        THEN [T[t] EXCEPT !.status = Unsettled(t)] ELSE T[t]
  BY MarkUncertainRows
<1> QED BY <1>1, <1>2 DEF TaskRow

\* Expiry of a set of latest attempts, their rows already uncertain.
LEMMA MarkUncertainSafe ==
  ASSUME NEW R, NEW T \in TaskTable, NEW F, SafeTables(R, T, F),
         NEW S \in SUBSET Attempts,
         \A a \in S : IsLatest(T, a) /\ Inert(R, F, a)
  PROVE  SafeTables(R, MarkUncertain(T, S), F) /\ Grown(T, MarkUncertain(T, S))
<1> DEFINE T2 == MarkUncertain(T, S)
<1>1. \A t \in Tasks :
        /\ T2[t].status = IF t \in TasksOf(S) /\ T[t].status = "assigned"
                          THEN Unsettled(t) ELSE T[t].status
        /\ T2[t].generation = T[t].generation
  BY MarkUncertainFields
<1>2. ASSUME NEW t \in TasksOf(S), NEW a \in Attempts,
             TaskOf(a) = t, IsLatest(T, a)
      PROVE  Inert(R, F, a)
  <2>1. PICK b \in S : TaskOf(b) = t
    BY DEF TasksOf
  <2>2. a = b
    BY <1>2, <2>1, LatestUnique
  <2> QED BY <2>2
<1> HIDE DEF T2
<1>3. SafeTables(R, T2, F)
  <2>1. \A t \in Tasks :
          /\ T2[t].generation = T[t].generation
          /\ \/ T2[t].status = T[t].status
             \/ \A a \in Attempts : TaskOf(a) = t /\ IsLatest(T, a) =>
                                       Inert(R, F, a)
    BY <1>1, <1>2
  <2> QED BY <2>1, TasksKeep
<1>4. Grown(T, T2)
  BY <1>1 DEF Grown, Unsettled
<1> QED BY <1>3, <1>4 DEF T2

\* A live row is current, so expiry always finds the latest generation.
LEMMA LapsedLatest ==
  ASSUME SafeTables(res, tasks, fences), NEW now, NEW a \in Lapsed(now)
  PROVE  /\ a \in Attempts /\ IsLatest(tasks, a) /\ Unreleased(res, a)
         /\ CurrentAttempt(tasks, a)
<1>1. a \in Attempts /\ res[a].phase \notin {"none", "released", "uncertain"}
  BY DEF Lapsed, Live
<1>2. CurrentAttempt(tasks, a)
  BY <1>1 DEF SafeTables, AuthorityOf, Inert
<1> QED BY <1>1, <1>2 DEF CurrentAttempt, Unreleased

\* The preamble of every request keeps the invariant.
LEMMA SettledSafe ==
  ASSUME TypeOK, SafeTables(res, tasks, fences), NEW now
  PROVE  /\ SafeTables(ResAt(now), TasksAt(now), FencesAt(now))
         /\ Grown(tasks, TasksAt(now))
         /\ \A a \in Attempts : ResAt(now)[a].node = res[a].node
         /\ \A t \in Tasks : TasksAt(now)[t].generation = tasks[t].generation
<1> DEFINE L == Lapsed(now)
<1>1. /\ res \in ResTable /\ tasks \in TaskTable /\ L \in SUBSET Attempts
      /\ fences \cup L \in SUBSET Attempts
  BY SettledRows DEF TypeOK, FencesAt
<1>2. \A a \in L : IsLatest(tasks, a) /\ Unreleased(res, a)
  BY LapsedLatest
<1> HIDE DEF L
<1>3. SafeTables(MakeUncertain(res, L), tasks, fences \cup L)
  <2> DEFINE F2 == fences \cup L
  <2>1. F2 \in SUBSET Attempts /\ fences \subseteq F2
        /\ \A a \in F2 : a \in fences \cup L
    BY <1>1
  <2> HIDE DEF F2
  <2>2. SafeTables(MakeUncertain(res, L), tasks, F2)
    BY <1>1, <1>2, <2>1, UncertainKeeps
  <2> QED BY <2>2 DEF F2
<1>4. \A a \in L : Inert(MakeUncertain(res, L), fences \cup L, a)
  BY <1>1, MakeUncertainFields DEF Inert
<1>5. /\ SafeTables(MakeUncertain(res, L), MarkUncertain(tasks, L), fences \cup L)
      /\ Grown(tasks, MarkUncertain(tasks, L))
  BY <1>1, <1>2, <1>3, <1>4, MarkUncertainSafe
<1>6. \A a \in Attempts : MakeUncertain(res, L)[a].node = res[a].node
  BY <1>1, MakeUncertainFields
<1>7. \A t \in Tasks : MarkUncertain(tasks, L)[t].generation = tasks[t].generation
  BY <1>1, MarkUncertainFields
<1> QED BY <1>5, <1>6, <1>7 DEF L, ResAt, TasksAt, FencesAt

\* A charged failure retires released latest attempts.
LEMMA FailedSafe ==
  ASSUME NEW R, NEW T \in TaskTable, NEW F, SafeTables(R, T, F),
         NEW S \in SUBSET Attempts, NEW Y,
         \A a \in S : /\ IsLatest(T, a) /\ R[a].phase = "released"
                      /\ T[TaskOf(a)].status # "absent"
  PROVE  /\ SafeTables(R, FailedTasks(T, S, Y), F)
         /\ Grown(T, FailedTasks(T, S, Y))
         /\ \A t \in Tasks :
              FailedTasks(T, S, Y)[t].generation = T[t].generation
<1> DEFINE T2 == FailedTasks(T, S, Y)
<1>1. \A t \in Tasks :
        /\ T2[t].status = IF t \in TasksOf(S) /\ T[t].status # "completed"
                          THEN NextStatus(t, T[t].generation, t \in TasksOf(Y))
                          ELSE T[t].status
        /\ T2[t].generation = T[t].generation
  <2> TAKE t \in Tasks
  <2>1. T[t] \in TaskRow
    BY Rows
  <2>2. T2[t] = IF t \in TasksOf(S) /\ T[t].status # "completed"
                THEN [T[t] EXCEPT !.status =
                        NextStatus(t, T[t].generation, t \in TasksOf(Y))]
                ELSE T[t]
    BY FailedTasksRows
  <2> HIDE DEF T2
  <2> QED BY <2>1, <2>2 DEF TaskRow
<1>2. ASSUME NEW t \in TasksOf(S)
      PROVE  /\ T[t].status # "absent"
             /\ \A a \in Attempts : TaskOf(a) = t /\ IsLatest(T, a) =>
                                       Inert(R, F, a)
  <2>1. PICK b \in S : TaskOf(b) = t
    BY DEF TasksOf
  <2>2. ASSUME NEW a \in Attempts, TaskOf(a) = t, IsLatest(T, a) PROVE a = b
    BY <2>1, <2>2, LatestUnique
  <2> QED BY <2>1, <2>2 DEF Inert
<1> HIDE DEF T2
<1>3. SafeTables(R, T2, F)
  <2>1. \A t \in Tasks :
          /\ T2[t].generation = T[t].generation
          /\ \/ T2[t].status = T[t].status
             \/ \A a \in Attempts : TaskOf(a) = t /\ IsLatest(T, a) =>
                                       Inert(R, F, a)
    BY <1>1, <1>2
  <2> QED BY <2>1, TasksKeep
<1>4. Grown(T, T2)
  BY <1>1, <1>2 DEF Grown, NextStatus
<1> QED BY <1>1, <1>3, <1>4 DEF T2

\* A restart makes every unreleased row uncertain.
LEMMA ReopenSafe ==
  ASSUME NEW R \in ResTable, NEW T, NEW F \in SUBSET Attempts,
         SafeTables(R, T, F), NEW D, Reopen(R, D)
  PROVE  SafeTables(res', T, F)
<1> DEFINE U == {a \in Attempts : Unreleased(R, a)}
<1>1. U \in SUBSET Attempts /\ \A a \in U : Unreleased(R, a)
  OBVIOUS
<1>2. res' = MakeUncertain(R, U)
  BY DEF Reopen
<1> HIDE DEF U
<1> QED BY <1>1, <1>2, UncertainKeeps

LEMMA OperatorSafe ==
  ASSUME TypeOK, AuthorityInvariant, OperatorRequest
  PROVE  AuthorityInvariant'
<1> PICK now \in Times :
       \/ Status(now)
       \/ \E p \in Pools, spec \in PoolSpecs : PutPool(p, spec, now)
       \/ \E j \in Jobs : Submit(j, now)
       \/ \E t \in Tasks, confirmed \in BOOLEAN : Retry(t, confirmed, now)
       \/ \E j \in Cancellable : Cancel(j, now)
       \/ \E n \in Drainable, drain \in BOOLEAN : DrainNode(n, drain, now)
  BY DEF OperatorRequest
<1> USE DEF catalog
<1>0. SafeTables(res, tasks, fences) /\ SubmittedWithJob
  BY DEF AuthorityInvariant
<1>s. /\ SafeTables(ResAt(now), TasksAt(now), FencesAt(now))
      /\ Grown(tasks, TasksAt(now))
  BY <1>0, SettledSafe
<1>t. TasksAt(now) \in TaskTable /\ tasks \in TaskTable
  BY SettledRows DEF TypeOK
<1>p. ASSUME Settle(now), \A j \in Jobs : jobs'[j] = "absent" => jobs[j] = "absent"
      PROVE  AuthorityInvariant'
  <2>1. SafeTables(res, tasks, fences)'
    BY <1>s, <1>p DEF Settle
  <2>2. SubmittedWithJob'
    BY <1>0, <1>s, <1>p, GrownKeeps DEF Settle
  <2> QED BY <2>1, <2>2 DEF AuthorityInvariant
<1>1. CASE Status(now)
  BY <1>1, <1>p DEF Status
<1>2. CASE \E p \in Pools, spec \in PoolSpecs : PutPool(p, spec, now)
  BY <1>2, <1>p DEF PutPool
<1>3. CASE \E j \in Jobs : Submit(j, now)
  <2> PICK j \in Jobs : Submit(j, now)
    BY <1>3
  <2> DEFINE q == [t \in JobTasks(j) |-> [tasks[t] EXCEPT !.status = "queued"]]
             T2 == Override(q, TasksAt(now))
  <2>1. /\ jobs[j] = "absent" /\ jobs' = [jobs EXCEPT ![j] = "active"]
        /\ tasks' = T2 /\ res' = ResAt(now) /\ fences' = FencesAt(now)
    BY DEF Submit
  <2>2. \A t \in JobTasks(j) : t \in Tasks /\ tasks[t].status = "absent"
                               /\ tasks[t].generation = 0
    BY <1>0, <2>1 DEF JobTasks, SubmittedWithJob
  <2>3. \A t \in Tasks :
          /\ t \in JobTasks(j) => /\ T2[t].status = "queued"
                                  /\ T2[t].generation = tasks[t].generation
          /\ t \notin JobTasks(j) => T2[t] = TasksAt(now)[t]
    <3> TAKE t \in Tasks
    <3>1. T2[t] = IF t \in JobTasks(j) THEN q[t] ELSE TasksAt(now)[t]
      BY <1>t DEF Override, TaskTable
    <3>2. tasks[t] \in TaskRow
      BY <1>t, Rows
    <3> HIDE DEF T2
    <3> QED BY <3>1, <3>2 DEF TaskRow
  <2> HIDE DEF T2, q
  <2>4. SafeTables(ResAt(now), T2, FencesAt(now))
    <3>1. \A t \in Tasks :
            /\ T2[t].generation = TasksAt(now)[t].generation
            /\ \/ T2[t].status = TasksAt(now)[t].status
               \/ TasksAt(now)[t].status \notin {"assigned", "completed"}
      BY <1>0, <1>s, <2>2, <2>3, SettledSafe DEF Grown
    <3> QED BY <1>s, <3>1, TasksKeep
  <2>5. SubmittedWithJob'
    <3> SUFFICES ASSUME NEW t \in Tasks
                 PROVE  /\ jobs'[JobOf[t]] = "absent" => T2[t].status = "absent"
                        /\ T2[t].status = "absent" => T2[t].generation = 0
      BY <2>1 DEF SubmittedWithJob
    <3>1. jobs \in [Jobs -> {"absent", "active", "cancelled"}]
      BY DEF TypeOK
    <3>2. CASE t \in JobTasks(j)
      BY <2>1, <2>3, <3>1, <3>2, CatalogAssumption DEF JobTasks
    <3>3. CASE t \notin JobTasks(j)
      BY <1>0, <1>s, <2>1, <2>3, <3>1, <3>3, CatalogAssumption
         DEF JobTasks, SubmittedWithJob, Grown
    <3> QED BY <3>2, <3>3
  <2> QED BY <2>1, <2>4, <2>5 DEF AuthorityInvariant
<1>4. CASE \E t \in Tasks, confirmed \in BOOLEAN : Retry(t, confirmed, now)
  <2> PICK t \in Tasks, confirmed \in BOOLEAN : Retry(t, confirmed, now)
    BY <1>4
  <2> DEFINE T2 == [TasksAt(now) EXCEPT ![t].status = "queued"]
  <2>1. /\ TasksAt(now)[t].status \in {"queued", "needs_reconciliation"}
        /\ tasks' = T2 /\ res' = ResAt(now) /\ fences' = FencesAt(now)
        /\ jobs' = jobs
    BY DEF Retry
  <2>2. \A u \in Tasks :
          /\ T2[u].generation = TasksAt(now)[u].generation
          /\ T2[u].status = IF u = t THEN "queued" ELSE TasksAt(now)[u].status
    BY <1>t DEF TaskTable
  <2> HIDE DEF T2
  <2>3. SafeTables(ResAt(now), T2, FencesAt(now))
    <3>1. \A u \in Tasks :
            /\ T2[u].generation = TasksAt(now)[u].generation
            /\ \/ T2[u].status = TasksAt(now)[u].status
               \/ TasksAt(now)[u].status \notin {"assigned", "completed"}
      BY <2>1, <2>2
    <3> QED BY <1>s, <3>1, TasksKeep
  <2>4. Grown(tasks, T2)
    BY <1>s, <2>1, <2>2 DEF Grown
  <2>5. SubmittedWithJob'
    BY <1>0, <2>1, <2>4, GrownKeeps
  <2> QED BY <2>1, <2>3, <2>5 DEF AuthorityInvariant
<1>5. CASE \E j \in Cancellable : Cancel(j, now)
  <2>1. \A j \in Jobs : jobs'[j] = "absent" => jobs[j] = "absent"
    BY <1>5 DEF Cancel, TypeOK
  <2> QED BY <1>5, <1>p, <2>1 DEF Cancel
<1>6. CASE \E n \in Drainable, drain \in BOOLEAN : DrainNode(n, drain, now)
  BY <1>6, <1>p DEF DrainNode
<1> QED BY <1>1, <1>2, <1>3, <1>4, <1>5, <1>6

LEMMA AttemptSafe ==
  ASSUME TypeOK, AuthorityInvariant, AttemptRequest
  PROVE  AuthorityInvariant'
<1> PICK now \in Times, p \in Principals, s \in Wrappers, a \in Attempts :
       \/ \E e \in 1..MaxEpoch, identity \in Identities,
             applied \in SUBSET Controls :
             \/ Prepared(p, s, a, e, identity, applied, now)
             \/ PreparedInterrupted(p, s, a, e, identity, applied, now)
       \/ \E e \in 1..MaxEpoch, previous \in 0..MaxSeq :
             Renew(p, s, a, e, previous, now)
       \/ \E x \in Artifacts : CommitUpload(p, s, a, x, now)
       \/ \E r \in Results : PublishCheckpoint(p, s, a, r, now)
       \/ \E r \in Results : Complete(p, s, a, r, now)
       \/ \E kind \in {"yielded", "execution"} : Fail(p, s, a, kind, now)
  BY DEF AttemptRequest
<1> USE DEF catalog
<1> DEFINE R == ResAt(now)
           T == TasksAt(now)
           F == FencesAt(now)
<1>0. SafeTables(res, tasks, fences) /\ SubmittedWithJob
  BY DEF AuthorityInvariant
<1>s. SafeTables(R, T, F) /\ Grown(tasks, T)
  BY <1>0, SettledSafe
<1>t. R \in ResTable /\ T \in TaskTable /\ F \in SUBSET Attempts /\ now \in Nat
  BY SettledRows, TimesNat
<1> HIDE DEF R, T, F
<1>p. ASSUME SafeTables(res', T, F), tasks' = T, fences' = F, jobs' = jobs
      PROVE  AuthorityInvariant'
  BY <1>0, <1>s, <1>p, GrownKeeps DEF AuthorityInvariant
<1>g. Grantable(R, T, a, now) => SafeTables(Extend(R, a, now), T, F)
  BY <1>s, <1>t, ExtendKeeps DEF Grantable
<1>1. ASSUME NEW e, NEW identity, NEW applied,
             Prepared(p, s, a, e, identity, applied, now)
      PROVE  AuthorityInvariant'
  <2>1. \/ res' = R
        \/ Grantable(R, T, a, now) /\ res' = Extend(R, a, now)
    BY <1>1 DEF Prepared, R, T
  <2>2. tasks' = T /\ fences' = F /\ jobs' = jobs
    BY <1>1 DEF Prepared, T, F
  <2> QED BY <1>s, <1>p, <1>g, <2>1, <2>2
<1>2. ASSUME NEW e, NEW identity, NEW applied,
             PreparedInterrupted(p, s, a, e, identity, applied, now)
      PROVE  AuthorityInvariant'
  <2>1. Reopen(R, drains) /\ tasks' = T /\ fences' = F /\ jobs' = jobs
    BY <1>2 DEF PreparedInterrupted, R, T, F
  <2>2. SafeTables(res', T, F)
    BY <1>s, <1>t, <2>1, ReopenSafe
  <2> QED BY <1>p, <2>1, <2>2
<1>3. ASSUME NEW e, NEW previous, Renew(p, s, a, e, previous, now)
      PROVE  AuthorityInvariant'
  <2>1. /\ Grantable(R, T, a, now) /\ res' \in {R, Extend(R, a, now)}
        /\ tasks' = T /\ fences' = F /\ jobs' = jobs
    BY <1>3 DEF Renew, R, T, F
  <2> QED BY <1>s, <1>p, <1>g, <2>1
<1>4. ASSUME NEW x, CommitUpload(p, s, a, x, now)
      PROVE  AuthorityInvariant'
  BY <1>4, <1>s, <1>p DEF CommitUpload, Settle, R, T, F
<1>5. ASSUME NEW r, PublishCheckpoint(p, s, a, r, now)
      PROVE  AuthorityInvariant'
  BY <1>5, <1>s, <1>p DEF PublishCheckpoint, Settle, R, T, F
<1>6. ASSUME NEW r, Complete(p, s, a, r, now)
      PROVE  AuthorityInvariant'
  <2> DEFINE T2 == [T EXCEPT ![TaskOf(a)].status = "completed",
                             ![TaskOf(a)].receipt = <<a, r>>]
  <2>1. /\ CurrentAttempt(T, a) /\ tasks' = T2 /\ res' = R /\ fences' = F
        /\ jobs' = jobs
    BY <1>6 DEF Complete, R, T, F
  <2>2. \A t \in Tasks :
          /\ T2[t].generation = T[t].generation
          /\ T2[t].status = IF t = TaskOf(a) THEN "completed" ELSE T[t].status
    BY <1>t DEF TaskTable
  <2>3. T[TaskOf(a)].status \in {"assigned", "completed"}
    BY <2>1 DEF CurrentAttempt, TaskOf
  <2> HIDE DEF T2
  <2>4. SafeTables(R, T2, F)
    <3>1. \A t \in Tasks :
            /\ T2[t].generation = T[t].generation
            /\ T2[t].status = T[t].status \/ T2[t].status = "completed"
      BY <2>2
    <3> QED BY <1>s, <3>1, TasksKeep
  <2>5. Grown(tasks, T2)
    BY <1>s, <2>2, <2>3 DEF Grown
  <2>6. SubmittedWithJob'
    BY <1>0, <2>1, <2>5, GrownKeeps
  <2> QED BY <2>1, <2>4, <2>6 DEF AuthorityInvariant
<1>7. ASSUME NEW kind, Fail(p, s, a, kind, now)
      PROVE  AuthorityInvariant'
  <2> DEFINE Y == IF kind = "yielded" \/ ShouldDrain(R, drains, a)
                  THEN {a} ELSE {}
             T2 == FailedTasks(T, {a}, Y)
  <2>1. /\ R[a].phase = "released" /\ IsLatest(T, a)
        /\ tasks' = T2 /\ res' = R /\ fences' = F /\ jobs' = jobs
    BY <1>7 DEF Fail, R, T, F
  <2>2. tasks[TaskOf(a)].status # "absent"
    <3>1. a[1] \in Tasks /\ a[2] # 0 /\ TaskOf(a) = a[1]
      BY AttemptPair DEF TaskOf
    <3>2. tasks[a[1]].generation = a[2]
      BY <1>0, <2>1, <3>1, SettledSafe DEF IsLatest, T
    <3> QED BY <1>0, <3>1, <3>2 DEF SubmittedWithJob
  <2>3. T[TaskOf(a)].status # "absent"
    BY <1>s, <2>2, AttemptPair DEF Grown, TaskOf
  <2> HIDE DEF Y
  <2>4. SafeTables(R, T2, F) /\ Grown(T, T2)
    <3>1. {a} \in SUBSET Attempts
      OBVIOUS
    <3> QED BY SMTT(30), <1>s, <1>t, <2>1, <2>3, <3>1, FailedSafe
  <2>5. Grown(tasks, T2)
    BY <1>s, <2>4 DEF Grown
  <2>6. SubmittedWithJob'
    BY <1>0, <2>1, <2>5, GrownKeeps
  <2> QED BY <2>1, <2>4, <2>6 DEF AuthorityInvariant
<1> QED BY <1>1, <1>2, <1>3, <1>4, <1>5, <1>6, <1>7

\* A report's yields are rows it releases, of tasks already taken back.
LEMMA YieldingReleased ==
  ASSUME NEW R \in ResTable, NEW F, NEW T, NEW n, NEW r, IsReport(n, r),
         NEW newer, NEW a \in Yielding(T, r)
  PROVE  /\ a \in Attempts /\ IsLatest(T, a) /\ T[TaskOf(a)].status # "absent"
         /\ MergedRes(R, F, n, r, newer)[a].phase = "released"
<1>1. a \in Seen(r) /\ r.phase[a] = "released" /\ a \in Attempts
  BY DEF Yielding, IsReport
<1>2. ReportedPhase(R, F, r, newer, a) = "released"
  BY <1>1 DEF ReportedPhase
<1> QED BY <1>1, <1>2, MergedRows DEF Yielding

LEMMA HeartbeatSafe ==
  ASSUME TypeOK, AuthorityInvariant, NEW now \in Times, NEW n \in Nodes, NEW s,
         NEW r \in Reports(n, now), Heartbeat(n, s, r, now)
  PROVE  AuthorityInvariant'
<1> DEFINE R == ResAt(now)
           F == FencesAt(now)
           T1 == TasksAt(now)
           M == MergedRes(R, F, n, r, Newer(n, r))
           F2 == MergedFences(R, F, M, n, r)
           Y == Yielding(T1, r)
           T == FailedTasks(T1, Y, Y)
           B == FailedRetry(T1, Y, Y, now)
           schedules == /\ Fresh(r.observedAt, now) /\ ObservedLive(r)
                        /\ NothingUnknown(R, n, r, Newer(n, r)) /\ r.cap.expand
                        /\ n \notin drained
                        /\ ReplayNodeCanAdmit(M, n, TRUE, Strangers(n, r))
           C == IF schedules THEN Considered(T, B, n, now) ELSE {}
           E == Eligible(M, T, C, r.cap)
<1>1. /\ fences' = F2 /\ jobs' = jobs
      /\ \E offers \in SUBSET E :
           /\ tasks' = ScheduledTasks(T, C, offers)
           /\ res' = OfferedRes(M, T, n, offers, now)
  BY DEF Heartbeat, catalog
<1>2. IsReport(n, r) /\ now \in Nat
  BY ReportShape, TimesNat
<1>3. R \in ResTable /\ T1 \in TaskTable /\ F \in SUBSET Attempts
  BY SettledRows
<1>4. SafeTables(res, tasks, fences) /\ SubmittedWithJob
  BY DEF AuthorityInvariant
<1>5. /\ SafeTables(R, T1, F) /\ Grown(tasks, T1)
      /\ \A a \in Attempts : R[a].node = res[a].node
  BY <1>4, SettledSafe
<1> HIDE DEF R, F, T1
<1>6. M \in ResTable /\ SafeTables(M, T1, F2)
  BY <1>2, <1>3, <1>5, MergedRows, MergeKeeps
<1>7. F2 \in SUBSET Attempts
  BY <1>2, <1>3 DEF MergedFences, Missing, IsReport
<1>8. \A a \in Y : /\ a \in Attempts /\ IsLatest(T1, a)
                   /\ T1[TaskOf(a)].status # "absent"
                   /\ M[a].phase = "released"
  BY <1>2, <1>3, YieldingReleased
<1> HIDE DEF M, F2, Y
<1>9. T \in TaskTable /\ SafeTables(M, T, F2) /\ Grown(T1, T)
  <2>1. Y \in SUBSET Attempts
    BY <1>8
  <2>2. T \in TaskTable
    BY <1>3, <2>1, FailedTasksRows
  <2>3. SafeTables(M, T, F2) /\ Grown(T1, T)
    BY <1>3, <1>6, <1>8, <2>1, FailedSafe
  <2> QED BY <2>2, <2>3
<1>10. C \in SUBSET Tasks /\ \A t \in C : T[t].status = "queued"
  <2> HIDE DEF T, B, schedules
  <2> QED BY DEF Considered
<1> HIDE DEF T, B, C
<1>11. E \in SUBSET C
       /\ \A t \in E : T[t].generation < MaxGen /\ ~Held(M, t)
  BY DEF Eligible
<1> HIDE DEF E
<1>12. PICK offers \in SUBSET E :
           /\ tasks' = ScheduledTasks(T, C, offers)
           /\ res' = OfferedRes(M, T, n, offers, now)
  BY <1>1
<1>13. offers \in SUBSET C
       /\ \A t \in offers : T[t].generation < MaxGen /\ ~Held(M, t)
  BY <1>11
<1>14. SafeTables(res', tasks', fences')
  <2>1. SafeTables(OfferedRes(M, T, n, offers, now),
                   ScheduledTasks(T, C, offers), F2)
    BY <1>2, <1>6, <1>7, <1>9, <1>10, <1>13, OfferKeeps
  <2> QED BY <1>1, <1>12, <2>1
<1>15. Grown(T, tasks')
  <2>1. offers \in SUBSET Tasks /\ \A t \in offers : T[t].generation < MaxGen
    BY <1>10, <1>13
  <2>2. \A t \in Tasks :
          /\ tasks'[t].status = IF t \in offers THEN "assigned"
                                ELSE IF t \in C /\ Exhausted(T, t)
                                THEN "needs_reconciliation" ELSE T[t].status
          /\ tasks'[t].generation = IF t \in offers THEN T[t].generation + 1
                                    ELSE T[t].generation
    BY <1>9, <1>10, <1>12, <2>1, ScheduledTasksRows
  <2> QED BY <1>10, <1>13, <2>2 DEF Grown
<1>16. Grown(tasks, tasks')
  BY <1>5, <1>9, <1>15 DEF Grown
<1>17. SubmittedWithJob'
  BY <1>1, <1>4, <1>16, GrownKeeps
<1> QED BY <1>14, <1>17 DEF AuthorityInvariant

LEMMA HeartbeatInterruptedSafe ==
  ASSUME TypeOK, AuthorityInvariant, NEW now \in Times, NEW n \in Nodes, NEW s,
         NEW r \in Reports(n, now), NEW K \in SUBSET Yielding(TasksAt(now), r),
         HeartbeatInterrupted(n, s, r, K, now)
  PROVE  AuthorityInvariant'
<1> DEFINE R == ResAt(now)
           F == FencesAt(now)
           T1 == TasksAt(now)
           M == MergedRes(R, F, n, r, Newer(n, r))
           F2 == MergedFences(R, F, M, n, r)
<1>1. /\ fences' = F2 /\ jobs' = jobs
      /\ tasks' = FailedTasks(T1, K, K)
      /\ Reopen(M, MergedDrains(M, r))
  BY DEF HeartbeatInterrupted, catalog
<1>2. IsReport(n, r)
  BY ReportShape
<1>3. R \in ResTable /\ T1 \in TaskTable /\ F \in SUBSET Attempts
  BY SettledRows
<1>4. SafeTables(res, tasks, fences) /\ SubmittedWithJob
  BY DEF AuthorityInvariant
<1>5. /\ SafeTables(R, T1, F) /\ Grown(tasks, T1)
      /\ \A a \in Attempts : R[a].node = res[a].node
  BY <1>4, SettledSafe
<1>6. K \in SUBSET Yielding(T1, r)
  OBVIOUS
<1> HIDE DEF R, F, T1
<1>7. M \in ResTable /\ SafeTables(M, T1, F2)
  BY <1>2, <1>3, <1>5, MergedRows, MergeKeeps
<1>8. F2 \in SUBSET Attempts
  BY <1>2, <1>3 DEF MergedFences, Missing, IsReport
<1>9. \A a \in K : /\ a \in Attempts /\ IsLatest(T1, a)
                   /\ T1[TaskOf(a)].status # "absent"
                   /\ M[a].phase = "released"
  BY <1>2, <1>3, <1>6, YieldingReleased
<1> HIDE DEF M, F2
<1>10. SafeTables(M, tasks', F2) /\ Grown(T1, tasks')
  <2>1. K \in SUBSET Attempts
    BY <1>9
  <2> QED BY <1>1, <1>3, <1>7, <1>9, <2>1, FailedSafe
<1>11. SafeTables(res', tasks', fences')
  BY <1>1, <1>7, <1>8, <1>10, ReopenSafe
<1>12. Grown(tasks, tasks')
  BY <1>5, <1>10 DEF Grown
<1>13. SubmittedWithJob'
  BY <1>1, <1>4, <1>12, GrownKeeps
<1> QED BY <1>11, <1>13 DEF AuthorityInvariant

LEMMA OpenReplaySessionSafe ==
  ASSUME TypeOK, AuthorityInvariant, NEW now \in Times, NEW n \in ReplayNodes,
         NEW boot, NEW s, OpenReplaySession(n, boot, s, now)
  PROVE  AuthorityInvariant'
<1> DEFINE R == ResAt(now)
           F == FencesAt(now)
           T1 == TasksAt(now)
           lost == Lost(R, n)
           D == {u \in TasksOf({a \in lost : IsLatest(tasks, a)}) :
                   tasks[u].status # "completed"}
           f == [t \in D |-> [tasks[t] EXCEPT !.status = Unsettled(t)]]
           T2 == Override(f, T1)
           F2 == F \cup lost
           M == MakeUncertain(R, lost)
<1>1. tasks' = T2 /\ res' = M /\ fences' = F2 /\ jobs' = jobs
  BY DEF OpenReplaySession, catalog
<1>2. /\ R \in ResTable /\ T1 \in TaskTable /\ F \in SUBSET Attempts
      /\ tasks \in TaskTable
  BY SettledRows DEF TypeOK
<1>3. SafeTables(res, tasks, fences) /\ SubmittedWithJob
  BY DEF AuthorityInvariant
<1>4. /\ SafeTables(R, T1, F) /\ Grown(tasks, T1)
      /\ \A t \in Tasks : T1[t].generation = tasks[t].generation
  BY <1>3, SettledSafe
<1> HIDE DEF R, F, T1
<1>5. /\ lost \in SUBSET Attempts /\ \A a \in lost : Unreleased(R, a)
      /\ F2 \in SUBSET Attempts /\ F \subseteq F2
      /\ \A a \in F2 : a \in F \cup lost
  BY <1>2 DEF Lost
<1>6. \A t \in D : t \in Tasks /\ \E b \in lost : TaskOf(b) = t /\ IsLatest(tasks, b)
  BY DEF TasksOf, TaskOf, Attempts, Lost
<1>7. \A t \in Tasks :
        /\ t \in D => /\ T2[t].status = Unsettled(t)
                      /\ T2[t].generation = tasks[t].generation
        /\ t \notin D => T2[t] = T1[t]
  <2> TAKE t \in Tasks
  <2>1. T2[t] = IF t \in D THEN f[t] ELSE T1[t]
    <3>1. T1 \in [Tasks -> TaskRow] /\ DOMAIN f = D
      BY <1>2, Rows
    <3> HIDE DEF f, D
    <3> QED BY <3>1 DEF Override
  <2>2. tasks[t] \in TaskRow
    BY <1>2, Rows
  <2>3. t \in D => f[t] = [tasks[t] EXCEPT !.status = Unsettled(t)]
    OBVIOUS
  <2> HIDE DEF T2, f, D
  <2> QED BY <2>1, <2>2, <2>3 DEF TaskRow
<1> HIDE DEF lost, D, f, T2, F2
<1>8. SafeTables(M, T1, F2)
  BY <1>2, <1>4, <1>5, UncertainKeeps
<1>9. \A a \in lost : Inert(M, F2, a)
  BY <1>2, <1>5, MakeUncertainFields DEF Inert, F2
<1> HIDE DEF M
<1>10. ASSUME NEW t \in D
       PROVE  /\ tasks[t].status # "absent"
              /\ \A a \in Attempts : TaskOf(a) = t /\ IsLatest(T1, a) =>
                                        Inert(M, F2, a)
  <2>1. PICK b \in lost : TaskOf(b) = t /\ IsLatest(tasks, b)
    BY <1>6
  <2>2. b \in Attempts /\ b[1] = t /\ b[2] # 0
    BY <1>5, <2>1, AttemptPair DEF TaskOf
  <2>3. tasks[t].status # "absent"
    BY <1>3, <1>6, <2>1, <2>2 DEF SubmittedWithJob, IsLatest
  <2>4. IsLatest(T1, b)
    BY <1>4, <1>6, <2>1, <2>2 DEF IsLatest
  <2>5. ASSUME NEW a \in Attempts, TaskOf(a) = t, IsLatest(T1, a) PROVE a = b
    BY <2>1, <2>2, <2>4, <2>5, LatestUnique
  <2> QED BY <1>9, <2>3, <2>5
<1>11. SafeTables(M, T2, F2)
  <2>1. \A t \in Tasks :
          /\ T2[t].generation = T1[t].generation
          /\ \/ T2[t].status = T1[t].status
             \/ \A a \in Attempts : TaskOf(a) = t /\ IsLatest(T1, a) =>
                                       Inert(M, F2, a)
    BY <1>4, <1>7, <1>10
  <2> QED BY <1>8, <2>1, TasksKeep
<1>12. Grown(tasks, T2)
  BY <1>4, <1>7, <1>10 DEF Grown, Unsettled
<1>13. SubmittedWithJob'
  BY <1>1, <1>3, <1>12, GrownKeeps
<1> QED BY <1>1, <1>11, <1>13 DEF AuthorityInvariant

LEMMA InterruptionSafe ==
  ASSUME TypeOK, AuthorityInvariant, Interruption
  PROVE  AuthorityInvariant'
<1> USE DEF catalog
<1>0. /\ SafeTables(res, tasks, fences) /\ SubmittedWithJob
      /\ res \in ResTable /\ tasks \in TaskTable /\ fences \in SUBSET Attempts
  BY DEF AuthorityInvariant, TypeOK
<1>1. CASE Restart
  <2>1. Reopen(res, drains) /\ tasks' = tasks /\ fences' = fences /\ jobs' = jobs
    BY <1>1 DEF Restart
  <2>2. SafeTables(res', tasks, fences)
    BY <1>0, <2>1, ReopenSafe
  <2> QED BY <1>0, <2>1, <2>2 DEF AuthorityInvariant, SubmittedWithJob
<1>2. ASSUME NEW now \in Times, NEW W \in SUBSET Lapsed(now),
             NEW X \in SUBSET Lapsed(now), ExpireInterrupted(W, X, now)
      PROVE  AuthorityInvariant'
  <2> DEFINE F2 == fences \cup W \cup X
             U == {a \in Attempts : Unreleased(res, a)}
  <2>1. /\ tasks' = MarkUncertain(tasks, W) /\ fences' = F2
        /\ res' = MakeUncertain(res, U) /\ jobs' = jobs
    BY <1>2 DEF ExpireInterrupted, Reopen
  <2>2. \A a \in W \cup X : /\ a \in Attempts /\ IsLatest(tasks, a)
                            /\ Unreleased(res, a)
    BY <1>0, LapsedLatest
  <2>3. /\ U \in SUBSET Attempts /\ \A a \in U : Unreleased(res, a)
        /\ F2 \in SUBSET Attempts /\ fences \subseteq F2
        /\ \A a \in F2 : a \in fences \cup U
        /\ W \in SUBSET Attempts /\ W \subseteq U /\ W \subseteq F2
    BY <1>0, <2>2
  <2> HIDE DEF F2, U
  <2>4. SafeTables(MakeUncertain(res, U), tasks, F2)
    BY <1>0, <2>3, UncertainKeeps
  <2>5. \A a \in W : Inert(MakeUncertain(res, U), F2, a)
    BY <1>0, <2>3, MakeUncertainFields DEF Inert
  <2>6. /\ SafeTables(MakeUncertain(res, U), MarkUncertain(tasks, W), F2)
        /\ Grown(tasks, MarkUncertain(tasks, W))
    BY <1>0, <2>2, <2>3, <2>4, <2>5, MarkUncertainSafe
  <2>7. SubmittedWithJob'
    BY <1>0, <2>1, <2>6, GrownKeeps
  <2> QED BY <2>1, <2>6, <2>7 DEF AuthorityInvariant
<1> QED BY <1>1, <1>2 DEF Interruption

(***************************************************************************)
(* The inductive invariant behind single authority holds in every state.   *)
(***************************************************************************)
THEOREM AuthorityInductive == Spec => []AuthorityInvariant
<1>1. Init => AuthorityInvariant
  <2> SUFFICES ASSUME Init PROVE AuthorityInvariant
    OBVIOUS
  <2>1. \A a \in Attempts : res[a] = NoReservation
    BY DEF Init
  <2>2. RowsOf(res) /\ AuthorityOf(res, tasks, fences) /\ FencedOf(res, fences)
    BY <2>1 DEF Init, NoReservation, RowsOf, AuthorityOf, FencedOf
  <2>3. GenerationsOf(res, tasks)
    BY <2>1, AttemptPair DEF Init, NoReservation, GenerationsOf
  <2>4. SubmittedWithJob
    BY DEF Init, SubmittedWithJob
  <2> QED BY <2>2, <2>3, <2>4 DEF AuthorityInvariant, SafeTables
<1>2. TypeOK /\ AuthorityInvariant /\ [Next]_vars => AuthorityInvariant'
  <2> SUFFICES ASSUME TypeOK, AuthorityInvariant, [Next]_vars
               PROVE  AuthorityInvariant'
    OBVIOUS
  <2>1. CASE OperatorRequest
    BY <2>1, OperatorSafe
  <2>2. CASE AttemptRequest
    BY <2>2, AttemptSafe
  <2>3. CASE NodeRequest
    BY <2>3, HeartbeatSafe, HeartbeatInterruptedSafe, OpenReplaySessionSafe
       DEF NodeRequest
  <2>4. CASE Interruption
    BY <2>4, InterruptionSafe
  <2>5. CASE UNCHANGED vars
    BY <2>5 DEF vars, catalog, AuthorityInvariant, SubmittedWithJob
  <2> QED BY <2>1, <2>2, <2>3, <2>4, <2>5 DEF Next
<1> QED BY <1>1, <1>2, Typing, PTL DEF Spec

(***************************************************************************)
(* No superseded attempt is ever left able to run with authority.          *)
(***************************************************************************)
THEOREM SingleAuthority == Spec => []AttemptAuthority
<1>1. AuthorityInvariant => AttemptAuthority
  BY DEF AuthorityInvariant, SafeTables, AttemptAuthority
<1> QED BY <1>1, AuthorityInductive, PTL

(***************************************************************************)
(* The attempts of a task are exactly the generations it has counted.      *)
(***************************************************************************)
THEOREM GenerationsAgree == Spec => []GenerationsCounted
<1>1. AuthorityInvariant => GenerationsCounted
  BY DEF AuthorityInvariant, SafeTables, GenerationsCounted
<1> QED BY <1>1, AuthorityInductive, PTL

(***************************************************************************)
(* A fenced attempt is uncertain or released in every state.               *)
(***************************************************************************)
THEOREM FencedStaysDead == Spec => []FenceHolds
<1>1. AuthorityInvariant => FenceHolds
  BY DEF AuthorityInvariant, SafeTables, FenceHolds
<1> QED BY <1>1, AuthorityInductive, PTL

(***************************************************************************)
(* Lease expiry never meets a stale generation, so it never fails the      *)
(* request that triggers it.                                               *)
(***************************************************************************)
THEOREM ExpiryAlwaysPossible == Spec => []ExpiryNeverRefused
<1>1. AuthorityInvariant => ExpiryNeverRefused
  BY LapsedLatest DEF AuthorityInvariant, ExpiryNeverRefused
<1> QED BY <1>1, AuthorityInductive, PTL

-----------------------------------------------------------------------------
(***************************************************************************)
(* Leases and results of the coordinator, for every number of nodes, tasks *)
(* and generations: fences and drains are final, nothing runs unprepared,  *)
(* and what was accepted stays.                                            *)
(*                                                                         *)
(* Each half first says what any request, restart or crash may do to the   *)
(* tables of leases (LeaseStep) and of outcomes (ResultStep); the          *)
(* theorems then follow from these two summaries.                          *)
(***************************************************************************)

(* Leases.                                                                 *)

\* A row that does not exist holds no lease, and the phase draining, which
\* only a report sets, comes with its durable mark.
LeaseInvariant ==
    /\ \A a \in Attempts : res[a].phase = "none" => res[a].seq = 0
    /\ \A a \in Attempts : res[a].phase = "draining" => a \in drains
    /\ PreparedFirst

\* The update from R to M leaves leases alone and makes nothing drain that
\* the marks in D do not name.
LeaseKept(R, M, D) ==
    \A a \in Attempts :
      /\ M[a].seq = R[a].seq
      /\ M[a].phase = "none" <=> R[a].phase = "none"
      /\ M[a].phase = "draining" => R[a].phase = "draining" \/ a \in D

\* The gated, live attempt a gets its first lease, or a longer one.
Granted(a) ==
    /\ Live(res, a) /\ a \notin drains /\ res[a].phase # "draining"
    /\ preparations'[a] # None
    /\ res'[a].seq = res[a].seq + 1 /\ res'[a].phase = "authorized"

LeaseRow(a) ==
    \/ /\ res'[a].seq = res[a].seq
       /\ res'[a].phase = "none" => res[a].phase = "none"
       /\ res'[a].phase = "draining" => res[a].phase = "draining" \/ a \in drains'
    \/ Granted(a)

\* What one step does to leases.
LeaseStep ==
    /\ \A a \in Attempts : LeaseRow(a)
    /\ \A a \in Attempts : preparations[a] # None => preparations'[a] # None
    /\ fences \subseteq fences' /\ drains \subseteq drains'

\* Expiry, sessions and restarts only make rows uncertain.
LEMMA UncertainLeases ==
  ASSUME NEW R \in ResTable, NEW U \in SUBSET Attempts,
         \A a \in U : Unreleased(R, a), NEW D
  PROVE  LeaseKept(R, MakeUncertain(R, U), D)
<1> DEFINE M == MakeUncertain(R, U)
<1>1. \A a \in Attempts :
        /\ M[a].phase = IF a \in U THEN "uncertain" ELSE R[a].phase
        /\ M[a].seq = R[a].seq
  BY MakeUncertainFields
<1> HIDE DEF M
<1> QED BY <1>1 DEF LeaseKept, Unreleased, M

\* The expiry at the start of a request grants nothing.
LEMMA SettledLeases ==
  ASSUME TypeOK, NEW now, NEW D
  PROVE  LeaseKept(res, ResAt(now), D)
<1>1. /\ res \in ResTable /\ Lapsed(now) \in SUBSET Attempts
      /\ \A a \in Lapsed(now) : Unreleased(res, a)
  BY DEF TypeOK, Lapsed, Live, Unreleased
<1> QED BY <1>1, UncertainLeases DEF ResAt

\* A restart (open) makes every unreleased row uncertain and every drain
\* durable.
LEMMA ReopenLeases ==
  ASSUME NEW R \in ResTable, NEW D, Reopen(R, D)
  PROVE  LeaseKept(R, res', drains') /\ D \subseteq drains'
<1> DEFINE U == {a \in Attempts : Unreleased(R, a)}
<1>1. U \in SUBSET Attempts /\ \A a \in U : Unreleased(R, a)
  OBVIOUS
<1>2. res' = MakeUncertain(R, U) /\ D \subseteq drains'
  BY DEF Reopen
<1> HIDE DEF U
<1> QED BY <1>1, <1>2, UncertainLeases

\* A report changes no lease, and marks what it finds draining.
LEMMA MergedLeases ==
  ASSUME NEW R \in ResTable, NEW F, NEW n \in Nodes, NEW r, IsReport(n, r),
         NEW newer, RowsOf(R), \A a \in Attempts : R[a].node = res[a].node
  PROVE  LET M == MergedRes(R, F, n, r, newer)
         IN  LeaseKept(R, M, MergedDrains(M, r))
<1> DEFINE M == MergedRes(R, F, n, r, newer)
           P(a) == ReportedPhase(R, F, r, newer, a)
<1>1. \A a \in Attempts :
        /\ M[a].phase = IF a \in Seen(r) THEN P(a)
                        ELSE IF a \in Missing(R, n, r) THEN "uncertain"
                        ELSE R[a].phase
        /\ M[a].seq = R[a].seq
  BY MergedRows
<1>2. \A a \in Seen(r) : a \in Attempts => R[a].phase # "none" /\ P(a) # "none"
  <2> TAKE a \in Seen(r)
  <2> HAVE a \in Attempts
  <2>1. R[a].node = n /\ None # n
    BY PrincipalsAssumption DEF IsReport
  <2>2. R[a].phase # "none"
    BY <2>1 DEF RowsOf
  <2> QED BY <2>2 DEF ReportedPhase, IsReport, RemotePhases
<1>3. \A a \in Missing(R, n, r) : R[a].phase # "none"
  BY DEF Missing, Unreleased
<1> HIDE DEF M, P
<1> QED BY <1>1, <1>2, <1>3 DEF LeaseKept, MergedDrains, M

\* An offer starts the first lease of a row that did not exist.
LEMMA OfferedLeases ==
  ASSUME NEW R \in ResTable, NEW T \in TaskTable, GenerationsOf(R, T),
         \A a \in Attempts : R[a].phase = "none" => R[a].seq = 0,
         NEW n \in Nodes, NEW now \in Nat, NEW offers \in SUBSET Tasks,
         \A t \in offers : T[t].generation < MaxGen,
         NEW a \in Attempts
  PROVE  LET M == OfferedRes(R, T, n, offers, now)
         IN  /\ M[a].seq = R[a].seq
             /\ M[a].phase = "none" => R[a].phase = "none"
             /\ M[a].phase = "draining" => R[a].phase = "draining"
<1> DEFINE M == OfferedRes(R, T, n, offers, now)
           new == TaskOf(a) \in offers /\ a[2] = T[TaskOf(a)].generation + 1
<1>1. M[a] = IF new
              THEN [node |-> n, phase |-> "offered", observed |-> None,
                    seq |-> 0, deadline |-> now + Lease]
              ELSE R[a]
  BY OfferedResRows
<1>2. new => R[a].phase = "none"
  <2>1. T[a[1]].generation \in Nat /\ TaskOf(a) = a[1]
    BY AttemptPair, BoundsAssumption DEF TaskTable, TaskOf
  <2> QED BY <2>1 DEF GenerationsOf
<1> HIDE DEF M, new
<1>3. CASE new
  BY <1>1, <1>2, <1>3 DEF M
<1>4. CASE ~new
  BY <1>1, <1>4 DEF M
<1> QED BY <1>3, <1>4

\* A charged failure changes statuses only.
LEMMA FailedFields ==
  ASSUME NEW T \in TaskTable, NEW S \in SUBSET Attempts, NEW Y, NEW t \in Tasks
  PROVE  FailedTasks(T, S, Y)[t].generation = T[t].generation
<1>1. T[t] \in TaskRow
  BY Rows
<1>2. FailedTasks(T, S, Y)[t] =
        IF t \in TasksOf(S) /\ T[t].status # "completed"
        THEN [T[t] EXCEPT !.status =
                NextStatus(t, T[t].generation, t \in TasksOf(Y))]
        ELSE T[t]
  BY FailedTasksRows
<1> QED BY <1>1, <1>2 DEF TaskRow

\* A step that keeps every lease.
LEMMA KeptStep ==
  ASSUME LeaseKept(res, res', drains'), fences \subseteq fences',
         drains \subseteq drains', preparations' = preparations
  PROVE  LeaseStep
BY DEF LeaseKept, LeaseStep, LeaseRow

\* Submit, retry, cancel and drain grant nothing and withdraw no drain.
LEMMA OperatorLeases ==
  ASSUME TypeOK, OperatorRequest
  PROVE  LeaseStep
<1>1. PICK now \in Times :
        /\ res' = ResAt(now) /\ fences' = FencesAt(now)
        /\ drains' = drains /\ preparations' = preparations
  BY ZenonT(40) DEF OperatorRequest, Status, PutPool, Submit, Retry, Cancel, DrainNode, Settle
<1>2. LeaseKept(res, res', drains') /\ fences \subseteq fences'
  BY <1>1, SettledLeases DEF FencesAt
<1> QED BY <1>1, <1>2, KeptStep

\* A grant needs a live row that nobody asked to drain.
LEMMA GrantLeases ==
  ASSUME TypeOK, NEW now \in Times, NEW a \in Attempts,
         Grantable(ResAt(now), TasksAt(now), a, now),
         ~ShouldDrain(ResAt(now), drains, a),
         res' = Extend(ResAt(now), a, now), preparations'[a] # None
  PROVE  \A b \in Attempts : LeaseRow(b)
<1> DEFINE R == ResAt(now)
<1>1. /\ res \in ResTable /\ R \in ResTable /\ now \in Nat
      /\ Lapsed(now) \in SUBSET Attempts
  BY SettledRows, TimesNat DEF TypeOK
<1>2. /\ R[a].phase = IF a \in Lapsed(now) THEN "uncertain" ELSE res[a].phase
      /\ R[a].seq = res[a].seq
  BY <1>1, MakeUncertainFields DEF ResAt
<1>3. LeaseKept(res, R, drains')
  BY SettledLeases
<1> HIDE DEF R
<1>4. Live(R, a) /\ a \notin drains /\ R[a].phase # "draining"
  BY DEF Grantable, ShouldDrain, R
<1>5. \A b \in Attempts :
        /\ res'[b].seq = IF b = a THEN R[a].seq + 1 ELSE R[b].seq
        /\ res'[b].phase = IF b = a THEN "authorized" ELSE R[b].phase
  BY <1>1 DEF Extend, ResTable, R
<1>6. Granted(a)
  BY <1>2, <1>4, <1>5 DEF Live, Granted
<1> QED BY <1>3, <1>5, <1>6 DEF LeaseKept, LeaseRow

\* Prepared, renew, checkpoint, artifact, complete and fail grant at most the
\* lease that Granted describes.
LEMMA AttemptLeases ==
  ASSUME TypeOK, LeaseInvariant, AttemptRequest
  PROVE  LeaseStep
<1> PICK now \in Times, p \in Principals, s \in Wrappers, a \in Attempts :
       \/ \E e \in 1..MaxEpoch, identity \in Identities,
             applied \in SUBSET Controls :
             \/ Prepared(p, s, a, e, identity, applied, now)
             \/ PreparedInterrupted(p, s, a, e, identity, applied, now)
       \/ \E e \in 1..MaxEpoch, previous \in 0..MaxSeq :
             Renew(p, s, a, e, previous, now)
       \/ \E x \in Artifacts : CommitUpload(p, s, a, x, now)
       \/ \E r \in Results : PublishCheckpoint(p, s, a, r, now)
       \/ \E r \in Results : Complete(p, s, a, r, now)
       \/ \E kind \in {"yielded", "execution"} : Fail(p, s, a, kind, now)
  BY DEF AttemptRequest
<1> USE DEF evidence
<1> DEFINE R == ResAt(now)
           T == TasksAt(now)
<1>0. /\ R \in ResTable /\ LeaseKept(res, R, drains)
      /\ preparations \in [Attempts -> Identities \cup {None}]
  BY SettledRows, SettledLeases DEF TypeOK
<1>f. fences \subseteq FencesAt(now)
  BY DEF FencesAt
<1>1. ASSUME NEW e, NEW identity \in Identities, NEW applied,
             Prepared(p, s, a, e, identity, applied, now)
      PROVE  LeaseStep
  <2>1. /\ preparations' = [preparations EXCEPT ![a] = identity]
        /\ fences' = FencesAt(now) /\ drains' = drains
        /\ \/ res' = R
           \/ /\ Grantable(R, T, a, now) /\ ~ShouldDrain(R, drains, a)
              /\ res' = Extend(R, a, now)
    BY <1>1 DEF Prepared
  <2>2. \A b \in Attempts : preparations[b] # None => preparations'[b] # None
    BY <1>0, <1>1, <2>1, AbsenceAssumption
  <2>3. preparations'[a] # None
    BY <1>0, <1>1, <2>1, AbsenceAssumption
  <2>4. \A b \in Attempts : LeaseRow(b)
    <3>1. CASE res' = R
      BY <1>0, <2>1, <3>1 DEF LeaseKept, LeaseRow
    <3>2. CASE res' # R
      BY <2>1, <2>3, <3>2, GrantLeases
    <3> QED BY <3>1, <3>2
  <2> QED BY <1>f, <2>1, <2>2, <2>4 DEF LeaseStep
<1>2. ASSUME NEW e, NEW identity \in Identities, NEW applied,
             PreparedInterrupted(p, s, a, e, identity, applied, now)
      PROVE  LeaseStep
  <2>1. /\ preparations' = [preparations EXCEPT ![a] = identity]
        /\ fences' = FencesAt(now) /\ Reopen(R, drains)
    BY <1>2 DEF PreparedInterrupted
  <2>2. \A b \in Attempts : preparations[b] # None => preparations'[b] # None
    BY <1>0, <1>2, <2>1, AbsenceAssumption
  <2>3. LeaseKept(R, res', drains') /\ drains \subseteq drains'
    BY <1>0, <2>1, ReopenLeases
  <2>4. \A b \in Attempts : LeaseRow(b)
    BY <1>0, <2>3 DEF LeaseKept, LeaseRow
  <2> QED BY <1>f, <2>1, <2>2, <2>3, <2>4 DEF LeaseStep
<1>3. ASSUME NEW e, NEW previous, Renew(p, s, a, e, previous, now)
      PROVE  LeaseStep
  <2>1. /\ preparations' = preparations /\ R[a].seq > 0
        /\ fences' = FencesAt(now) /\ drains' = drains
        /\ \/ res' = R
           \/ /\ Grantable(R, T, a, now) /\ ~ShouldDrain(R, drains, a)
              /\ res' = Extend(R, a, now)
    BY <1>3 DEF Renew, Renews
  <2>2. preparations'[a] # None
    BY <1>0, <2>1 DEF LeaseKept, LeaseInvariant, PreparedFirst
  <2>3. \A b \in Attempts : LeaseRow(b)
    <3>1. CASE res' = R
      BY <1>0, <2>1, <3>1 DEF LeaseKept, LeaseRow
    <3>2. CASE res' # R
      BY <2>1, <2>2, <3>2, GrantLeases
    <3> QED BY <3>1, <3>2
  <2> QED BY <1>f, <2>1, <2>3 DEF LeaseStep
<1>4. ASSUME NEW x, CommitUpload(p, s, a, x, now)
      PROVE  LeaseStep
  BY <1>4, <1>0, <1>f, KeptStep DEF CommitUpload, Settle
<1>5. ASSUME NEW r, PublishCheckpoint(p, s, a, r, now)
      PROVE  LeaseStep
  BY <1>5, <1>0, <1>f, KeptStep DEF PublishCheckpoint, Settle
<1>6. ASSUME NEW r, Complete(p, s, a, r, now)
      PROVE  LeaseStep
  BY <1>6, <1>0, <1>f, KeptStep DEF Complete
<1>7. ASSUME NEW kind, Fail(p, s, a, kind, now)
      PROVE  LeaseStep
  BY <1>7, <1>0, <1>f, KeptStep DEF Fail
<1> QED BY <1>1, <1>2, <1>3, <1>4, <1>5, <1>6, <1>7

\* A whole heartbeat: expiry, the merge of the report and the offers of the
\* pass.
LEMMA HeartbeatLeases ==
  ASSUME TypeOK, AuthorityInvariant, LeaseInvariant, NEW now \in Times,
         NEW n \in Nodes, NEW s, NEW r \in Reports(n, now), Heartbeat(n, s, r, now)
  PROVE  LeaseStep
<1> DEFINE R == ResAt(now)
           F == FencesAt(now)
           T1 == TasksAt(now)
           M == MergedRes(R, F, n, r, Newer(n, r))
           F2 == MergedFences(R, F, M, n, r)
           Y == Yielding(T1, r)
           T == FailedTasks(T1, Y, Y)
           B == FailedRetry(T1, Y, Y, now)
           schedules == /\ Fresh(r.observedAt, now) /\ ObservedLive(r)
                        /\ NothingUnknown(R, n, r, Newer(n, r)) /\ r.cap.expand
                        /\ n \notin drained
                        /\ ReplayNodeCanAdmit(M, n, TRUE, Strangers(n, r))
           C == IF schedules THEN Considered(T, B, n, now) ELSE {}
           E == Eligible(M, T, C, r.cap)
<1>1. /\ fences' = F2 /\ preparations' = preparations
      /\ \E offers \in SUBSET E :
           /\ res' = OfferedRes(M, T, n, offers, now)
           /\ drains' = MergedDrains(M, r)
                          \cup AllPreempted(M, n, r.cap, E, offers)
  BY DEF Heartbeat
<1>2. IsReport(n, r) /\ now \in Nat
  BY ReportShape, TimesNat
<1>3. /\ R \in ResTable /\ T1 \in TaskTable /\ F \in SUBSET Attempts
      /\ fences \subseteq F
  BY SettledRows DEF FencesAt
<1>4. SafeTables(res, tasks, fences)
  BY DEF AuthorityInvariant
<1>5. /\ SafeTables(R, T1, F)
      /\ \A a \in Attempts : R[a].node = res[a].node
  BY <1>4, SettledSafe
<1>6. \A D : LeaseKept(res, R, D)
  BY SettledLeases
<1> HIDE DEF R, F, T1
<1>7. /\ M \in ResTable /\ SafeTables(M, T1, F2)
      /\ LeaseKept(R, M, MergedDrains(M, r))
  BY <1>2, <1>3, <1>5, MergedRows, MergeKeeps, MergedLeases DEF SafeTables
<1>8. drains \subseteq MergedDrains(M, r) /\ fences \subseteq F2
  BY <1>3 DEF MergedDrains, MergedFences
<1> HIDE DEF M, F2
<1>9. T \in TaskTable /\ \A t \in Tasks : T[t].generation = T1[t].generation
  <2>1. Y \in SUBSET Attempts
    BY <1>2, YieldingSeen
  <2> HIDE DEF Y
  <2>2. T \in TaskTable
    BY <1>3, <2>1, FailedTasksRows
  <2>3. \A t \in Tasks : T[t].generation = T1[t].generation
    BY <1>3, <2>1, FailedFields
  <2> QED BY <2>2, <2>3
<1>10. GenerationsOf(M, T)
  BY <1>7, <1>9, AttemptPair DEF SafeTables, GenerationsOf
<1>11. \A a \in Attempts : M[a].phase = "none" => M[a].seq = 0
  BY <1>6, <1>7 DEF LeaseKept, LeaseInvariant
<1>12. C \in SUBSET Tasks
  <2> HIDE DEF T, B, schedules
  <2> QED BY DEF Considered
<1> HIDE DEF T, B, C
<1>13. E \in SUBSET Tasks /\ \A t \in E : T[t].generation < MaxGen
  BY <1>12 DEF Eligible
<1> HIDE DEF E
<1>14. PICK offers \in SUBSET E :
           /\ res' = OfferedRes(M, T, n, offers, now)
           /\ drains' = MergedDrains(M, r)
                          \cup AllPreempted(M, n, r.cap, E, offers)
  BY <1>1
<1>15. \A a \in Attempts :
         /\ res'[a].seq = M[a].seq
         /\ res'[a].phase = "none" => M[a].phase = "none"
         /\ res'[a].phase = "draining" => M[a].phase = "draining"
  <2>1. offers \in SUBSET Tasks /\ \A t \in offers : T[t].generation < MaxGen
    BY <1>13
  <2> QED BY <1>2, <1>7, <1>9, <1>10, <1>11, <1>14, <2>1, OfferedLeases
<1>16. \A a \in Attempts : LeaseRow(a)
  BY <1>6, <1>7, <1>14, <1>15 DEF LeaseKept, LeaseRow
<1> QED BY <1>1, <1>8, <1>14, <1>16 DEF LeaseStep

\* A heartbeat that the process did not survive, after some of its commits.
LEMMA HeartbeatInterruptedLeases ==
  ASSUME TypeOK, AuthorityInvariant, NEW now \in Times, NEW n \in Nodes, NEW s,
         NEW r \in Reports(n, now), NEW K, HeartbeatInterrupted(n, s, r, K, now)
  PROVE  LeaseStep
<1> DEFINE R == ResAt(now)
           F == FencesAt(now)
           M == MergedRes(R, F, n, r, Newer(n, r))
           D == MergedDrains(M, r)
<1>1. /\ fences' = MergedFences(R, F, M, n, r) /\ preparations' = preparations
      /\ Reopen(M, D)
  BY DEF HeartbeatInterrupted
<1>2. IsReport(n, r)
  BY ReportShape
<1>3. R \in ResTable /\ fences \subseteq F
  BY SettledRows DEF FencesAt
<1>4. RowsOf(R) /\ \A a \in Attempts : R[a].node = res[a].node
  BY SettledSafe DEF AuthorityInvariant, SafeTables
<1>5. LeaseKept(res, R, D)
  BY SettledLeases
<1> HIDE DEF R, F
<1>6. M \in ResTable /\ LeaseKept(R, M, D)
  BY <1>2, <1>3, <1>4, MergedRows, MergedLeases
<1>7. drains \subseteq D /\ fences \subseteq fences'
  BY <1>1, <1>3 DEF MergedDrains, MergedFences
<1> HIDE DEF M, D
<1>8. LeaseKept(M, res', drains') /\ D \subseteq drains'
  BY <1>1, <1>6, ReopenLeases
<1>9. LeaseKept(res, res', drains')
  BY <1>5, <1>6, <1>8 DEF LeaseKept
<1> QED BY <1>1, <1>7, <1>8, <1>9, KeptStep

\* A node that lost its journal starts a new session; its rows become
\* uncertain.
LEMMA OpenReplaySessionLeases ==
  ASSUME TypeOK, NEW now \in Times, NEW n, NEW boot, NEW s,
         OpenReplaySession(n, boot, s, now)
  PROVE  LeaseStep
<1> DEFINE R == ResAt(now)
           lost == Lost(R, n)
<1>1. /\ res' = MakeUncertain(R, lost) /\ fences' = FencesAt(now) \cup lost
      /\ drains' = drains /\ preparations' = preparations
  BY DEF OpenReplaySession
<1>2. R \in ResTable /\ LeaseKept(res, R, drains)
  BY SettledRows, SettledLeases
<1>3. lost \in SUBSET Attempts /\ \A a \in lost : Unreleased(R, a)
  BY DEF Lost
<1> HIDE DEF R, lost
<1>4. LeaseKept(R, res', drains)
  BY <1>1, <1>2, <1>3, UncertainLeases
<1>5. LeaseKept(res, res', drains')
  BY <1>1, <1>2, <1>4 DEF LeaseKept
<1> QED BY <1>1, <1>5, KeptStep DEF FencesAt

\* Expiry or Prepared stopped by a crash, and the restart itself.
LEMMA InterruptionLeases ==
  ASSUME TypeOK, Interruption
  PROVE  LeaseStep
<1>1. /\ Reopen(res, drains) /\ preparations' = preparations
      /\ fences \subseteq fences'
  BY DEF Interruption, Restart, ExpireInterrupted
<1>2. LeaseKept(res, res', drains') /\ drains \subseteq drains'
  BY <1>1, ReopenLeases DEF TypeOK
<1> QED BY <1>1, <1>2, KeptStep

\* Every request, restart and crash is such a step.
LEMMA EveryLeaseStep ==
  ASSUME TypeOK, AuthorityInvariant, LeaseInvariant, [Next]_vars
  PROVE  LeaseStep
<1>1. CASE OperatorRequest
  BY <1>1, OperatorLeases
<1>2. CASE AttemptRequest
  BY <1>2, AttemptLeases
<1>3. CASE NodeRequest
  BY <1>3, HeartbeatLeases, HeartbeatInterruptedLeases, OpenReplaySessionLeases
     DEF NodeRequest
<1>4. CASE Interruption
  BY <1>4, InterruptionLeases
<1>5. CASE UNCHANGED vars
  BY <1>5 DEF vars, LeaseStep, LeaseRow
<1> QED BY <1>1, <1>2, <1>3, <1>4, <1>5 DEF Next

(***************************************************************************)
(* The invariant of the lease tables, kept by every grant, renewal,        *)
(* report, session and restart.                                            *)
(***************************************************************************)
THEOREM LeaseInductive == Spec => []LeaseInvariant
<1>1. Init => LeaseInvariant
  BY DEF Init, NoReservation, LeaseInvariant, PreparedFirst
<1>2. TypeOK /\ AuthorityInvariant /\ LeaseInvariant /\ [Next]_vars
        => LeaseInvariant'
  <2> SUFFICES ASSUME TypeOK, AuthorityInvariant, LeaseInvariant, [Next]_vars
               PROVE  LeaseInvariant'
    OBVIOUS
  <2>1. LeaseStep
    BY EveryLeaseStep
  <2> SUFFICES ASSUME NEW a \in Attempts
               PROVE  /\ res'[a].phase = "none" => res'[a].seq = 0
                      /\ res'[a].phase = "draining" => a \in drains'
                      /\ res'[a].seq > 0 => preparations'[a] # None
    BY DEF LeaseInvariant, PreparedFirst
  <2>2. CASE Granted(a)
    BY <2>2 DEF Granted
  <2>3. CASE ~Granted(a)
    BY <2>1, <2>3 DEF LeaseStep, LeaseRow, LeaseInvariant, PreparedFirst
  <2> QED BY <2>2, <2>3
<1> QED BY <1>1, <1>2, Typing, AuthorityInductive, PTL DEF Spec

(***************************************************************************)
(* Every attempt with a lease has a recorded gated process.                *)
(***************************************************************************)
THEOREM NothingRunsUnprepared == Spec => []PreparedFirst
<1>1. LeaseInvariant => PreparedFirst
  BY DEF LeaseInvariant
<1> QED BY <1>1, LeaseInductive, PTL

(***************************************************************************)
(* A fence is never withdrawn and a fenced attempt's lease never grows.    *)
(***************************************************************************)
THEOREM FencesAreFinal == Spec => FenceIsFinal
<1>1. TypeOK /\ AuthorityInvariant /\ LeaseInvariant /\ [Next]_vars
        => [\A a \in fences : a \in fences' /\ res'[a].seq = res[a].seq]_vars
  <2> SUFFICES ASSUME TypeOK, AuthorityInvariant, LeaseInvariant, [Next]_vars,
                      NEW a \in fences
               PROVE  a \in fences' /\ res'[a].seq = res[a].seq
    OBVIOUS
  <2>1. LeaseStep
    BY EveryLeaseStep
  <2>2. a \in Attempts /\ res[a].phase \in {"uncertain", "released"}
    BY DEF TypeOK, AuthorityInvariant, SafeTables, FencedOf
  <2> QED BY <2>1, <2>2 DEF LeaseStep, LeaseRow, Granted, Live
<1> QED BY <1>1, Typing, AuthorityInductive, LeaseInductive, PTL
        DEF Spec, FenceIsFinal

(***************************************************************************)
(* An attempt that was asked to drain stays asked, and no grant, report or *)
(* restart extends it.                                                     *)
(***************************************************************************)
THEOREM DrainsAreFinal == Spec => DrainIsFinal
<1>1. TypeOK /\ AuthorityInvariant /\ LeaseInvariant /\ [Next]_vars
        => [KeepsDrains]_vars
  <2> SUFFICES ASSUME TypeOK, AuthorityInvariant, LeaseInvariant, [Next]_vars,
                      NEW a \in Attempts, Draining(a)
               PROVE  Draining(a)' /\ res'[a].seq = res[a].seq
    BY DEF KeepsDrains
  <2>1. LeaseStep
    BY EveryLeaseStep
  <2>2. a \in drains
    BY DEF Draining, LeaseInvariant
  <2> QED BY <2>1, <2>2 DEF LeaseStep, LeaseRow, Granted, Draining
<1> QED BY <1>1, Typing, AuthorityInductive, LeaseInductive, PTL
        DEF Spec, DrainIsFinal

-----------------------------------------------------------------------------
(* Results.                                                                *)

\* A stored checkpoint is of an attempt its task has counted.
CheckpointsCounted ==
    \A t \in Tasks : checkpoints[t] # None =>
      /\ TaskOf(checkpoints[t][1]) = t
      /\ checkpoints[t][1][2] <= tasks[t].generation

\* A completed task has the receipt of an attempt and a result.
ReceiptsNamed ==
    \A t \in Tasks : tasks[t].status = "completed" =>
      tasks[t].receipt \in Attempts \X Results

ResultInvariant == AcceptedResult /\ ReceiptsNamed /\ CheckpointsCounted

\* The update from T to T2 accepts no result, and leaves completed tasks alone.
NothingAccepted(T, T2) ==
    \A t \in Tasks :
      /\ T[t].status = "completed" => T2[t] = T[t]
      /\ T2[t].status = "completed" => T[t].status = "completed"
      /\ T2[t].generation >= T[t].generation

\* Task t accepts the result of its latest attempt.
Accepted(t) ==
    \E a \in Attempts, r \in Results :
      /\ tasks'[t].receipt = <<a, r>> /\ a = <<t, tasks'[t].generation>>
      /\ res[a].seq > 0 /\ Published(a, r)

\* Task t stores a checkpoint of its latest attempt.
Progressed(t) ==
    \E a \in Attempts, r \in Results :
      /\ checkpoints'[t] = <<a, r>> /\ a = <<t, tasks'[t].generation>>
      /\ CheckpointSequence[r] > 0 /\ Advances(checkpoints[t], a, r)

\* What one step does to results.
ResultStep ==
    /\ KeepsFinalResults
    /\ \A t \in Tasks :
         /\ tasks'[t].generation >= tasks[t].generation
         /\ tasks'[t].status = "completed" =>
              tasks[t].status = "completed" \/ Accepted(t)
         /\ checkpoints'[t] = checkpoints[t] \/ Progressed(t)
    /\ publications \subseteq publications'

\* Marking tasks uncertain (mark_uncertain) touches no completed task.
LEMMA MarkedResults ==
  ASSUME NEW T \in TaskTable, NEW S \in SUBSET Attempts
  PROVE  NothingAccepted(T, MarkUncertain(T, S))
<1> SUFFICES ASSUME NEW t \in Tasks
             PROVE  LET x == T[t]
                        y == MarkUncertain(T, S)[t]
                    IN  /\ x.status = "completed" => y = x
                        /\ y.status = "completed" => x.status = "completed"
                        /\ y.generation >= x.generation
  BY DEF NothingAccepted
<1>1. T[t] \in TaskRow /\ T[t].generation \in Nat
  BY Rows, BoundsAssumption DEF TaskRow
<1>2. MarkUncertain(T, S)[t] = IF t \in TasksOf(S) /\ T[t].status = "assigned"
        THEN [T[t] EXCEPT !.status = Unsettled(t)] ELSE T[t]
  BY MarkUncertainRows
<1> QED BY <1>1, <1>2 DEF TaskRow, Unsettled

\* Neither does the expiry at the start of a request.
LEMMA SettledResults ==
  ASSUME TypeOK, NEW now
  PROVE  NothingAccepted(tasks, TasksAt(now))
BY SettledRows, MarkedResults DEF TypeOK, TasksAt

\* Charging failed attempts (record_failure) touches no completed task.
LEMMA FailedResults ==
  ASSUME NEW T \in TaskTable, NEW S \in SUBSET Attempts, NEW Y
  PROVE  NothingAccepted(T, FailedTasks(T, S, Y))
<1> SUFFICES ASSUME NEW t \in Tasks
             PROVE  LET x == T[t]
                        y == FailedTasks(T, S, Y)[t]
                    IN  /\ x.status = "completed" => y = x
                        /\ y.status = "completed" => x.status = "completed"
                        /\ y.generation >= x.generation
  BY DEF NothingAccepted
<1>1. T[t] \in TaskRow /\ T[t].generation \in Nat
  BY Rows, BoundsAssumption DEF TaskRow
<1>2. FailedTasks(T, S, Y)[t] =
        IF t \in TasksOf(S) /\ T[t].status # "completed"
        THEN [T[t] EXCEPT !.status =
                NextStatus(t, T[t].generation, t \in TasksOf(Y))]
        ELSE T[t]
  BY FailedTasksRows
<1> QED BY <1>1, <1>2 DEF TaskRow, NextStatus

\* The schedule leaves tasks alone that are not queued.
LEMMA ScheduledResults ==
  ASSUME NEW T \in TaskTable, NEW C \in SUBSET Tasks,
         \A t \in C : T[t].status = "queued", NEW offers \in SUBSET C,
         \A t \in offers : T[t].generation < MaxGen
  PROVE  NothingAccepted(T, ScheduledTasks(T, C, offers))
<1> DEFINE T2 == ScheduledTasks(T, C, offers)
<1>1. \A t \in Tasks :
        /\ T2[t].status = IF t \in offers THEN "assigned"
                          ELSE IF t \in C /\ Exhausted(T, t)
                          THEN "needs_reconciliation" ELSE T[t].status
        /\ T2[t].generation = IF t \in offers THEN T[t].generation + 1
                              ELSE T[t].generation
  <2>1. offers \in SUBSET Tasks
    OBVIOUS
  <2> QED BY <2>1, ScheduledTasksRows
<1>2. \A t \in Tasks \ C : T2[t] = T[t]
  BY DEF ScheduledTasks, Override, TaskTable
<1>3. \A t \in Tasks : T[t].generation \in Nat
  BY Rows, BoundsAssumption DEF TaskRow
<1> HIDE DEF T2
<1> QED BY <1>1, <1>2, <1>3 DEF NothingAccepted, T2

\* Tasks that a session or an operator puts back are not completed.
LEMMA OverriddenResults ==
  ASSUME NEW T \in TaskTable, NEW D \in SUBSET Tasks, NEW f, DOMAIN f = D,
         \A t \in D : /\ T[t].status # "completed"
                      /\ f[t].status # "completed"
                      /\ f[t].generation = T[t].generation
  PROVE  NothingAccepted(T, Override(f, T))
<1>1. T \in [Tasks -> TaskRow]
  BY Rows
<1>2. \A t \in Tasks : Override(f, T)[t] = IF t \in D THEN f[t] ELSE T[t]
  BY <1>1 DEF Override
<1>3. \A t \in Tasks : T[t].generation \in Nat
  BY <1>1, BoundsAssumption DEF TaskRow
<1> QED BY <1>2, <1>3 DEF NothingAccepted

\* A step that accepts nothing.
LEMMA QuietStep ==
  ASSUME NothingAccepted(tasks, tasks'), UNCHANGED outcomes
  PROVE  ResultStep
BY DEF NothingAccepted, ResultStep, KeepsFinalResults, outcomes

\* The operator's requests accept no result and keep the accepted ones.
LEMMA OperatorResults ==
  ASSUME TypeOK, AuthorityInvariant, OperatorRequest
  PROVE  ResultStep
<1> PICK now \in Times :
       \/ Status(now)
       \/ \E p \in Pools, spec \in PoolSpecs : PutPool(p, spec, now)
       \/ \E j \in Jobs : Submit(j, now)
       \/ \E t \in Tasks, confirmed \in BOOLEAN : Retry(t, confirmed, now)
       \/ \E j \in Cancellable : Cancel(j, now)
       \/ \E n \in Drainable, drain \in BOOLEAN : DrainNode(n, drain, now)
  BY DEF OperatorRequest
<1>0. /\ TasksAt(now) \in TaskTable /\ tasks \in TaskTable
      /\ NothingAccepted(tasks, TasksAt(now))
  BY SettledRows, SettledResults DEF TypeOK
<1>1. CASE UNCHANGED outcomes /\ tasks' = TasksAt(now)
  BY <1>0, <1>1, QuietStep
<1>2. ASSUME NEW j \in Jobs, Submit(j, now) PROVE ResultStep
  <2> DEFINE q == [t \in JobTasks(j) |-> [tasks[t] EXCEPT !.status = "queued"]]
  <2>1. /\ jobs[j] = "absent" /\ tasks' = Override(q, TasksAt(now))
        /\ UNCHANGED outcomes
    BY <1>2 DEF Submit
  <2>2. JobTasks(j) \subseteq Tasks
    BY DEF JobTasks
  <2>3. ASSUME NEW t \in JobTasks(j)
        PROVE  /\ TasksAt(now)[t].status # "completed"
               /\ q[t].status = "queued"
               /\ q[t].generation = TasksAt(now)[t].generation
    <3>1. tasks[t] \in TaskRow /\ tasks[t].status = "absent"
      BY <1>0, <2>1, Rows DEF AuthorityInvariant, SubmittedWithJob, JobTasks
    <3>2. /\ TasksAt(now)[t].generation = tasks[t].generation
          /\ TasksAt(now)[t].status # "completed"
      BY <1>0, <2>2, <3>1, SettledSafe DEF AuthorityInvariant, NothingAccepted
    <3> QED BY <3>1, <3>2 DEF TaskRow
  <2>4. DOMAIN q = JobTasks(j)
    OBVIOUS
  <2> HIDE DEF q
  <2>5. NothingAccepted(TasksAt(now), tasks')
    BY <1>0, <2>1, <2>2, <2>3, <2>4, OverriddenResults
  <2>6. \A t \in Tasks : /\ tasks[t].generation \in Nat
                         /\ TasksAt(now)[t].generation \in Nat
                         /\ tasks'[t].generation \in Nat
    <3>1. \A t \in Tasks : /\ tasks[t].generation \in Nat
                           /\ TasksAt(now)[t].generation \in Nat
      BY <1>0, Rows, BoundsAssumption DEF TaskRow
    <3>2. tasks' \in TaskTable
      BY <1>2, OperatorTyped DEF OperatorRequest, TypeOK
    <3> QED BY <3>1, <3>2, Rows, BoundsAssumption DEF TaskRow
  <2> QED BY <1>0, <2>1, <2>5, <2>6, QuietStep DEF NothingAccepted
<1>3. ASSUME NEW t \in Tasks, NEW confirmed \in BOOLEAN, Retry(t, confirmed, now)
      PROVE  ResultStep
  <2>1. /\ TasksAt(now)[t].status # "completed" /\ UNCHANGED outcomes
        /\ tasks' = [TasksAt(now) EXCEPT ![t].status = "queued"]
    BY <1>3 DEF Retry
  <2>2. \A u \in Tasks :
          /\ tasks'[u].status = IF u = t THEN "queued" ELSE TasksAt(now)[u].status
          /\ tasks'[u].generation = TasksAt(now)[u].generation
          /\ u # t => tasks'[u] = TasksAt(now)[u]
    BY <1>0, <2>1 DEF TaskTable
  <2>3. NothingAccepted(tasks, tasks')
    BY <1>0, <2>1, <2>2 DEF NothingAccepted
  <2> QED BY <2>1, <2>3, QuietStep
<1> QED BY <1>1, <1>2, <1>3 DEF Status, PutPool, Cancel, DrainNode, Settle

\* Of an attempt's requests only Complete accepts a result, and Checkpoint
\* moves forward.
LEMMA AttemptResults ==
  ASSUME TypeOK, AuthorityInvariant, ResultInvariant, AttemptRequest
  PROVE  ResultStep
<1> PICK now \in Times, p \in Principals, s \in Wrappers, a \in Attempts :
       \/ \E e \in 1..MaxEpoch, identity \in Identities,
             applied \in SUBSET Controls :
             \/ Prepared(p, s, a, e, identity, applied, now)
             \/ PreparedInterrupted(p, s, a, e, identity, applied, now)
       \/ \E e \in 1..MaxEpoch, previous \in 0..MaxSeq :
             Renew(p, s, a, e, previous, now)
       \/ \E x \in Artifacts : CommitUpload(p, s, a, x, now)
       \/ \E r \in Results : PublishCheckpoint(p, s, a, r, now)
       \/ \E r \in Results : Complete(p, s, a, r, now)
       \/ \E kind \in {"yielded", "execution"} : Fail(p, s, a, kind, now)
  BY DEF AttemptRequest
<1> DEFINE T == TasksAt(now)
<1>0. /\ T \in TaskTable /\ tasks \in TaskTable
      /\ NothingAccepted(tasks, T)
      /\ \A t \in Tasks : T[t].generation = tasks[t].generation
      /\ checkpoints \in [Tasks -> {None} \cup (Attempts \X Results)]
  BY SettledRows, SettledResults, SettledSafe DEF TypeOK, AuthorityInvariant
<1>a. a = <<TaskOf(a), a[2]>> /\ TaskOf(a) \in Tasks
  BY AttemptPair DEF TaskOf
<1>1. CASE UNCHANGED outcomes /\ tasks' = T
  BY <1>0, <1>1, QuietStep
<1>2. ASSUME NEW x, CommitUpload(p, s, a, x, now) PROVE ResultStep
  <2>1. /\ tasks' = T /\ checkpoints' = checkpoints
        /\ publications \subseteq publications'
    BY <1>2 DEF CommitUpload, Settle
  <2> QED BY <1>0, <2>1 DEF NothingAccepted, ResultStep, KeepsFinalResults
<1>3. ASSUME NEW r \in Results, PublishCheckpoint(p, s, a, r, now)
      PROVE  ResultStep
  <2>1. /\ tasks' = T /\ publications' = publications
        /\ CheckpointSequence[r] > 0
        /\ Advances(checkpoints[TaskOf(a)], a, r)
        /\ checkpoints' = [checkpoints EXCEPT ![TaskOf(a)] = <<a, r>>]
        /\ IsLatest(T, a)
    BY <1>3 DEF PublishCheckpoint, Settle, CurrentAttempt
  <2>2. Progressed(TaskOf(a))
    <3>1. a = <<TaskOf(a), tasks'[TaskOf(a)].generation>>
      BY <1>a, <2>1 DEF IsLatest, TaskOf
    <3>2. checkpoints'[TaskOf(a)] = <<a, r>>
      BY <1>0, <1>a, <2>1
    <3> QED BY <2>1, <3>1, <3>2 DEF Progressed
  <2>3. \A t \in Tasks : t # TaskOf(a) => checkpoints'[t] = checkpoints[t]
    BY <1>0, <2>1
  <2> QED BY <1>0, <2>1, <2>2, <2>3
          DEF NothingAccepted, ResultStep, KeepsFinalResults
<1>4. ASSUME NEW r \in Results, Complete(p, s, a, r, now)
      PROVE  ResultStep
  <2> DEFINE t == TaskOf(a)
  <2>1. /\ Published(a, r) /\ IsLatest(T, a) /\ Accepts(T, a, r)
        /\ tasks' = [T EXCEPT ![t].status = "completed", ![t].receipt = <<a, r>>]
        /\ UNCHANGED outcomes
    BY <1>4 DEF Complete, CurrentAttempt
  <2>2. t \in Tasks /\ T[t] \in TaskRow /\ a[1] = t
    BY <1>0, <1>a, Rows DEF TaskOf
  <2>3. tasks'[t] = [T[t] EXCEPT !.status = "completed", !.receipt = <<a, r>>]
    BY <1>0, <2>1, <2>2 DEF TaskTable
  <2>4. \A u \in Tasks : u # t => tasks'[u] = T[u]
    BY <1>0, <2>1 DEF TaskTable
  <2>5. tasks'[t].generation = T[t].generation /\ tasks'[t].receipt = <<a, r>>
    BY <2>2, <2>3 DEF TaskRow
  <2>6. T[t].status = "completed" => tasks'[t] = T[t]
    <3> HAVE T[t].status = "completed"
    <3>1. T[t].receipt = <<a, r>>
      BY <2>1 DEF Accepts
    <3> QED BY <2>2, <2>3, <3>1 DEF TaskRow
  <2>7. T[t].status = "completed" \/ Accepted(t)
    <3> SUFFICES ASSUME T[t].status # "completed" PROVE Accepted(t)
      OBVIOUS
    <3>1. res[a].seq > 0
      BY <2>1 DEF Accepts
    <3>2. a = <<t, tasks'[t].generation>>
      BY <1>a, <2>1, <2>2, <2>5 DEF IsLatest
    <3> QED BY <2>1, <2>5, <3>1, <3>2 DEF Accepted
  <2> HIDE DEF t, T
  <2>8. KeepsFinalResults
    BY <1>0, <2>4, <2>6 DEF NothingAccepted, KeepsFinalResults
  <2>9. ASSUME NEW u \in Tasks
        PROVE  /\ tasks'[u].generation >= tasks[u].generation
               /\ tasks'[u].status = "completed" =>
                    tasks[u].status = "completed" \/ Accepted(u)
    BY <1>0, <2>4, <2>5, <2>7 DEF NothingAccepted
  <2> QED BY <2>1, <2>8, <2>9 DEF ResultStep, outcomes
<1>5. ASSUME NEW kind, Fail(p, s, a, kind, now) PROVE ResultStep
  <2>1. UNCHANGED outcomes /\ \E Y : tasks' = FailedTasks(T, {a}, Y)
    BY <1>5 DEF Fail
  <2>2. NothingAccepted(T, tasks')
    BY <1>0, <2>1, FailedResults
  <2>3. \A t \in Tasks : tasks'[t].generation = T[t].generation
    BY <1>0, <2>1, FailedFields
  <2>4. NothingAccepted(tasks, tasks')
    BY <1>0, <2>2, <2>3 DEF NothingAccepted
  <2> QED BY <2>1, <2>4, QuietStep
<1> QED BY <1>1, <1>2, <1>3, <1>4, <1>5
        DEF Prepared, PreparedInterrupted, Renew

\* Updates in a row accept nothing when none of them does.
LEMMA NothingTwice ==
  ASSUME NEW T \in TaskTable, NEW T1 \in TaskTable, NEW T2 \in TaskTable,
         NothingAccepted(T, T1), NothingAccepted(T1, T2)
  PROVE  NothingAccepted(T, T2)
<1>1. \A t \in Tasks : /\ T[t].generation \in Nat /\ T1[t].generation \in Nat
                       /\ T2[t].generation \in Nat
  BY Rows, BoundsAssumption DEF TaskRow
<1> QED BY <1>1 DEF NothingAccepted

\* A whole heartbeat keeps results and checkpoints.
LEMMA HeartbeatResults ==
  ASSUME TypeOK, NEW now \in Times, NEW n \in Nodes, NEW s,
         NEW r \in Reports(n, now), Heartbeat(n, s, r, now)
  PROVE  ResultStep
<1> DEFINE R == ResAt(now)
           T1 == TasksAt(now)
           M == MergedRes(R, FencesAt(now), n, r, Newer(n, r))
           Y == Yielding(T1, r)
           T == FailedTasks(T1, Y, Y)
           B == FailedRetry(T1, Y, Y, now)
           schedules == /\ Fresh(r.observedAt, now) /\ ObservedLive(r)
                        /\ NothingUnknown(R, n, r, Newer(n, r)) /\ r.cap.expand
                        /\ n \notin drained
                        /\ ReplayNodeCanAdmit(M, n, TRUE, Strangers(n, r))
           C == IF schedules THEN Considered(T, B, n, now) ELSE {}
           E == Eligible(M, T, C, r.cap)
<1>1. /\ UNCHANGED outcomes
      /\ \E offers \in SUBSET E : tasks' = ScheduledTasks(T, C, offers)
  BY DEF Heartbeat
<1>2. /\ T1 \in TaskTable /\ tasks \in TaskTable /\ NothingAccepted(tasks, T1)
      /\ Y \in SUBSET Attempts
  BY SettledRows, SettledResults, ReportShape, YieldingSeen DEF TypeOK
<1>3. T \in TaskTable /\ NothingAccepted(T1, T)
  <2> HIDE DEF Y, T1
  <2> QED BY <1>2, FailedTasksRows, FailedResults
<1>4. C \in SUBSET Tasks /\ \A t \in C : T[t].status = "queued"
  <2> HIDE DEF T, B, schedules
  <2> QED BY DEF Considered
<1> HIDE DEF T, C, T1
<1>5. E \in SUBSET C /\ \A t \in E : T[t].generation < MaxGen
  BY DEF Eligible
<1> HIDE DEF E
<1>6. PICK offers \in SUBSET E : tasks' = ScheduledTasks(T, C, offers)
  BY <1>1
<1>7. tasks' \in TaskTable /\ NothingAccepted(T, tasks')
  <2>1. /\ offers \in SUBSET C /\ offers \in SUBSET Tasks
        /\ \A t \in offers : T[t].generation < MaxGen
    BY <1>4, <1>5
  <2> QED BY <1>3, <1>4, <1>6, <2>1, ScheduledTasksRows, ScheduledResults
<1>8. NothingAccepted(tasks, T)
  BY <1>2, <1>3, NothingTwice
<1>9. NothingAccepted(tasks, tasks')
  BY <1>2, <1>3, <1>7, <1>8, NothingTwice
<1> QED BY <1>1, <1>9, QuietStep

\* So does one that was cut off between its commits.
LEMMA HeartbeatInterruptedResults ==
  ASSUME TypeOK, NEW now \in Times, NEW n \in Nodes, NEW s,
         NEW r \in Reports(n, now), NEW K \in SUBSET Yielding(TasksAt(now), r),
         HeartbeatInterrupted(n, s, r, K, now)
  PROVE  ResultStep
<1> DEFINE T == TasksAt(now)
<1>1. tasks' = FailedTasks(T, K, K) /\ UNCHANGED outcomes
  BY DEF HeartbeatInterrupted
<1>2. /\ T \in TaskTable /\ tasks \in TaskTable /\ NothingAccepted(tasks, T)
      /\ K \in SUBSET Attempts
  BY SettledRows, SettledResults, ReportShape, YieldingSeen DEF TypeOK
<1> HIDE DEF T
<1>3. tasks' \in TaskTable /\ NothingAccepted(T, tasks')
  BY <1>1, <1>2, FailedTasksRows, FailedResults
<1>4. NothingAccepted(tasks, tasks')
  BY <1>2, <1>3, NothingTwice
<1> QED BY <1>1, <1>4, QuietStep

\* A new session of a replay node keeps results and checkpoints.
LEMMA OpenReplaySessionResults ==
  ASSUME TypeOK, AuthorityInvariant, NEW now \in Times, NEW n \in ReplayNodes,
         NEW boot \in Boots, NEW s \in 1..MaxSession,
         OpenReplaySession(n, boot, s, now)
  PROVE  ResultStep
<1> DEFINE R == ResAt(now)
           T == TasksAt(now)
           lost == Lost(R, n)
           D == {u \in TasksOf({a \in lost : IsLatest(tasks, a)}) :
                   tasks[u].status # "completed"}
           f == [t \in D |-> [tasks[t] EXCEPT !.status = Unsettled(t)]]
<1>1. tasks' = Override(f, T) /\ UNCHANGED outcomes
  BY DEF OpenReplaySession
<1>2. /\ T \in TaskTable /\ tasks \in TaskTable /\ NothingAccepted(tasks, T)
      /\ \A t \in Tasks : T[t].generation = tasks[t].generation
  BY SettledRows, SettledResults, SettledSafe DEF TypeOK, AuthorityInvariant
<1>3. D \subseteq Tasks /\ \A t \in D : tasks[t].status # "completed"
  BY DEF TasksOf, TaskOf, Attempts, Lost
<1> HIDE DEF R, T, lost, D
<1>4. ASSUME NEW t \in D
      PROVE  /\ T[t].status # "completed"
             /\ f[t].status # "completed"
             /\ f[t].generation = T[t].generation
  <2>1. tasks[t] \in TaskRow
    BY <1>2, <1>3, Rows
  <2>2. f[t].status = Unsettled(t) /\ f[t].generation = tasks[t].generation
    BY <2>1 DEF TaskRow
  <2> QED BY <1>2, <1>3, <2>2 DEF NothingAccepted, Unsettled
<1>5. DOMAIN f = D
  OBVIOUS
<1> HIDE DEF f
<1>6. NothingAccepted(T, tasks')
  BY <1>1, <1>2, <1>3, <1>4, <1>5, OverriddenResults
<1>7. tasks' \in TaskTable
  BY OpenReplaySessionTyped DEF TypeOK
<1>8. NothingAccepted(tasks, tasks')
  BY <1>2, <1>6, <1>7, NothingTwice
<1> QED BY <1>1, <1>8, QuietStep

\* So do the crash points of the other requests and the restart.
LEMMA InterruptionResults ==
  ASSUME TypeOK, Interruption
  PROVE  ResultStep
<1>0. tasks \in TaskTable
  BY DEF TypeOK
<1>1. CASE Restart
  <2>1. NothingAccepted(tasks, tasks') /\ UNCHANGED outcomes
    BY <1>0, <1>1, Rows, BoundsAssumption
       DEF Restart, NothingAccepted, TaskRow, outcomes
  <2> QED BY <2>1, QuietStep
<1>2. ASSUME NEW now \in Times, NEW W \in SUBSET Lapsed(now),
             NEW X \in SUBSET Lapsed(now), ExpireInterrupted(W, X, now)
      PROVE  ResultStep
  <2>1. tasks' = MarkUncertain(tasks, W) /\ UNCHANGED outcomes
    BY <1>2 DEF ExpireInterrupted
  <2>2. W \in SUBSET Attempts
    BY DEF Lapsed
  <2> QED BY <1>0, <2>1, <2>2, MarkedResults, QuietStep
<1> QED BY <1>1, <1>2 DEF Interruption

\* Every request, restart and crash is such a step.
LEMMA EveryResultStep ==
  ASSUME TypeOK, AuthorityInvariant, ResultInvariant, [Next]_vars
  PROVE  ResultStep
<1>1. CASE OperatorRequest
  BY <1>1, OperatorResults
<1>2. CASE AttemptRequest
  BY <1>2, AttemptResults
<1>3. CASE NodeRequest
  BY <1>3, HeartbeatResults, HeartbeatInterruptedResults,
     OpenReplaySessionResults DEF NodeRequest
<1>4. CASE Interruption
  BY <1>4, InterruptionResults
<1>5. CASE UNCHANGED vars
  <2>1. tasks' = tasks /\ UNCHANGED outcomes
    BY <1>5 DEF vars
  <2>2. \A t \in Tasks : tasks[t].generation \in Nat
    BY Rows, BoundsAssumption DEF TypeOK, TaskRow
  <2> QED BY <2>1, <2>2, QuietStep DEF NothingAccepted
<1> QED BY <1>1, <1>2, <1>3, <1>4, <1>5 DEF Next

\* An attempt that held a lease keeps the row that says so.
LEMMA LeasesStay ==
  ASSUME TypeOK, LeaseStep, NEW a \in Attempts, res[a].seq > 0
  PROVE  res'[a].seq > 0
<1>1. res[a].seq \in Nat
  BY Rows DEF TypeOK, ResRow
<1> QED BY <1>1 DEF LeaseStep, LeaseRow, Granted

(***************************************************************************)
(* The invariant of results and checkpoints, kept by completions, resends, *)
(* failures, expiry and crashes.                                           *)
(***************************************************************************)
THEOREM ResultInductive == Spec => []ResultInvariant
<1>1. Init => ResultInvariant
  BY DEF Init, ResultInvariant, AcceptedResult, ReceiptsNamed, CheckpointsCounted
<1>2. TypeOK /\ TypeOK' /\ AuthorityInvariant /\ LeaseInvariant
        /\ ResultInvariant /\ [Next]_vars => ResultInvariant'
  <2> SUFFICES ASSUME TypeOK, TypeOK', AuthorityInvariant, LeaseInvariant,
                      ResultInvariant, [Next]_vars
               PROVE  ResultInvariant'
    OBVIOUS
  <2>1. LeaseStep /\ ResultStep
    BY EveryLeaseStep, EveryResultStep
  <2> DEFINE Kept(a, r) == \A x \in ResultArtifacts[r] : <<a, x>> \in publications'
  <2>2. ASSUME NEW a, NEW r, Published(a, r) PROVE Kept(a, r)
    BY <2>1, <2>2 DEF ResultStep, Published
  <2>3. AcceptedResult'
    <3> SUFFICES ASSUME NEW t \in Tasks, tasks'[t].status = "completed"
                 PROVE  \E a, r : /\ a = tasks'[t].receipt[1]
                                  /\ r = tasks'[t].receipt[2]
                                  /\ a = <<t, tasks'[t].generation>>
                                  /\ res'[a].seq > 0 /\ Kept(a, r)
      BY DEF AcceptedResult, Published
    <3> HIDE DEF Kept
    <3>1. CASE tasks[t].status = "completed"
      <4> DEFINE a == tasks[t].receipt[1]
                 r == tasks[t].receipt[2]
      <4>1. /\ a = <<t, tasks[t].generation>> /\ res[a].seq > 0
            /\ Published(a, r)
        BY <3>1 DEF ResultInvariant, AcceptedResult
      <4>2. tasks'[t] = tasks[t]
        BY <2>1, <3>1 DEF ResultStep, KeepsFinalResults
      <4>3. a \in Attempts
        BY <3>1 DEF ResultInvariant, ReceiptsNamed
      <4> HIDE DEF a, r
      <4>4. res'[a].seq > 0 /\ Kept(a, r)
        BY <2>1, <2>2, <4>1, <4>3, LeasesStay
      <4> QED BY <4>1, <4>2, <4>4 DEF a, r
    <3>2. CASE tasks[t].status # "completed"
      <4>1. PICK a \in Attempts, r \in Results :
              /\ tasks'[t].receipt = <<a, r>> /\ a = <<t, tasks'[t].generation>>
              /\ res[a].seq > 0 /\ Published(a, r)
        BY <2>1, <3>2 DEF ResultStep, Accepted
      <4>2. res'[a].seq > 0 /\ Kept(a, r)
        BY <2>1, <2>2, <4>1, LeasesStay
      <4> QED BY <4>1, <4>2
    <3> QED BY <3>1, <3>2
  <2>4. CheckpointsCounted'
    <3> SUFFICES ASSUME NEW t \in Tasks, checkpoints'[t] # None
                 PROVE  /\ TaskOf(checkpoints'[t][1]) = t
                        /\ checkpoints'[t][1][2] <= tasks'[t].generation
      BY DEF CheckpointsCounted
    <3>1. tasks[t].generation \in Nat /\ tasks'[t].generation \in Nat
      BY Rows, BoundsAssumption DEF TypeOK, TaskRow
    <3>2. CASE Progressed(t)
      BY <3>1, <3>2 DEF Progressed, TaskOf
    <3>3. CASE checkpoints'[t] = checkpoints[t]
      <4>1. /\ TaskOf(checkpoints[t][1]) = t
            /\ checkpoints[t][1][2] <= tasks[t].generation
        BY <3>3 DEF ResultInvariant, CheckpointsCounted
      <4>2. checkpoints[t] \in Attempts \X Results
        BY <3>3 DEF TypeOK
      <4>3. checkpoints[t][1][2] \in Nat
        BY <4>2, BoundsAssumption DEF Attempts
      <4> QED BY <2>1, <3>1, <3>3, <4>1, <4>3 DEF ResultStep
    <3> QED BY <2>1, <3>2, <3>3 DEF ResultStep
  <2>5. ReceiptsNamed'
    BY <2>1 DEF ResultInvariant, ReceiptsNamed, ResultStep, KeepsFinalResults,
                Accepted
  <2> QED BY <2>3, <2>4, <2>5 DEF ResultInvariant
<1> QED BY <1>1, <1>2, Typing, AuthorityInductive, LeaseInductive, PTL DEF Spec

(***************************************************************************)
(* An accepted result comes from the latest attempt, which held a lease    *)
(* and published what it references.                                       *)
(***************************************************************************)
THEOREM AcceptedIsCurrent == Spec => []AcceptedResult
<1>1. ResultInvariant => AcceptedResult
  BY DEF ResultInvariant
<1> QED BY <1>1, ResultInductive, PTL

(***************************************************************************)
(* A completed task never changes, and a stored checkpoint only moves      *)
(* forward in (generation, checkpoint_sequence) order.                     *)
(***************************************************************************)
THEOREM ResultsStay == Spec => ResultsAreKept
<1>1. TypeOK /\ AuthorityInvariant /\ ResultInvariant /\ [Next]_vars
        => [KeepsFinalResults /\ AdvancesCheckpoints]_vars
  <2> SUFFICES ASSUME TypeOK, AuthorityInvariant, ResultInvariant, [Next]_vars
               PROVE  KeepsFinalResults /\ AdvancesCheckpoints
    OBVIOUS
  <2>1. ResultStep
    BY EveryResultStep
  <2>2. AdvancesCheckpoints
    <3> SUFFICES ASSUME NEW t \in Tasks
                 PROVE  AtLeast(CheckpointRank(checkpoints'[t]),
                                CheckpointRank(checkpoints[t]))
      BY DEF AdvancesCheckpoints
    <3> DEFINE old == checkpoints[t]
    <3>1. old \in {None} \cup (Attempts \X Results)
      BY DEF TypeOK
    <3>2. \A c \in Attempts \X Results :
            c[1][2] \in Nat \ {0} /\ CheckpointSequence[c[2]] \in Nat
      BY LaunchAssumption DEF Attempts
    <3>3. CheckpointRank(old)[1] \in Nat /\ CheckpointRank(old)[2] \in Nat
      BY <3>1, <3>2 DEF CheckpointRank
    <3>4. CASE checkpoints'[t] = old
      BY <3>3, <3>4 DEF AtLeast
    <3>5. CASE checkpoints'[t] # old
      <4>1. PICK a \in Attempts, r \in Results :
              /\ checkpoints'[t] = <<a, r>> /\ a = <<t, tasks'[t].generation>>
              /\ CheckpointSequence[r] > 0 /\ Advances(old, a, r)
        BY <2>1, <3>5 DEF ResultStep, Progressed
      <4>2. CheckpointRank(checkpoints'[t]) = <<a[2], CheckpointSequence[r]>>
        BY <4>1, AbsenceAssumption DEF CheckpointRank
      <4>3. a[2] \in Nat \ {0} /\ CheckpointSequence[r] \in Nat
        BY LaunchAssumption, BoundsAssumption DEF Attempts
      <4>4. CASE old = None
        BY <4>2, <4>3, <4>4 DEF AtLeast, CheckpointRank
      <4>5. CASE old # None
        <5>1. /\ old \in Attempts \X Results /\ old[1] \in Attempts
              /\ old[1][1] = t
          BY <3>1, <4>5 DEF ResultInvariant, CheckpointsCounted, TaskOf
        <5>2. old[1][2] <= a[2]
          <6>1. tasks[t].generation \in Nat /\ old[1][2] \in Nat
            BY <3>2, <5>1, Rows, BoundsAssumption DEF TypeOK, TaskRow
          <6>2. old[1][2] <= tasks[t].generation /\ tasks[t].generation <= a[2]
            BY <2>1, <4>1, <4>5
               DEF ResultInvariant, CheckpointsCounted, ResultStep
          <6> QED BY <4>3, <6>1, <6>2
        <5>3. CheckpointRank(old) = <<old[1][2], CheckpointSequence[old[2]]>>
          BY <4>5 DEF CheckpointRank
        <5>4. old[1][2] = a[2] => old[1] = a
          BY <4>1, <5>1, AttemptPair
        <5>5. old[1] = a => CheckpointSequence[r] > CheckpointSequence[old[2]]
          BY <4>1, <4>5 DEF Advances
        <5>6. old[1][2] \in Nat /\ CheckpointSequence[old[2]] \in Nat
          BY <3>2, <5>1
        <5> QED BY <4>2, <4>3, <5>2, <5>3, <5>4, <5>5, <5>6 DEF AtLeast
      <4> QED BY <4>4, <4>5
    <3> QED BY <3>4, <3>5
  <2> QED BY <2>1, <2>2 DEF ResultStep
<1> QED BY <1>1, Typing, AuthorityInductive, ResultInductive, PTL
        DEF Spec, ResultsAreKept

-----------------------------------------------------------------------------
(* Sessions, retries and the task ledger: a failure is charged once and    *)
(* retires its attempt, work is retried within its budget, and the         *)
(* coordinator implements TaskLedger.  TaskStep says what one request,     *)
(* restart or crash may do to the row of one task and to the reservations  *)
(* that hold capacity for it.                                              *)

-----------------------------------------------------------------------------
(* What a step does to one task.                                           *)

SameRetry(t) == retry'[t] = retry[t]

Moved(t, status) == tasks'[t] = [tasks[t] EXCEPT !.status = status]

Untouched(t) == tasks'[t] = tasks[t] /\ SameRetry(t)

\* The lease lapsed, or the session that held the work is gone.
TakenBack(t) ==
    /\ \/ tasks[t].status = "assigned"
       \/ tasks[t].status \in {"queued", "needs_reconciliation"} /\ Held(res, t)
    /\ Moved(t, Unsettled(t)) /\ SameRetry(t)

\* max_attempts is used up.
GivenUp(t) ==
    /\ tasks[t].status \in {"queued", "assigned"}
    /\ Moved(t, "needs_reconciliation") /\ SameRetry(t)

\* The latest attempt released its capacity, and its end was charged.
Charged(t) ==
    /\ tasks[t].status \in {"queued", "assigned", "needs_reconciliation"}
    /\ \E yielded \in BOOLEAN :
         /\ Moved(t, NextStatus(t, tasks[t].generation, yielded))
         /\ retry'[t].failures = FailureCount(t, yielded)
    /\ \A a \in Attempts : TaskOf(a) = t /\ IsLatest(tasks, a) =>
                             ~Unreleased(res', a)

Started(t) ==
    /\ tasks[t].status = "queued" /\ ~Exhausted(tasks, t)
    /\ tasks[t].generation < MaxGen
    /\ tasks'[t] = [tasks[t] EXCEPT !.status = "assigned",
                                    !.generation = tasks[t].generation + 1]
    /\ SameRetry(t)
    /\ Truthful => ~Held(res, t)
    /\ \A a \in Attempts : TaskOf(a) = t =>
         (Unreleased(res', a) <=> a[2] = tasks[t].generation + 1)

Submitted(t) == tasks[t].status = "absent" /\ Moved(t, "queued") /\ SameRetry(t)

Retried(t) ==
    /\ tasks[t].status \in {"queued", "needs_reconciliation"}
    /\ ~Held(res, t) /\ Moved(t, "queued") /\ retry'[t] = NoRetry

Finished(t) ==
    /\ tasks[t].status = "assigned" /\ SameRetry(t)
    /\ \E r \in Results :
         tasks'[t] = [tasks[t] EXCEPT !.status = "completed",
                        !.receipt = <<<<t, tasks[t].generation>>, r>>]
    /\ \A a \in Attempts : TaskOf(a) = t =>
         (Unreleased(res', a) <=> Unreleased(res, a))

TaskStep(t) ==
    \/ Untouched(t) \/ TakenBack(t) \/ GivenUp(t) \/ Charged(t)
    \/ Started(t) \/ Submitted(t) \/ Retried(t) \/ Finished(t)

\* Capacity comes back for good unless a report contradicts a release, and a
\* row that lost its authority stays without it.
HolderStep(a) ==
    /\ Unreleased(res', a) =>
         \/ Unreleased(res, a)
         \/ ~Truthful /\ res[a].phase = "released"
         \/ Started(TaskOf(a)) /\ a[2] = tasks[TaskOf(a)].generation + 1
    /\ Inert(res, fences, a) => Inert(res', fences', a)

\* A new receipt is for a released latest attempt, whose task is not left to it.
ReceiptStep ==
    \A a \in failureReceipts' \ failureReceipts :
      /\ res'[a].phase = "released"
      /\ Charged(TaskOf(a)) \/ tasks'[TaskOf(a)].status = "completed"

LedgerStep ==
    /\ \A t \in Tasks : TaskStep(t)
    /\ \A a \in Attempts : HolderStep(a)
    /\ failureReceipts \subseteq failureReceipts' /\ ReceiptStep

-----------------------------------------------------------------------------
(* The invariant.                                                          *)

\* Work whose failures used up the budget waits for the operator.
BudgetSpent ==
    Truthful => \A t \in Tasks :
      \/ retry[t].failures < RetryLimit
      \/ /\ tasks[t].status \in {"needs_reconciliation", "completed"}
         /\ ~Held(res, t)

AttemptsBounded ==
    \A t \in Tasks : TaskSpec[t].maxAttempts # 0 =>
      tasks[t].generation <= TaskSpec[t].maxAttempts

\* Only the latest attempt of a task holds capacity.
HeldByLatest ==
    Truthful => \A a \in Attempts : Unreleased(res, a) => IsLatest(tasks, a)

\* A charged attempt holds nothing.
ReceiptsHoldNothing ==
    Truthful => \A a \in failureReceipts : ~Unreleased(res, a)

LedgerInvariant ==
    /\ BudgetSpent /\ AttemptsBounded
    /\ HeldByLatest /\ ReceiptsHoldNothing /\ ReceiptsRetire

-----------------------------------------------------------------------------
(* Updates of the reservations.                                            *)

\* The update keeps who holds capacity, and what has lost its authority.
HoldersKept(R, F, M, F2) ==
    \A a \in Attempts :
      /\ Unreleased(M, a) <=> Unreleased(R, a)
      /\ Inert(R, F, a) => Inert(M, F2, a)

\* Rows that become uncertain hold the capacity they held.
LEMMA UncertainHolders ==
  ASSUME NEW R \in ResTable, NEW U \in SUBSET Attempts,
         \A a \in U : Unreleased(R, a), NEW F, NEW F2, F \subseteq F2
  PROVE  HoldersKept(R, F, MakeUncertain(R, U), F2)
<1> DEFINE M == MakeUncertain(R, U)
<1>1. \A a \in Attempts :
        M[a].phase = IF a \in U THEN "uncertain" ELSE R[a].phase
  BY MakeUncertainFields
<1> HIDE DEF M
<1> QED BY <1>1 DEF HoldersKept, Unreleased, Inert, M

\* The expiry at the start of a request changes no holder.
LEMMA SettledHolders ==
  ASSUME TypeOK, NEW now
  PROVE  HoldersKept(res, fences, ResAt(now), FencesAt(now))
<1>1. /\ res \in ResTable /\ Lapsed(now) \in SUBSET Attempts
      /\ \A a \in Lapsed(now) : Unreleased(res, a)
      /\ fences \subseteq FencesAt(now)
  BY DEF TypeOK, Lapsed, Live, Unreleased, FencesAt
<1> QED BY <1>1, UncertainHolders DEF ResAt

\* A restart changes no holder.
LEMMA ReopenHolders ==
  ASSUME NEW R \in ResTable, NEW D, Reopen(R, D), NEW F, NEW F2, F \subseteq F2
  PROVE  HoldersKept(R, F, res', F2)
<1> DEFINE U == {a \in Attempts : Unreleased(R, a)}
<1>1. U \in SUBSET Attempts /\ \A a \in U : Unreleased(R, a)
  OBVIOUS
<1>2. res' = MakeUncertain(R, U)
  BY DEF Reopen
<1> HIDE DEF U
<1> QED BY <1>1, <1>2, UncertainHolders

\* A grant or renewal changes no holder.
LEMMA ExtendHolders ==
  ASSUME NEW R \in ResTable, NEW F, NEW a \in Attempts, NEW now, Live(R, a)
  PROVE  HoldersKept(R, F, Extend(R, a, now), F)
<1> DEFINE M == Extend(R, a, now)
<1>1. \A b \in Attempts :
        M[b].phase = IF b = a THEN "authorized" ELSE R[b].phase
  BY DEF Extend, ResTable
<1> HIDE DEF M
<1> QED BY <1>1 DEF HoldersKept, Unreleased, Inert, Live, M

\* A report names nothing that does not exist, and revives nothing inert; it
\* contradicts a release only when the node is not truthful.
LEMMA MergedHolders ==
  ASSUME NEW R \in ResTable, NEW F, NEW n \in Nodes, NEW r, IsReport(n, r),
         NEW newer, RowsOf(R), \A a \in Attempts : R[a].node = res[a].node,
         NEW a \in Attempts
  PROVE  LET M == MergedRes(R, F, n, r, newer)
             F2 == MergedFences(R, F, M, n, r)
         IN  /\ Inert(R, F, a) => Inert(M, F2, a)
             /\ Unreleased(M, a) /\ ~Unreleased(R, a) =>
                  a \in Seen(r) /\ R[a].phase = "released"
                                /\ r.phase[a] # "released"
             /\ Unreleased(R, a) /\ ~Unreleased(M, a) =>
                  a \in Seen(r) /\ r.phase[a] = "released"
<1> DEFINE M == MergedRes(R, F, n, r, newer)
           F2 == MergedFences(R, F, M, n, r)
           P == ReportedPhase(R, F, r, newer, a)
<1>1. M[a].phase = IF a \in Seen(r) THEN P
                   ELSE IF a \in Missing(R, n, r) THEN "uncertain"
                   ELSE R[a].phase
  BY MergedRows
<1>2. a \in Missing(R, n, r) => R[a].phase \notin {"none", "released"}
  BY DEF Missing, Unreleased
<1>3. a \in Seen(r) => R[a].phase # "none" /\ P # "none"
  <2> HAVE a \in Seen(r)
  <2>1. R[a].node = n /\ None # n
    BY PrincipalsAssumption DEF IsReport
  <2>2. R[a].phase # "none"
    BY <2>1 DEF RowsOf
  <2> QED BY <2>2 DEF ReportedPhase, IsReport, RemotePhases
<1>4. /\ R[a].phase = "released" => P \in {"released", "uncertain"}
      /\ R[a].phase = "uncertain" /\ a \in F => P \in {"released", "uncertain"}
      /\ r.phase[a] = "released" => P = "released"
      /\ R[a].phase # "released" /\ P = "released" => r.phase[a] = "released"
  BY DEF ReportedPhase
<1>5. F \subseteq F2 /\ (a \in Seen(r) /\ M[a].phase = "uncertain" => a \in F2)
      /\ (a \in Missing(R, n, r) => a \in F2)
  BY DEF MergedFences
<1> HIDE DEF M, F2, P
<1>6. Inert(R, F, a) => Inert(M, F2, a)
  BY <1>1, <1>2, <1>4, <1>5 DEF Inert
<1>7. Unreleased(M, a) /\ ~Unreleased(R, a) =>
        a \in Seen(r) /\ R[a].phase = "released" /\ r.phase[a] # "released"
  BY <1>1, <1>2, <1>3, <1>4 DEF Unreleased
<1>8. Unreleased(R, a) /\ ~Unreleased(M, a) =>
        a \in Seen(r) /\ r.phase[a] = "released"
  BY <1>1, <1>3, <1>4 DEF Unreleased
<1> QED BY <1>6, <1>7, <1>8 DEF M, F2

-----------------------------------------------------------------------------
(* Updates of the task rows.                                               *)

\* Expiry takes back assigned work whose lease lapsed.
LEMMA SettledTask ==
  ASSUME TypeOK, NEW now, NEW t \in Tasks
  PROVE  \/ TasksAt(now)[t] = tasks[t]
         \/ /\ tasks[t].status = "assigned"
            /\ TasksAt(now)[t] = [tasks[t] EXCEPT !.status = Unsettled(t)]
            /\ \E a \in Lapsed(now) : TaskOf(a) = t
<1>1. tasks \in TaskTable /\ Lapsed(now) \in SUBSET Attempts
  BY SettledRows DEF TypeOK
<1>2. TasksAt(now)[t] = IF t \in TasksOf(Lapsed(now)) /\ tasks[t].status = "assigned"
        THEN [tasks[t] EXCEPT !.status = Unsettled(t)] ELSE tasks[t]
  BY <1>1, MarkUncertainRows DEF TasksAt
<1> QED BY <1>2 DEF TasksOf

\* A step whose only change to the tasks is expiry.
LEMMA ExpiredTask ==
  ASSUME TypeOK, NEW now, NEW t \in Tasks, tasks'[t] = TasksAt(now)[t],
         SameRetry(t)
  PROVE  TaskStep(t)
BY SettledTask DEF TaskStep, Untouched, TakenBack, Moved

\* Writing a completed row again changes nothing.
LEMMA SameRow ==
  ASSUME NEW x \in TaskRow, NEW st, NEW k, x.status = st, x.receipt = k
  PROVE  [x EXCEPT !.status = st, !.receipt = k] = x
BY DEF TaskRow

\* A charge writes one retry row per unfinished task.
LEMMA FailedRetryRows ==
  ASSUME retry \in RetryTable, NEW T, NEW S \in SUBSET Attempts, NEW Y, NEW now,
         NEW t \in Tasks
  PROVE  FailedRetry(T, S, Y, now)[t] =
           IF t \in TasksOf(S) /\ T[t].status # "completed"
           THEN RetryRow(t, t \in TasksOf(Y), now) ELSE retry[t]
<1>1. DOMAIN retry = Tasks
  BY DEF RetryTable
<1> QED BY <1>1 DEF FailedRetry, Failing, Override

\* A task without a failing attempt keeps its row.
LEMMA RetryRowKept ==
  ASSUME retry \in RetryTable, NEW T, NEW S \in SUBSET Attempts, NEW Y, NEW now,
         NEW t \in Tasks, ~(t \in TasksOf(S) /\ T[t].status # "completed")
  PROVE  FailedRetry(T, S, Y, now)[t] = retry[t]
<1>1. DOMAIN retry = Tasks
  BY DEF RetryTable
<1> QED BY <1>1 DEF FailedRetry, Failing, Override

\* The next attempt waits at least one clock step.
LEMMA BackoffWaits ==
  ASSUME NEW base \in Nat \ {0}, NEW maximum \in Nat, maximum >= base,
         NEW exponent
  PROVE  Backoff(base, maximum, exponent) \in Nat \ {0}
BY DEF Backoff

\* The retry row written for a failure waits at least one clock step.
LEMMA RetryRowWaits ==
  ASSUME retry \in RetryTable, NEW t \in Tasks, NEW yielded \in BOOLEAN,
         NEW now \in Nat
  PROVE  /\ RetryRow(t, yielded, now).failures = FailureCount(t, yielded)
         /\ RetryRow(t, yielded, now).notBefore \in Nat
         /\ RetryRow(t, yielded, now).notBefore > now
<1>1. /\ Backoff(YieldBackoff, YieldBackoffMax, YieldCount(t, yielded)) \in Nat \ {0}
      /\ Backoff(RetryBackoff, RetryBackoffMax, FailureCount(t, yielded)) \in Nat \ {0}
  BY BackoffWaits, TimingAssumption
<1> QED BY <1>1 DEF RetryRow

\* A charged task takes its step, whatever expiry did to it first.
LEMMA ChargedTask ==
  ASSUME TypeOK, NEW now \in Nat, NEW S \in SUBSET Attempts, NEW Y,
         NEW t \in Tasks, t \in TasksOf(S),
         tasks[t].status \in {"queued", "assigned", "needs_reconciliation"},
         tasks'[t] = FailedTasks(TasksAt(now), S, Y)[t],
         retry'[t] = FailedRetry(TasksAt(now), S, Y, now)[t],
         \A a \in Attempts : TaskOf(a) = t /\ IsLatest(tasks, a) =>
                               ~Unreleased(res', a)
  PROVE  Charged(t)
<1> DEFINE T == TasksAt(now)
           yielded == t \in TasksOf(Y)
<1>1. /\ T \in TaskTable /\ retry \in RetryTable /\ tasks[t] \in TaskRow
      /\ yielded \in BOOLEAN
  BY SettledRows, Rows DEF TypeOK
<1>2. T[t] = tasks[t] \/ T[t] = [tasks[t] EXCEPT !.status = Unsettled(t)]
  BY SettledTask
<1>3. /\ T[t].status # "completed" /\ T[t].generation = tasks[t].generation
      /\ \A st : [T[t] EXCEPT !.status = st] = [tasks[t] EXCEPT !.status = st]
  BY <1>1, <1>2 DEF Unsettled, TaskRow
<1> HIDE DEF T, yielded
<1>4. tasks'[t] = [T[t] EXCEPT !.status = NextStatus(t, T[t].generation, yielded)]
  BY <1>1, <1>3, FailedTasksRows DEF T, yielded
<1>5. retry'[t] = RetryRow(t, yielded, now)
  BY <1>1, <1>3, FailedRetryRows DEF T, yielded
<1>6. /\ Moved(t, NextStatus(t, tasks[t].generation, yielded))
      /\ retry'[t].failures = FailureCount(t, yielded)
  BY <1>1, <1>3, <1>4, <1>5, RetryRowWaits DEF Moved
<1> QED BY <1>1, <1>6 DEF Charged

\* The row of a task after a schedule.
ScheduledRowOf(T, C, offers, t) ==
    IF t \in offers
    THEN [T[t] EXCEPT !.status = "assigned", !.generation = T[t].generation + 1]
    ELSE IF t \in C /\ Exhausted(T, t)
    THEN [T[t] EXCEPT !.status = "needs_reconciliation"] ELSE T[t]

\* What a scheduling pass makes of each task, row by row.
LEMMA ScheduledRow ==
  ASSUME NEW T \in TaskTable, NEW C \in SUBSET Tasks,
         NEW offers \in SUBSET Tasks, NEW t \in Tasks
  PROVE  ScheduledTasks(T, C, offers)[t] = ScheduledRowOf(T, C, offers, t)
<1> DEFINE D == offers \cup {u \in C : Exhausted(T, u)}
           f == [u \in D |->
                   IF u \in offers
                   THEN [T[u] EXCEPT !.status = "assigned",
                                     !.generation = @ + 1]
                   ELSE [T[u] EXCEPT !.status = "needs_reconciliation"]]
<1>1. ScheduledTasks(T, C, offers)[t] = IF t \in D THEN f[t] ELSE T[t]
  <2>1. DOMAIN T = Tasks /\ DOMAIN f = D
    BY DEF TaskTable
  <2>2. Override(f, T)[t] = IF t \in D THEN f[t] ELSE T[t]
    <3> HIDE DEF f, D
    <3> QED BY <2>1 DEF Override
  <2> QED BY <2>2 DEF ScheduledTasks
<1>2. CASE t \in offers
  BY <1>1, <1>2 DEF ScheduledRowOf
<1>3. CASE t \notin offers /\ t \in C /\ Exhausted(T, t)
  BY <1>1, <1>3 DEF ScheduledRowOf
<1>4. CASE t \notin D
  BY <1>1, <1>4 DEF ScheduledRowOf
<1> QED BY <1>2, <1>3, <1>4

\* A yield charges the task whose released attempt the report names.
LEMMA YieldCharged ==
  ASSUME TypeOK, NEW now \in Nat, NEW n, NEW r, IsReport(n, r),
         NEW S \in SUBSET Yielding(TasksAt(now), r), NEW t \in TasksOf(S),
         tasks'[t] = FailedTasks(TasksAt(now), S, S)[t],
         retry'[t] = FailedRetry(TasksAt(now), S, S, now)[t],
         \A a \in S : ~Unreleased(res', a)
  PROVE  Charged(t)
<1> DEFINE T == TasksAt(now)
<1>1. PICK b \in S : TaskOf(b) = t
  BY DEF TasksOf
<1>2. /\ S \in SUBSET Attempts /\ b \in Attempts /\ IsLatest(T, b)
      /\ T[t].status \in {"queued", "needs_reconciliation"}
  BY <1>1, YieldingSeen DEF Yielding
<1>3. t \in Tasks
  BY <1>1, <1>2, AttemptPair DEF TaskOf
<1>4. tasks[t] \in TaskRow
  BY <1>3, Rows DEF TypeOK
<1>5. \/ T[t] = tasks[t]
      \/ /\ tasks[t].status = "assigned"
         /\ T[t] = [tasks[t] EXCEPT !.status = Unsettled(t)]
         /\ \E a \in Lapsed(now) : TaskOf(a) = t
  BY <1>3, SettledTask
<1> HIDE DEF T
<1>6. /\ T[t].generation = tasks[t].generation
      /\ tasks[t].status \in {"queued", "assigned", "needs_reconciliation"}
  BY <1>2, <1>4, <1>5 DEF TaskRow
<1>7. ASSUME NEW a \in Attempts, TaskOf(a) = t, IsLatest(tasks, a)
      PROVE  ~Unreleased(res', a)
  <2>1. IsLatest(T, a)
    BY <1>6, <1>7 DEF IsLatest, TaskOf
  <2>2. a = b
    BY <1>1, <1>2, <1>7, <2>1, LatestUnique
  <2> QED BY <2>2
<1> QED BY <1>2, <1>3, <1>6, <1>7, ChargedTask

-----------------------------------------------------------------------------
(* The actions.                                                            *)

\* A step that keeps holders and charges nothing.
LEMMA KeptHolders ==
  ASSUME HoldersKept(res, fences, res', fences'),
         failureReceipts' = failureReceipts, \A t \in Tasks : TaskStep(t)
  PROVE  LedgerStep
BY DEF HoldersKept, LedgerStep, HolderStep, ReceiptStep

\* Settle, and nothing else that a task or its holders would notice.
LEMMA QuietLedger ==
  ASSUME TypeOK, NEW now, res' = ResAt(now), tasks' = TasksAt(now),
         fences' = FencesAt(now), UNCHANGED failures
  PROVE  LedgerStep
<1>1. HoldersKept(res, fences, res', fences')
  BY SettledHolders
<1>2. \A t \in Tasks : TaskStep(t)
  BY ExpiredTask DEF failures, SameRetry
<1> QED BY <1>1, <1>2, KeptHolders DEF failures

\* The operator's requests step each task as the ledger allows.
LEMMA OperatorLedger ==
  ASSUME TypeOK, AuthorityInvariant, OperatorRequest
  PROVE  LedgerStep
<1> PICK now \in Times :
       \/ Status(now)
       \/ \E p \in Pools, spec \in PoolSpecs : PutPool(p, spec, now)
       \/ \E j \in Jobs : Submit(j, now)
       \/ \E t \in Tasks, confirmed \in BOOLEAN : Retry(t, confirmed, now)
       \/ \E j \in Cancellable : Cancel(j, now)
       \/ \E n \in Drainable, drain \in BOOLEAN : DrainNode(n, drain, now)
  BY DEF OperatorRequest
<1>0. /\ TasksAt(now) \in TaskTable /\ tasks \in TaskTable
      /\ HoldersKept(res, fences, ResAt(now), FencesAt(now))
  BY SettledRows, SettledHolders DEF TypeOK
<1>1. CASE /\ res' = ResAt(now) /\ tasks' = TasksAt(now)
           /\ fences' = FencesAt(now) /\ UNCHANGED failures
  BY <1>1, QuietLedger
<1>2. ASSUME NEW j \in Jobs, Submit(j, now) PROVE LedgerStep
  <2> DEFINE q == [t \in JobTasks(j) |-> [tasks[t] EXCEPT !.status = "queued"]]
  <2>1. /\ jobs[j] = "absent" /\ tasks' = Override(q, TasksAt(now))
        /\ res' = ResAt(now) /\ fences' = FencesAt(now) /\ UNCHANGED failures
    BY <1>2 DEF Submit
  <2>2. \A t \in Tasks :
          tasks'[t] = IF t \in JobTasks(j) THEN [tasks[t] EXCEPT !.status = "queued"]
                      ELSE TasksAt(now)[t]
    BY <1>0, <2>1 DEF Override, TaskTable
  <2> HIDE DEF q
  <2>3. ASSUME NEW t \in Tasks PROVE TaskStep(t)
    <3>1. SameRetry(t)
      BY <2>1 DEF SameRetry, failures
    <3>2. CASE t \in JobTasks(j)
      <4>1. tasks[t].status = "absent"
        BY <2>1, <3>2 DEF AuthorityInvariant, SubmittedWithJob, JobTasks
      <4> QED BY <2>2, <3>1, <3>2, <4>1 DEF TaskStep, Submitted, Moved
    <3>3. CASE t \notin JobTasks(j)
      BY <2>2, <3>1, <3>3, ExpiredTask
    <3> QED BY <3>2, <3>3
  <2> QED BY <1>0, <2>1, <2>3, KeptHolders DEF failures
<1>3. ASSUME NEW t \in Tasks, NEW confirmed \in BOOLEAN, Retry(t, confirmed, now)
      PROVE  LedgerStep
  <2>1. /\ TasksAt(now)[t].status \in {"queued", "needs_reconciliation"}
        /\ ~Held(res, t) /\ retry' = [retry EXCEPT ![t] = NoRetry]
        /\ tasks' = [TasksAt(now) EXCEPT ![t].status = "queued"]
        /\ res' = ResAt(now) /\ fences' = FencesAt(now)
        /\ failureReceipts' = failureReceipts
    BY <1>3 DEF Retry
  <2>2. retry \in RetryTable
    BY DEF TypeOK
  <2>3. TasksAt(now)[t] = tasks[t]
    <3>1. \A a \in Lapsed(now) : TaskOf(a) # t
      BY <2>1 DEF Lapsed, Live, Held, Unreleased
    <3> QED BY ZenonT(40), <3>1, SettledTask
  <2>4. /\ tasks'[t] = [tasks[t] EXCEPT !.status = "queued"]
        /\ \A u \in Tasks \ {t} : tasks'[u] = TasksAt(now)[u]
    BY <1>0, <2>1, <2>3 DEF TaskTable
  <2>5. retry'[t] = NoRetry /\ \A u \in Tasks \ {t} : SameRetry(u)
    BY <2>1, <2>2 DEF SameRetry, RetryTable
  <2>6. TaskStep(t)
    BY <2>1, <2>3, <2>4, <2>5 DEF TaskStep, Retried, Moved
  <2>7. \A u \in Tasks \ {t} : TaskStep(u)
    BY <2>4, <2>5, ExpiredTask
  <2>8. \A u \in Tasks : TaskStep(u)
    BY <2>6, <2>7
  <2> QED BY <1>0, <2>1, <2>8, KeptHolders
<1> QED BY <1>1, <1>2, <1>3 DEF Status, PutPool, Cancel, DrainNode, Settle

\* A grant keeps its row alive.
LEMMA GrantHolders ==
  ASSUME TypeOK, NEW now, NEW a \in Attempts,
         Grantable(ResAt(now), TasksAt(now), a, now)
  PROVE  HoldersKept(res, fences, Extend(ResAt(now), a, now), FencesAt(now))
<1>1. HoldersKept(ResAt(now), FencesAt(now), Extend(ResAt(now), a, now),
                  FencesAt(now))
  BY SettledRows, ExtendHolders DEF Grantable
<1> QED BY <1>1, SettledHolders DEF HoldersKept

\* So do the requests that an attempt makes.
LEMMA AttemptLedger ==
  ASSUME TypeOK, AuthorityInvariant, AttemptRequest
  PROVE  LedgerStep
<1> PICK now \in Times, p \in Principals, s \in Wrappers, a \in Attempts :
       \/ \E e \in 1..MaxEpoch, identity \in Identities,
             applied \in SUBSET Controls :
             \/ Prepared(p, s, a, e, identity, applied, now)
             \/ PreparedInterrupted(p, s, a, e, identity, applied, now)
       \/ \E e \in 1..MaxEpoch, previous \in 0..MaxSeq :
             Renew(p, s, a, e, previous, now)
       \/ \E x \in Artifacts : CommitUpload(p, s, a, x, now)
       \/ \E r \in Results : PublishCheckpoint(p, s, a, r, now)
       \/ \E r \in Results : Complete(p, s, a, r, now)
       \/ \E kind \in {"yielded", "execution"} : Fail(p, s, a, kind, now)
  BY DEF AttemptRequest
<1> DEFINE R == ResAt(now)
           T == TasksAt(now)
<1>0. /\ R \in ResTable /\ T \in TaskTable /\ tasks \in TaskTable
      /\ retry \in RetryTable /\ now \in Nat
      /\ HoldersKept(res, fences, R, FencesAt(now))
      /\ \A t \in Tasks : T[t].generation = tasks[t].generation
  BY SettledRows, SettledHolders, SettledSafe, TimesNat
     DEF TypeOK, AuthorityInvariant
<1>a. a = <<TaskOf(a), a[2]>> /\ TaskOf(a) \in Tasks /\ a[1] = TaskOf(a)
  BY AttemptPair DEF TaskOf
<1>1. CASE /\ tasks' = T /\ UNCHANGED failures
           /\ HoldersKept(res, fences, res', fences')
  <2>1. \A t \in Tasks : TaskStep(t)
    BY <1>1, ExpiredTask DEF failures, SameRetry
  <2> QED BY <1>1, <2>1, KeptHolders DEF failures
<1>2. ASSUME NEW e, NEW identity, NEW applied,
             Prepared(p, s, a, e, identity, applied, now)
      PROVE  LedgerStep
  <2>1. /\ tasks' = T /\ fences' = FencesAt(now) /\ UNCHANGED failures
        /\ \/ res' = R
           \/ Grantable(R, T, a, now) /\ res' = Extend(R, a, now)
    BY <1>2 DEF Prepared
  <2>2. HoldersKept(res, fences, res', fences')
    BY <1>0, <2>1, GrantHolders
  <2> QED BY <1>1, <2>1, <2>2
<1>3. ASSUME NEW e, NEW identity, NEW applied,
             PreparedInterrupted(p, s, a, e, identity, applied, now)
      PROVE  LedgerStep
  <2>1. /\ tasks' = T /\ fences' = FencesAt(now) /\ UNCHANGED failures
        /\ Reopen(R, drains)
    BY <1>3 DEF PreparedInterrupted
  <2>2. HoldersKept(R, FencesAt(now), res', fences')
    BY <1>0, <2>1, ReopenHolders
  <2>3. HoldersKept(res, fences, res', fences')
    BY <1>0, <2>2 DEF HoldersKept
  <2> QED BY <1>1, <2>1, <2>3
<1>4. ASSUME NEW e, NEW previous, Renew(p, s, a, e, previous, now)
      PROVE  LedgerStep
  <2>1. /\ tasks' = T /\ fences' = FencesAt(now) /\ UNCHANGED failures
        /\ Grantable(R, T, a, now)
        /\ res' = R \/ res' = Extend(R, a, now)
    BY <1>4 DEF Renew
  <2>2. HoldersKept(res, fences, res', fences')
    BY <1>0, <2>1, GrantHolders
  <2> QED BY <1>1, <2>1, <2>2
<1>5. ASSUME NEW x, CommitUpload(p, s, a, x, now) PROVE LedgerStep
  BY <1>5, QuietLedger DEF CommitUpload, Settle
<1>6. ASSUME NEW r, PublishCheckpoint(p, s, a, r, now) PROVE LedgerStep
  BY <1>6, QuietLedger DEF PublishCheckpoint, Settle
<1>7. ASSUME NEW r \in Results, Complete(p, s, a, r, now) PROVE LedgerStep
  <2> DEFINE t == TaskOf(a)
  <2>1. /\ IsLatest(T, a) /\ T[t].status \in {"assigned", "completed"}
        /\ Accepts(T, a, r) /\ res' = R /\ fences' = FencesAt(now)
        /\ tasks' = [T EXCEPT ![t].status = "completed", ![t].receipt = <<a, r>>]
        /\ UNCHANGED failures
    BY <1>7 DEF Complete, CurrentAttempt, TaskOf
  <2>2. \A u \in Tasks : SameRetry(u)
    BY <2>1 DEF SameRetry, failures
  <2>3. /\ tasks'[t] = [T[t] EXCEPT !.status = "completed", !.receipt = <<a, r>>]
        /\ \A u \in Tasks \ {t} : tasks'[u] = T[u]
    BY <1>0, <1>a, <2>1 DEF TaskTable
  <2>4. T[t] \in TaskRow /\ tasks[t] \in TaskRow
    BY <1>0, <1>a, Rows
  <2>5. T[t] = tasks[t]
    <3>1. Unsettled(t) \notin {"assigned", "completed"}
      BY DEF Unsettled
    <3>2. T[t] # [tasks[t] EXCEPT !.status = Unsettled(t)]
      BY <2>1, <2>4, <3>1 DEF TaskRow
    <3> QED BY <1>a, <3>2, SettledTask
  <2>6. TaskStep(t)
    <3>1. CASE T[t].status = "completed"
      <4>1. T[t].receipt = <<a, r>>
        BY <2>1, <3>1 DEF Accepts
      <4>2. tasks'[t] = tasks[t]
        <5>1. [T[t] EXCEPT !.status = "completed", !.receipt = <<a, r>>] = T[t]
          BY ZenonT(40), <2>4, <3>1, <4>1, SameRow
        <5> QED BY <2>3, <2>5, <5>1
      <4> QED BY <1>a, <2>2, <4>2 DEF TaskStep, Untouched
    <3>2. CASE T[t].status = "assigned"
      <4>1. a = <<t, tasks[t].generation>>
        BY <1>a, <2>1, <2>5 DEF IsLatest
      <4>2. \A b \in Attempts : Unreleased(res', b) <=> Unreleased(res, b)
        BY <1>0, <2>1 DEF HoldersKept
      <4> QED BY <1>a, <2>2, <2>3, <2>5, <3>2, <4>1, <4>2 DEF TaskStep, Finished
    <3> QED BY <2>1, <3>1, <3>2
  <2>7. \A u \in Tasks \ {t} : TaskStep(u)
    BY <2>2, <2>3, ExpiredTask
  <2>8. \A u \in Tasks : TaskStep(u)
    BY <2>6, <2>7
  <2> QED BY <1>0, <2>1, <2>8, KeptHolders DEF failures
<1>8. ASSUME NEW kind, Fail(p, s, a, kind, now) PROVE LedgerStep
  <2> DEFINE t == TaskOf(a)
             Y == IF kind = "yielded" \/ ShouldDrain(R, drains, a)
                  THEN {a} ELSE {}
  <2>1. /\ R[a].phase = "released" /\ IsLatest(T, a)
        /\ tasks' = FailedTasks(T, {a}, Y) /\ retry' = FailedRetry(T, {a}, Y, now)
        /\ failureReceipts' = failureReceipts \cup {a}
        /\ res' = R /\ fences' = FencesAt(now)
    BY <1>8 DEF Fail
  <2> HIDE DEF Y
  <2>2. {a} \in SUBSET Attempts /\ TasksOf({a}) = {t}
    BY DEF TasksOf
  <2> HIDE DEF T
  <2>r. ASSUME NEW u \in Tasks, ~(u \in TasksOf({a}) /\ T[u].status # "completed")
        PROVE  tasks'[u] = T[u] /\ SameRetry(u)
    <3>0. T \in TaskTable /\ retry \in RetryTable /\ {a} \in SUBSET Attempts
      BY <1>0, <2>2
    <3>1. FailedTasks(T, {a}, Y)[u] = T[u]
      BY ZenonT(40), <2>r, <3>0, FailedTasksRows
    <3>2. FailedRetry(T, {a}, Y, now)[u] = retry[u]
      BY <2>r, <3>0, RetryRowKept
    <3> QED BY <2>1, <3>1, <3>2 DEF SameRetry
  <2>3. \A u \in Tasks \ {t} : tasks'[u] = T[u] /\ SameRetry(u)
    BY <2>2, <2>r
  <2>4. IsLatest(tasks, a)
    BY <1>0, <1>a, <2>1 DEF IsLatest
  <2>5. T[t] = tasks[t]
    <3>1. ASSUME NEW b \in Lapsed(now), TaskOf(b) = t PROVE FALSE
      <4>1. b \in Attempts /\ IsLatest(tasks, b)
        BY LapsedLatest DEF AuthorityInvariant
      <4>2. b = a
        BY <2>4, <3>1, <4>1, LatestUnique
      <4>3. Unreleased(R, a) <=> Unreleased(res, a)
        BY <1>0 DEF HoldersKept
      <4> QED BY <2>1, <4>2, <4>3, LapsedLatest DEF AuthorityInvariant, Unreleased
    <3> QED BY <1>a, <3>1, SettledTask DEF T
  <2>6. tasks[t] \in TaskRow /\ tasks[t].status # "absent"
    BY <1>0, <1>a, <2>4, Rows, AttemptPair
       DEF AuthorityInvariant, SubmittedWithJob, IsLatest
  <2>7. CASE tasks[t].status = "completed"
    <3>1. tasks'[t] = tasks[t] /\ SameRetry(t)
      BY <1>a, <2>2, <2>r, <2>5, <2>7
    <3>2. \A u \in Tasks : TaskStep(u)
      BY <2>3, <3>1, ExpiredTask DEF TaskStep, Untouched, T
    <3>3. ASSUME NEW b \in failureReceipts' \ failureReceipts
          PROVE  /\ res'[b].phase = "released"
                 /\ tasks'[TaskOf(b)].status = "completed"
      <4>1. b = a
        BY <2>1
      <4> QED BY <2>1, <2>7, <3>1, <4>1
    <3>4. \A b \in Attempts : HolderStep(b)
      BY <1>0, <2>1 DEF HolderStep, HoldersKept
    <3> QED BY <2>1, <3>2, <3>3, <3>4 DEF LedgerStep, ReceiptStep
  <2>8. CASE tasks[t].status # "completed"
    <3>1. tasks[t].status \in {"queued", "assigned", "needs_reconciliation"}
      BY <2>6, <2>8 DEF TaskRow, Statuses
    <3>2. \A b \in Attempts : TaskOf(b) = t /\ IsLatest(tasks, b) =>
                                ~Unreleased(res', b)
      BY <2>1, <2>4, LatestUnique DEF Unreleased
    <3>3. Charged(t)
      BY <1>0, <1>a, <2>1, <2>2, <3>1, <3>2, ChargedTask DEF T
    <3>4. \A u \in Tasks : TaskStep(u)
      BY <2>3, <3>3, ExpiredTask DEF TaskStep, T
    <3>5. ReceiptStep
      BY <2>1, <3>3 DEF ReceiptStep
    <3>6. \A b \in Attempts : HolderStep(b)
      BY <1>0, <2>1 DEF HolderStep, HoldersKept
    <3> QED BY <2>1, <3>4, <3>5, <3>6 DEF LedgerStep
  <2> QED BY <2>7, <2>8
<1> QED BY <1>2, <1>3, <1>4, <1>5, <1>6, <1>7, <1>8

\* What the report of a heartbeat leaves of the rows before it.
LEMMA ReportedHolders ==
  ASSUME TypeOK, AuthorityInvariant, NEW now, NEW n \in Nodes, NEW r,
         IsReport(n, r), ReportHonest(r), NEW newer, NEW a \in Attempts
  PROVE  LET M == MergedRes(ResAt(now), FencesAt(now), n, r, newer)
             F2 == MergedFences(ResAt(now), FencesAt(now), M, n, r)
         IN  /\ Inert(res, fences, a) => Inert(M, F2, a)
             /\ Unreleased(M, a) =>
                  \/ Unreleased(res, a)
                  \/ ~Truthful /\ res[a].phase = "released"
             /\ Unreleased(res, a) /\ ~Unreleased(M, a) =>
                  a \in Seen(r) /\ r.phase[a] = "released"
<1> DEFINE R == ResAt(now)
           F == FencesAt(now)
           M == MergedRes(R, F, n, r, newer)
           F2 == MergedFences(R, F, M, n, r)
<1>1. /\ R \in ResTable /\ RowsOf(R)
      /\ \A b \in Attempts : R[b].node = res[b].node
      /\ HoldersKept(res, fences, R, F)
  BY SettledRows, SettledSafe, SettledHolders
     DEF AuthorityInvariant, SafeTables
<1>2. R[a].phase = "released" => res[a].phase = "released"
  <2>1. res \in ResTable /\ Lapsed(now) \in SUBSET Attempts
    BY SettledRows DEF TypeOK
  <2> QED BY <2>1, MakeUncertainFields DEF ResAt
<1> HIDE DEF R, F
<1>3. /\ Inert(R, F, a) => Inert(M, F2, a)
      /\ Unreleased(M, a) /\ ~Unreleased(R, a) =>
           a \in Seen(r) /\ R[a].phase = "released" /\ r.phase[a] # "released"
      /\ Unreleased(R, a) /\ ~Unreleased(M, a) =>
           a \in Seen(r) /\ r.phase[a] = "released"
  BY <1>1, MergedHolders
<1> HIDE DEF M, F2
<1>4. /\ Unreleased(R, a) <=> Unreleased(res, a)
      /\ Inert(res, fences, a) => Inert(R, F, a)
  BY <1>1 DEF HoldersKept
<1>5. Truthful /\ a \in Seen(r) /\ res[a].phase = "released" =>
        r.phase[a] = "released"
  BY DEF ReportHonest
<1>6. Inert(res, fences, a) => Inert(M, F2, a)
  BY <1>3, <1>4
<1>7. Unreleased(M, a) =>
        Unreleased(res, a) \/ (~Truthful /\ res[a].phase = "released")
  BY <1>2, <1>3, <1>4, <1>5
<1>8. Unreleased(res, a) /\ ~Unreleased(M, a) =>
        a \in Seen(r) /\ r.phase[a] = "released"
  BY <1>3, <1>4
<1> QED BY <1>6, <1>7, <1>8 DEF M, F2, R, F

\* So does a whole heartbeat, whose expiry, merge and offers may each touch a
\* task.
LEMMA HeartbeatLedger ==
  ASSUME TypeOK, AuthorityInvariant, LedgerInvariant, NEW now \in Times,
         NEW n \in Nodes, NEW s, NEW r \in Reports(n, now), ReportHonest(r),
         Heartbeat(n, s, r, now)
  PROVE  LedgerStep
<1> DEFINE R == ResAt(now)
           F == FencesAt(now)
           T1 == TasksAt(now)
           M == MergedRes(R, F, n, r, Newer(n, r))
           F2 == MergedFences(R, F, M, n, r)
           Y == Yielding(T1, r)
           T == FailedTasks(T1, Y, Y)
           B == FailedRetry(T1, Y, Y, now)
           schedules == /\ Fresh(r.observedAt, now) /\ ObservedLive(r)
                        /\ NothingUnknown(R, n, r, Newer(n, r)) /\ r.cap.expand
                        /\ n \notin drained
                        /\ ReplayNodeCanAdmit(M, n, TRUE, Strangers(n, r))
           C == IF schedules THEN Considered(T, B, n, now) ELSE {}
           E == Eligible(M, T, C, r.cap)
<1>1. /\ fences' = F2 /\ retry' = B /\ failureReceipts' = failureReceipts \cup Y
      /\ \E offers \in SUBSET E :
           /\ tasks' = ScheduledTasks(T, C, offers)
           /\ res' = OfferedRes(M, T, n, offers, now)
  BY DEF Heartbeat
<1>2. IsReport(n, r) /\ now \in Nat
  BY ReportShape, TimesNat
<1>3. /\ T1 \in TaskTable /\ tasks \in TaskTable /\ retry \in RetryTable
      /\ M \in ResTable /\ Y \in SUBSET Attempts
      /\ \A t \in Tasks : T1[t].generation = tasks[t].generation
  BY <1>2, SettledRows, SettledSafe, MergedRows, YieldingSeen
     DEF TypeOK, AuthorityInvariant
<1>4. ASSUME NEW a \in Attempts
      PROVE  /\ Inert(res, fences, a) => Inert(M, F2, a)
             /\ Unreleased(M, a) =>
                  \/ Unreleased(res, a)
                  \/ ~Truthful /\ res[a].phase = "released"
             /\ Unreleased(res, a) /\ ~Unreleased(M, a) =>
                  a \in Seen(r) /\ r.phase[a] = "released"
  BY <1>2, ReportedHolders
<1>5. \A a \in Y : M[a].phase = "released"
  BY <1>2, SettledRows, YieldingReleased
<1>6. C \in SUBSET Tasks
      /\ \A t \in C : T[t].status = "queued" /\ now >= B[t].notBefore
  <2> HIDE DEF T, B, schedules
  <2> QED BY DEF Considered
<1>7. /\ E \in SUBSET C
      /\ \A t \in E : /\ ~Exhausted(T, t) /\ T[t].generation < MaxGen
                       /\ ~Held(M, t)
  <2> HIDE DEF T, C, M
  <2> QED BY DEF Eligible
<1> HIDE DEF R, F, M, F2, C, E, schedules
<1>8. PICK offers \in SUBSET E :
           /\ tasks' = ScheduledTasks(T, C, offers)
           /\ res' = OfferedRes(M, T, n, offers, now)
  BY <1>1
<1>9. /\ offers \in SUBSET C /\ offers \in SUBSET Tasks
      /\ \A t \in offers : /\ ~Exhausted(T, t) /\ T[t].generation < MaxGen
                            /\ ~Held(M, t)
  BY <1>6, <1>7
<1>10. ASSUME NEW t \in Tasks
       PROVE  /\ t \in TasksOf(Y) => t \notin C
              /\ t \notin TasksOf(Y) => T[t] = T1[t] /\ B[t] = retry[t]
              /\ T[t].generation = tasks[t].generation
  <2>1. T[t] = IF t \in TasksOf(Y) /\ T1[t].status # "completed"
               THEN [T1[t] EXCEPT !.status =
                       NextStatus(t, T1[t].generation, t \in TasksOf(Y))]
               ELSE T1[t]
    BY <1>3, FailedTasksRows
  <2>2. B[t] = IF t \in TasksOf(Y) /\ T1[t].status # "completed"
               THEN RetryRow(t, t \in TasksOf(Y), now) ELSE retry[t]
    BY <1>3, FailedRetryRows
  <2>3. t \in TasksOf(Y) => T1[t].status # "completed"
    BY DEF TasksOf, Yielding
  <2>4. RetryRow(t, t \in TasksOf(Y), now).notBefore > now
    <3>1. (t \in TasksOf(Y)) \in BOOLEAN
      OBVIOUS
    <3> QED BY <1>2, <1>3, <3>1, RetryRowWaits
  <2>5. T1[t] \in TaskRow
    BY <1>3, Rows
  <2> HIDE DEF T, B, T1, Y
  <2>6. T[t].generation = T1[t].generation
    BY <2>1, <2>5 DEF TaskRow
  <2>7. t \in TasksOf(Y) => t \notin C
    <3>1. RetryRow(t, t \in TasksOf(Y), now).notBefore \in Nat
      <4>1. (t \in TasksOf(Y)) \in BOOLEAN
        OBVIOUS
      <4> QED BY <1>2, <1>3, <4>1, RetryRowWaits
    <3> QED BY <1>2, <1>6, <2>2, <2>3, <2>4, <3>1
  <2> QED BY <1>3, <2>1, <2>2, <2>6, <2>7
<1>11. T \in TaskTable
  BY <1>3, FailedTasksRows
<1>12. ASSUME NEW a \in Attempts
       PROVE  res'[a] = IF /\ TaskOf(a) \in offers
                           /\ a[2] = tasks[TaskOf(a)].generation + 1
                        THEN [node |-> n, phase |-> "offered", observed |-> None,
                              seq |-> 0, deadline |-> now + Lease]
                        ELSE M[a]
  <2>1. T[TaskOf(a)].generation = tasks[TaskOf(a)].generation
    BY <1>10, AttemptPair DEF TaskOf
  <2>2. \A t \in offers : T[t].generation < MaxGen
    BY <1>9
  <2> HIDE DEF T
  <2>3. OfferedRes(M, T, n, offers, now)[a] =
          IF TaskOf(a) \in offers /\ a[2] = T[TaskOf(a)].generation + 1
          THEN [node |-> n, phase |-> "offered", observed |-> None,
                seq |-> 0, deadline |-> now + Lease]
          ELSE M[a]
    BY <1>2, <1>3, <1>9, <1>11, <2>2, OfferedResRows
  <2> QED BY <1>8, <2>1, <2>3
<1>13. ASSUME NEW t \in Tasks
       PROVE  tasks'[t] = ScheduledRowOf(T, C, offers, t)
  <2> HIDE DEF T
  <2>1. ScheduledTasks(T, C, offers)[t] = ScheduledRowOf(T, C, offers, t)
    BY <1>6, <1>9, <1>11, ScheduledRow
  <2> QED BY <1>8, <2>1
<1>14. ASSUME NEW t \in Tasks
       PROVE  /\ tasks[t] \in TaskRow /\ T1[t] \in TaskRow
              /\ \/ T1[t] = tasks[t]
                 \/ /\ tasks[t].status = "assigned"
                    /\ T1[t] = [tasks[t] EXCEPT !.status = Unsettled(t)]
                    /\ \E a \in Lapsed(now) : TaskOf(a) = t
  BY <1>3, Rows, SettledTask DEF T1
<1>15. ASSUME NEW t \in TasksOf(Y) PROVE Charged(t)
  <2>1. t \in Tasks
    BY <1>3, AttemptPair DEF TasksOf, TaskOf
  <2>2. tasks'[t] = T[t]
    BY <1>9, <1>10, <1>13, <2>1 DEF ScheduledRowOf
  <2>3. \A a \in Y : TaskOf(a) \notin offers
    BY <1>3, <1>9, <1>10, AttemptPair DEF TasksOf, TaskOf
  <2>4. \A a \in Y : ~Unreleased(res', a)
    BY <1>3, <1>5, <1>12, <2>3 DEF Unreleased
  <2>5. Y \in SUBSET Yielding(TasksAt(now), r)
    BY DEF T1
  <2> HIDE DEF Y
  <2> QED BY <1>1, <1>2, <2>1, <2>2, <2>4, <2>5, YieldCharged DEF T1
<1>16. ASSUME NEW t \in offers PROVE Started(t)
  <2>1. /\ t \in Tasks /\ t \notin TasksOf(Y) /\ T[t].status = "queued"
        /\ ~Exhausted(T, t) /\ T[t].generation < MaxGen /\ ~Held(M, t)
    BY <1>6, <1>9, <1>10
  <2>2. T[t] = T1[t] /\ SameRetry(t)
    BY <1>1, <1>10, <2>1 DEF SameRetry
  <2>3. ASSUME NEW a \in Attempts, TaskOf(a) = t, IsLatest(T1, a),
               Unreleased(res, a)
        PROVE  a \in failureReceipts
    <3>1. ~Unreleased(M, a)
      BY <2>1, <2>3 DEF Held
    <3>2. a \in Seen(r) /\ r.phase[a] = "released"
      BY <1>4, <2>3, <3>1
    <3>3. a \notin Y
      BY <2>1, <2>3 DEF TasksOf
    <3> QED BY <2>1, <2>2, <2>3, <3>2, <3>3 DEF Yielding
  <2>4. T1[t] = tasks[t]
    <3>1. ASSUME NEW a \in Lapsed(now), TaskOf(a) = t PROVE FALSE
      <4>1. /\ a \in Attempts /\ IsLatest(tasks, a) /\ Unreleased(res, a)
            /\ Live(res, a)
        BY LapsedLatest DEF AuthorityInvariant, Lapsed
      <4>2. IsLatest(T1, a)
        BY <1>3, <2>1, <3>1, <4>1 DEF IsLatest, TaskOf
      <4>3. a \in failureReceipts
        BY <2>3, <3>1, <4>1, <4>2
      <4> QED BY <4>1, <4>3 DEF LedgerInvariant, ReceiptsRetire, Inert, Live
    <3> QED BY <1>14, <2>1, <3>1
  <2>5. Truthful => ~Held(res, t)
    <3> SUFFICES ASSUME Truthful, NEW a \in Attempts, TaskOf(a) = t,
                        Unreleased(res, a)
                 PROVE  FALSE
      BY DEF Held
    <3>1. IsLatest(tasks, a)
      BY DEF LedgerInvariant, HeldByLatest
    <3>2. IsLatest(T1, a)
      BY <2>4, <3>1 DEF IsLatest, TaskOf
    <3>3. a \in failureReceipts
      BY <2>3, <3>2
    <3> QED BY <3>3 DEF LedgerInvariant, ReceiptsHoldNothing
  <2>6. ASSUME NEW a \in Attempts, TaskOf(a) = t
        PROVE  Unreleased(res', a) <=> a[2] = tasks[t].generation + 1
    <3>1. ~Unreleased(M, a)
      BY <2>1, <2>6 DEF Held
    <3> QED BY <1>12, <2>6, <3>1 DEF Unreleased
  <2> HIDE DEF T, T1
  <2>7. ~Exhausted(tasks, t)
    BY <2>1, <2>2, <2>4 DEF Exhausted
  <2> QED BY <1>13, <2>1, <2>2, <2>4, <2>5, <2>6, <2>7
          DEF Started, ScheduledRowOf
<1>17. ASSUME NEW t \in Tasks PROVE TaskStep(t)
  <2>1. CASE t \in TasksOf(Y)
    BY <1>15, <2>1 DEF TaskStep
  <2>2. CASE t \in offers
    BY <1>16, <2>2 DEF TaskStep
  <2>3. CASE t \notin TasksOf(Y) /\ t \notin offers /\ t \in C /\ Exhausted(T, t)
    <3>1. /\ T[t] = T1[t] /\ SameRetry(t) /\ T1[t].status = "queued"
          /\ tasks'[t] = [T1[t] EXCEPT !.status = "needs_reconciliation"]
      BY <1>1, <1>6, <1>10, <1>13, <2>3 DEF SameRetry, ScheduledRowOf
    <3> HIDE DEF T, T1
    <3>2. /\ tasks[t].status \in {"queued", "assigned"}
          /\ [T1[t] EXCEPT !.status = "needs_reconciliation"] =
               [tasks[t] EXCEPT !.status = "needs_reconciliation"]
      BY <1>14, <3>1 DEF TaskRow
    <3> QED BY <3>1, <3>2 DEF TaskStep, GivenUp, Moved
  <2>4. CASE t \notin TasksOf(Y) /\ t \notin offers /\ ~(t \in C /\ Exhausted(T, t))
    <3>1. tasks'[t] = TasksAt(now)[t] /\ SameRetry(t)
      BY <1>1, <1>10, <1>13, <2>4 DEF SameRetry, ScheduledRowOf, T1
    <3> QED BY <3>1, ExpiredTask
  <2> QED BY <2>1, <2>2, <2>3, <2>4
<1>18. ASSUME NEW a \in Attempts PROVE HolderStep(a)
  <2>1. CASE TaskOf(a) \in offers /\ a[2] = tasks[TaskOf(a)].generation + 1
    <3>1. Started(TaskOf(a))
      BY <1>16, <2>1
    <3>2. res[a].phase = "none"
      <4>1. tasks[a[1]].generation \in Nat
        <5>1. a[1] \in Tasks
          BY AttemptPair
        <5> QED BY <1>3, <5>1, Rows, BoundsAssumption DEF TaskRow
      <4> QED BY <2>1, <4>1
              DEF AuthorityInvariant, SafeTables, GenerationsOf, TaskOf
    <3> QED BY <2>1, <3>1, <3>2 DEF HolderStep, Inert
  <2>2. CASE ~(TaskOf(a) \in offers /\ a[2] = tasks[TaskOf(a)].generation + 1)
    <3>1. res'[a] = M[a]
      BY <1>12, <2>2
    <3> QED BY <1>1, <1>4, <3>1 DEF HolderStep, Unreleased, Inert
  <2> QED BY <2>1, <2>2
<1>19. ASSUME NEW a \in failureReceipts' \ failureReceipts
       PROVE  res'[a].phase = "released" /\ Charged(TaskOf(a))
  <2>1. a \in Y /\ a \in Attempts /\ TaskOf(a) \in TasksOf(Y)
    BY <1>1, <1>3, <1>19 DEF TasksOf
  <2>2. TaskOf(a) \notin offers
    BY <1>9, <1>10, <2>1, AttemptPair DEF TaskOf
  <2> QED BY <1>5, <1>12, <1>15, <2>1, <2>2
<1> QED BY <1>1, <1>17, <1>18, <1>19 DEF LedgerStep, ReceiptStep

\* So does a heartbeat that was cut off between its commits.
LEMMA HeartbeatInterruptedLedger ==
  ASSUME TypeOK, AuthorityInvariant, NEW now \in Times, NEW n \in Nodes, NEW s,
         NEW r \in Reports(n, now), ReportHonest(r),
         NEW K \in SUBSET Yielding(TasksAt(now), r),
         HeartbeatInterrupted(n, s, r, K, now)
  PROVE  LedgerStep
<1> DEFINE R == ResAt(now)
           F == FencesAt(now)
           T1 == TasksAt(now)
           M == MergedRes(R, F, n, r, Newer(n, r))
           F2 == MergedFences(R, F, M, n, r)
<1>1. /\ fences' = F2 /\ tasks' = FailedTasks(T1, K, K)
      /\ retry' = FailedRetry(T1, K, K, now)
      /\ failureReceipts' = failureReceipts \cup K
      /\ Reopen(M, MergedDrains(M, r))
  BY DEF HeartbeatInterrupted
<1>2. IsReport(n, r) /\ now \in Nat
  BY ReportShape, TimesNat
<1>3. /\ T1 \in TaskTable /\ retry \in RetryTable
      /\ M \in ResTable /\ K \in SUBSET Attempts
  BY <1>2, SettledRows, MergedRows, YieldingSeen DEF TypeOK
<1>4. ASSUME NEW a \in Attempts
      PROVE  /\ Inert(res, fences, a) => Inert(M, F2, a)
             /\ Unreleased(M, a) =>
                  \/ Unreleased(res, a)
                  \/ ~Truthful /\ res[a].phase = "released"
  BY <1>2, ReportedHolders
<1>5. \A a \in K : M[a].phase = "released"
  BY <1>2, SettledRows, YieldingReleased
<1> HIDE DEF R, F, M, F2
<1>6. HoldersKept(M, F2, res', F2)
  BY <1>1, <1>3, ReopenHolders
<1>7. \A a \in K : res'[a].phase = "released"
  BY <1>1, <1>3, <1>5, MakeUncertainFields DEF Reopen, Unreleased
<1>8. ASSUME NEW t \in TasksOf(K) PROVE Charged(t)
  <2>1. t \in Tasks
    BY <1>3, AttemptPair DEF TasksOf, TaskOf
  <2>2. \A a \in K : ~Unreleased(res', a)
    BY <1>7 DEF Unreleased
  <2> QED BY <1>1, <1>2, <2>1, <2>2, YieldCharged
<1>9. ASSUME NEW t \in Tasks PROVE TaskStep(t)
  <2>1. CASE t \in TasksOf(K)
    BY <1>8, <2>1 DEF TaskStep
  <2>2. CASE t \notin TasksOf(K)
    <3>1. tasks'[t] = T1[t]
      BY <1>1, <1>3, <2>2, FailedTasksRows
    <3>2. SameRetry(t)
      <4> HIDE DEF T1
      <4>2. ~(t \in TasksOf(K) /\ T1[t].status # "completed")
        BY <2>2
      <4>1. FailedRetry(T1, K, K, now)[t] = retry[t]
        BY <1>3, <4>2, FailedRetryRows
      <4> QED BY <1>1, <4>1 DEF SameRetry
    <3> QED BY <3>1, <3>2, ExpiredTask
  <2> QED BY <2>1, <2>2
<1>10. \A a \in Attempts : HolderStep(a)
  BY <1>1, <1>4, <1>6 DEF HolderStep, HoldersKept
<1>11. ReceiptStep
  <2> SUFFICES ASSUME NEW a \in failureReceipts' \ failureReceipts
               PROVE  res'[a].phase = "released" /\ Charged(TaskOf(a))
    BY DEF ReceiptStep
  <2>1. a \in K /\ TaskOf(a) \in TasksOf(K)
    BY <1>1 DEF TasksOf
  <2> QED BY <1>7, <1>8, <2>1
<1> QED BY <1>1, <1>9, <1>10, <1>11 DEF LedgerStep

\* So does a new session of a replay node.
LEMMA OpenReplaySessionLedger ==
  ASSUME TypeOK, AuthorityInvariant, NEW now \in Times, NEW n \in ReplayNodes,
         NEW boot, NEW s, OpenReplaySession(n, boot, s, now)
  PROVE  LedgerStep
<1> DEFINE R == ResAt(now)
           F == FencesAt(now)
           T1 == TasksAt(now)
           lost == Lost(R, n)
           D == {u \in TasksOf({a \in lost : IsLatest(tasks, a)}) :
                   tasks[u].status # "completed"}
           f == [t \in D |-> [tasks[t] EXCEPT !.status = Unsettled(t)]]
<1>1. /\ tasks' = Override(f, T1) /\ res' = MakeUncertain(R, lost)
      /\ fences' = F \cup lost /\ UNCHANGED failures
  BY DEF OpenReplaySession
<1>2. /\ R \in ResTable /\ T1 \in TaskTable /\ tasks \in TaskTable
      /\ HoldersKept(res, fences, R, F) /\ SubmittedWithJob
  BY SettledRows, SettledHolders DEF TypeOK, AuthorityInvariant
<1>3. lost \in SUBSET Attempts /\ \A a \in lost : Unreleased(R, a)
  BY DEF Lost
<1>4. HoldersKept(res, fences, res', fences')
  <2>1. HoldersKept(R, F, res', fences')
    <3> HIDE DEF R, F, lost
    <3> QED BY <1>1, <1>2, <1>3, UncertainHolders
  <2> QED BY <1>2, <2>1 DEF HoldersKept
<1>5. ASSUME NEW t \in Tasks PROVE TaskStep(t)
  <2>1. SameRetry(t)
    BY <1>1 DEF SameRetry, failures
  <2>2. tasks'[t] = IF t \in D THEN f[t] ELSE T1[t]
    <3>1. DOMAIN T1 = Tasks /\ DOMAIN f = D
      BY <1>2 DEF TaskTable
    <3> HIDE DEF f, D, T1
    <3> QED BY <1>1, <3>1 DEF Override
  <2>3. CASE t \in D
    <3>1. PICK b \in lost : TaskOf(b) = t /\ IsLatest(tasks, b)
      BY <2>3 DEF TasksOf
    <3>2. Moved(t, Unsettled(t))
      BY <2>2, <2>3 DEF Moved
    <3>3. tasks[t].status # "completed" /\ tasks[t] \in TaskRow
      BY <1>2, <2>3, Rows
    <3> HIDE DEF lost, D, f
    <3>4. Held(res, t)
      BY <1>2, <1>3, <3>1 DEF Held, HoldersKept
    <3>5. tasks[t].status # "absent"
      BY <1>2, <1>3, <3>1, AttemptPair DEF SubmittedWithJob, IsLatest, TaskOf
    <3>6. tasks[t].status \in {"queued", "assigned", "needs_reconciliation"}
      BY <3>3, <3>5 DEF TaskRow, Statuses
    <3> QED BY <2>1, <3>2, <3>4, <3>6 DEF TaskStep, TakenBack
  <2>4. CASE t \notin D
    BY <2>1, <2>2, <2>4, ExpiredTask
  <2> QED BY <2>3, <2>4
<1> QED BY <1>1, <1>4, <1>5, KeptHolders DEF failures

\* So do the crash points of the other requests and the restart.
LEMMA InterruptionLedger ==
  ASSUME TypeOK, AuthorityInvariant, Interruption
  PROVE  LedgerStep
<1>0. res \in ResTable /\ tasks \in TaskTable
  BY DEF TypeOK
<1>1. CASE Restart
  <2>1. /\ Reopen(res, drains) /\ tasks' = tasks /\ fences' = fences
        /\ UNCHANGED failures
    BY <1>1 DEF Restart
  <2>2. HoldersKept(res, fences, res', fences')
    BY <1>0, <2>1, ReopenHolders
  <2>3. \A t \in Tasks : TaskStep(t)
    BY <2>1 DEF failures, SameRetry, TaskStep, Untouched
  <2> QED BY <2>1, <2>2, <2>3, KeptHolders DEF failures
<1>2. ASSUME NEW now \in Times, NEW W \in SUBSET Lapsed(now),
             NEW X \in SUBSET Lapsed(now), ExpireInterrupted(W, X, now)
      PROVE  LedgerStep
  <2>1. /\ tasks' = MarkUncertain(tasks, W) /\ fences \subseteq fences'
        /\ Reopen(res, drains) /\ UNCHANGED failures
    BY <1>2 DEF ExpireInterrupted
  <2>2. HoldersKept(res, fences, res', fences')
    BY <1>0, <2>1, ReopenHolders
  <2>3. W \in SUBSET Attempts
    BY DEF Lapsed
  <2>4. ASSUME NEW t \in Tasks PROVE TaskStep(t)
    <3>1. tasks'[t] = IF t \in TasksOf(W) /\ tasks[t].status = "assigned"
            THEN [tasks[t] EXCEPT !.status = Unsettled(t)] ELSE tasks[t]
      BY <1>0, <2>1, <2>3, MarkUncertainRows
    <3>2. SameRetry(t)
      BY <2>1 DEF SameRetry, failures
    <3> QED BY <3>1, <3>2 DEF TaskStep, Untouched, TakenBack, Moved
  <2> QED BY <2>1, <2>2, <2>4, KeptHolders DEF failures
<1> QED BY <1>1, <1>2 DEF Interruption

\* Every request, restart and crash is such a step.
LEMMA EveryLedgerStep ==
  ASSUME TypeOK, AuthorityInvariant, LedgerInvariant, [Next]_vars
  PROVE  LedgerStep
<1>1. CASE OperatorRequest
  BY <1>1, OperatorLedger
<1>2. CASE AttemptRequest
  BY <1>2, AttemptLedger
<1>3. CASE NodeRequest
  BY <1>3, HeartbeatLedger, HeartbeatInterruptedLedger, OpenReplaySessionLedger
     DEF NodeRequest
<1>4. CASE Interruption
  BY <1>4, InterruptionLedger
<1>5. CASE UNCHANGED vars
  <2>1. /\ tasks' = tasks /\ res' = res /\ fences' = fences
        /\ UNCHANGED failures
    BY <1>5 DEF vars
  <2>2. \A t \in Tasks : TaskStep(t)
    BY <2>1 DEF failures, SameRetry, TaskStep, Untouched
  <2>3. HoldersKept(res, fences, res', fences')
    BY <2>1 DEF HoldersKept
  <2> QED BY <2>1, <2>2, <2>3, KeptHolders DEF failures
<1> QED BY <1>1, <1>2, <1>3, <1>4, <1>5 DEF Next

-----------------------------------------------------------------------------
(* The invariant is inductive.                                             *)

\* The next row of a task.
LEMMA StepRow ==
  ASSUME TypeOK, NEW t \in Tasks, TaskStep(t)
  PROVE  /\ tasks[t].generation \in Nat /\ retry[t].failures \in Nat
         /\ Started(t) => tasks'[t].generation = tasks[t].generation + 1
         /\ ~Started(t) => tasks'[t].generation = tasks[t].generation
         /\ tasks'[t].status = "assigned" => tasks'[t] = tasks[t] \/ Started(t)
<1>1. tasks[t] \in TaskRow /\ retry[t].failures \in Nat
  BY Rows DEF TypeOK, RetryTable
<1>2. tasks[t].generation \in Nat
  BY <1>1, BoundsAssumption DEF TaskRow
<1>3. ASSUME NEW st, Moved(t, st)
      PROVE  /\ tasks'[t].generation = tasks[t].generation
             /\ tasks'[t].status = st
  BY <1>1, <1>3 DEF Moved, TaskRow
<1>4. Started(t) => tasks'[t].generation = tasks[t].generation + 1
  BY <1>1 DEF Started, TaskRow
<1>5. ~Started(t) => /\ tasks'[t].generation = tasks[t].generation
                     /\ tasks'[t].status = "assigned" => tasks'[t] = tasks[t]
  <2> SUFFICES ASSUME ~Started(t)
               PROVE  /\ tasks'[t].generation = tasks[t].generation
                      /\ tasks'[t].status = "assigned" => tasks'[t] = tasks[t]
    OBVIOUS
  <2>1. CASE Untouched(t)
    BY <2>1 DEF Untouched
  <2>2. CASE TakenBack(t)
    BY <1>3, <2>2 DEF TakenBack, Unsettled
  <2>3. CASE GivenUp(t) \/ Submitted(t) \/ Retried(t)
    BY <1>3, <2>3 DEF GivenUp, Submitted, Retried
  <2>4. CASE Charged(t)
    BY <1>3, <2>4 DEF Charged, NextStatus
  <2>5. CASE Finished(t)
    BY <1>1, <2>5 DEF Finished, TaskRow
  <2> QED BY <2>1, <2>2, <2>3, <2>4, <2>5 DEF TaskStep
<1> QED BY <1>1, <1>2, <1>4, <1>5

\* Of a truthful node's work only what held capacity before or started holds it.
LEMMA StepHolders ==
  ASSUME LedgerStep, Truthful, NEW a \in Attempts, Unreleased(res', a)
  PROVE  \/ Unreleased(res, a)
         \/ Started(TaskOf(a)) /\ a[2] = tasks[TaskOf(a)].generation + 1
BY DEF LedgerStep, HolderStep

\* The failure budget and the receipts stay consistent over a step.
LEMMA BudgetStays ==
  ASSUME TypeOK, LedgerInvariant, LedgerStep
  PROVE  BudgetSpent'
<1> SUFFICES ASSUME Truthful, NEW t \in Tasks, ~(retry'[t].failures < RetryLimit)
             PROVE  /\ tasks'[t].status \in {"needs_reconciliation", "completed"}
                    /\ ~Held(res', t)
  BY DEF BudgetSpent
<1>1. TaskStep(t) /\ tasks[t] \in TaskRow
  BY Rows DEF LedgerStep, TypeOK
<1>2. \/ retry[t].failures < RetryLimit
      \/ /\ tasks[t].status \in {"needs_reconciliation", "completed"}
         /\ ~Held(res, t)
  BY DEF LedgerInvariant, BudgetSpent
<1>3. ~Started(t) /\ Held(res', t) => Held(res, t)
  BY StepHolders DEF Held
<1>4. CASE Untouched(t)
  <2>1. ~Started(t)
    BY <1>1, <1>4, StepRow DEF Untouched
  <2> QED BY <1>2, <1>3, <1>4, <2>1 DEF Untouched, SameRetry
<1>5. CASE TakenBack(t)
  BY <1>2, <1>5 DEF TakenBack, SameRetry
<1>6. CASE GivenUp(t) \/ Started(t) \/ Submitted(t) \/ Finished(t)
  BY <1>2, <1>6 DEF GivenUp, Started, Submitted, Finished, SameRetry
<1>7. CASE Retried(t)
  BY <1>7, TimingAssumption DEF Retried, NoRetry
<1>8. CASE Charged(t)
  <2>1. PICK yielded \in BOOLEAN :
          /\ Moved(t, NextStatus(t, tasks[t].generation, yielded))
          /\ retry'[t].failures = FailureCount(t, yielded)
    BY <1>8 DEF Charged
  <2>2. tasks'[t].status = "needs_reconciliation"
    BY <1>1, <2>1 DEF Moved, NextStatus, TaskRow
  <2>3. ~Started(t)
    BY <1>1, <2>2 DEF Started, TaskRow
  <2>4. ASSUME NEW a \in Attempts, TaskOf(a) = t, Unreleased(res', a)
        PROVE  FALSE
    <3>1. Unreleased(res, a)
      BY <2>3, <2>4, StepHolders
    <3>2. IsLatest(tasks, a)
      BY <3>1 DEF LedgerInvariant, HeldByLatest
    <3> QED BY <1>8, <2>4, <3>2 DEF Charged
  <2> QED BY <2>2, <2>4 DEF Held
<1> QED BY <1>1, <1>4, <1>5, <1>6, <1>7, <1>8 DEF TaskStep

\* The invariant of the ledger over a step, from its summary.
LEMMA LedgerStays ==
  ASSUME TypeOK, TypeOK', AuthorityInvariant, LedgerInvariant, LedgerStep
  PROVE  LedgerInvariant'
<1>1. BudgetSpent'
  BY BudgetStays
<1>2. \A t \in Tasks : TaskStep(t)
  BY DEF LedgerStep
<1>3. ASSUME NEW a \in Attempts
      PROVE  TaskOf(a) \in Tasks /\ TaskOf(a) = a[1]
  BY AttemptPair DEF TaskOf
<1>4. AttemptsBounded'
  <2> SUFFICES ASSUME NEW t \in Tasks, TaskSpec[t].maxAttempts # 0
               PROVE  tasks'[t].generation <= TaskSpec[t].maxAttempts
    BY DEF AttemptsBounded
  <2>1. CASE Started(t)
    <3>1. tasks[t].generation < TaskSpec[t].maxAttempts
      BY <2>1 DEF Started, Exhausted, AttemptsLeft
    <3>2. TaskSpec[t].maxAttempts \in Nat
      BY LaunchAssumption
    <3> QED BY <1>2, <2>1, <3>1, <3>2, StepRow
  <2>2. CASE ~Started(t)
    BY <1>2, <2>2, StepRow DEF LedgerInvariant, AttemptsBounded
  <2> QED BY <2>1, <2>2
<1>5. HeldByLatest'
  <2> SUFFICES ASSUME Truthful, NEW a \in Attempts, Unreleased(res', a)
               PROVE  IsLatest(tasks', a)
    BY DEF HeldByLatest
  <2>1. CASE Started(TaskOf(a))
    <3>1. a[2] = tasks[TaskOf(a)].generation + 1
      BY <2>1 DEF Started
    <3> QED BY <1>2, <1>3, <2>1, <3>1, StepRow DEF IsLatest
  <2>2. CASE ~Started(TaskOf(a))
    <3>1. IsLatest(tasks, a)
      BY <2>2, StepHolders DEF LedgerInvariant, HeldByLatest
    <3> QED BY <1>2, <1>3, <2>2, <3>1, StepRow DEF IsLatest
  <2> QED BY <2>1, <2>2
\* An attempt that has not started yet is not charged.
<1>6. ASSUME NEW a \in failureReceipts,
             a[2] = tasks[TaskOf(a)].generation + 1
      PROVE  FALSE
  <2>1. a \in Attempts /\ Inert(res, fences, a)
    BY DEF TypeOK, LedgerInvariant, ReceiptsRetire
  <2>2. tasks[a[1]].generation \in Nat /\ a[1] = TaskOf(a)
    BY <1>2, <1>3, <2>1, StepRow
  <2>3. a[2] <= tasks[a[1]].generation
    BY <2>1 DEF AuthorityInvariant, SafeTables, GenerationsOf, Inert
  <2> QED BY <1>6, <2>2, <2>3
<1>7. failureReceipts' \subseteq Attempts /\ failureReceipts \subseteq Attempts
  BY DEF TypeOK
<1>8. ASSUME NEW a \in failureReceipts' \ failureReceipts
      PROVE  /\ ~Unreleased(res', a) /\ Inert(res', fences', a)
             /\ tasks'[TaskOf(a)].status # "assigned"
  <2>1. /\ res'[a].phase = "released"
        /\ Charged(TaskOf(a)) \/ tasks'[TaskOf(a)].status = "completed"
    BY <1>8 DEF LedgerStep, ReceiptStep
  <2>2. TaskOf(a) \in Tasks /\ tasks[TaskOf(a)] \in TaskRow
    BY <1>3, <1>7, Rows DEF TypeOK
  <2>3. Charged(TaskOf(a)) => tasks'[TaskOf(a)].status # "assigned"
    BY <2>2 DEF Charged, Moved, NextStatus, TaskRow
  <2> QED BY <2>1, <2>3 DEF Unreleased, Inert
<1>9. ReceiptsHoldNothing'
  <2> SUFFICES ASSUME Truthful, NEW a \in failureReceipts', Unreleased(res', a)
               PROVE  FALSE
    BY DEF ReceiptsHoldNothing
  <2>1. a \in failureReceipts /\ a \in Attempts
    BY <1>7, <1>8
  <2>2. Unreleased(res, a)
    BY <1>6, <2>1, StepHolders
  <2> QED BY <2>1, <2>2 DEF LedgerInvariant, ReceiptsHoldNothing
<1>10. ReceiptsRetire'
  <2> SUFFICES ASSUME NEW a \in failureReceipts'
               PROVE  /\ Inert(res', fences', a)
                      /\ IsLatest(tasks', a) => tasks'[TaskOf(a)].status # "assigned"
    BY DEF ReceiptsRetire
  <2>1. CASE a \notin failureReceipts
    BY <1>8, <2>1
  <2>2. CASE a \in failureReceipts
    <3>1. /\ a \in Attempts /\ Inert(res, fences, a)
          /\ IsLatest(tasks, a) => tasks[TaskOf(a)].status # "assigned"
      BY <1>7, <2>2 DEF LedgerInvariant, ReceiptsRetire
    <3>2. Inert(res', fences', a)
      BY <3>1 DEF LedgerStep, HolderStep
    <3>3. ASSUME IsLatest(tasks', a), tasks'[TaskOf(a)].status = "assigned"
          PROVE  FALSE
      <4>1. CASE Started(TaskOf(a))
        <5>1. a[2] = tasks[TaskOf(a)].generation + 1
          BY <1>2, <1>3, <3>1, <3>3, <4>1, StepRow DEF IsLatest
        <5> QED BY <1>6, <2>2, <5>1
      <4>2. CASE tasks'[TaskOf(a)] = tasks[TaskOf(a)]
        BY <1>3, <3>1, <3>3, <4>2 DEF IsLatest
      <4> QED BY <1>2, <1>3, <3>1, <3>3, <4>1, <4>2, StepRow
    <3> QED BY <3>2, <3>3
  <2> QED BY <2>1, <2>2
<1> QED BY <1>1, <1>4, <1>5, <1>9, <1>10 DEF LedgerInvariant

(***************************************************************************)
(* The inductive invariant behind retries holds in every state: a failure  *)
(* is charged once, its attempt is retired for good, and of a truthful     *)
(* node's work only the latest attempt of a task holds capacity.           *)
(***************************************************************************)
THEOREM LedgerInductive == Spec => []LedgerInvariant
<1>1. Init => LedgerInvariant
  <2> SUFFICES ASSUME Init PROVE LedgerInvariant
    OBVIOUS
  <2>1. /\ \A a \in Attempts : res[a] = NoReservation
        /\ \A t \in Tasks : retry[t] = NoRetry /\ tasks[t].generation = 0
        /\ failureReceipts = {}
    BY DEF Init
  <2>2. BudgetSpent
    BY <2>1, TimingAssumption DEF BudgetSpent, NoRetry
  <2>3. AttemptsBounded
    <3>1. \A t \in Tasks : TaskSpec[t].maxAttempts \in Nat
      BY LaunchAssumption
    <3> QED BY <2>1, <3>1 DEF AttemptsBounded
  <2>4. HeldByLatest /\ ReceiptsHoldNothing /\ ReceiptsRetire
    BY <2>1 DEF HeldByLatest, ReceiptsHoldNothing, ReceiptsRetire,
                Unreleased, NoReservation
  <2> QED BY <2>2, <2>3, <2>4 DEF LedgerInvariant
<1>2. TypeOK /\ TypeOK' /\ AuthorityInvariant /\ LedgerInvariant /\ [Next]_vars
        => LedgerInvariant'
  BY EveryLedgerStep, LedgerStays
<1> QED BY <1>1, <1>2, Typing, AuthorityInductive, PTL DEF Spec

(***************************************************************************)
(* A failure receipt retires its attempt for good, whatever nodes report   *)
(* afterwards (record_failure).                                            *)
(***************************************************************************)
THEOREM ReceiptsAlwaysRetire == Spec => []ReceiptsRetire
<1>1. LedgerInvariant => ReceiptsRetire
  BY DEF LedgerInvariant
<1> QED BY <1>1, LedgerInductive, PTL

(***************************************************************************)
(* When nodes do not contradict a release, work is retried only within its *)
(* budget, after its failed attempt was charged once and retired, and      *)
(* after that attempt's capacity came back (retry, record_failure,         *)
(* schedule).                                                              *)
(***************************************************************************)
THEOREM RetriesSound == ASSUME Truthful PROVE Spec => []RetriesAreSound
<1>1. LedgerInvariant => RetriesAreSound
  <2> SUFFICES ASSUME LedgerInvariant PROVE RetriesAreSound
    OBVIOUS
  <2>1. RetryBounded
    BY DEF LedgerInvariant, BudgetSpent, AttemptsBounded, RetryBounded
  <2>2. SingleHolder
    BY LatestUnique DEF LedgerInvariant, HeldByLatest, SingleHolder
  <2> QED BY <2>1, <2>2 DEF LedgerInvariant, RetriesAreSound
<1> QED BY <1>1, LedgerInductive, PTL
-----------------------------------------------------------------------------
(* The refinement: every step of the coordinator is a step or a stutter of *)
(* every task of the ledger.                                               *)

\* What it means to be a holder of a task.
LEMMA HoldersOf ==
  ASSUME NEW t \in Tasks, NEW g
  PROVE  /\ g \in Holders[t] <=> g \in 1..MaxGen /\ Unreleased(res, <<t, g>>)
         /\ g \in Holders'[t] <=> g \in 1..MaxGen /\ Unreleased(res', <<t, g>>)
         /\ g \in 1..MaxGen => /\ <<t, g>> \in Attempts
                               /\ TaskOf(<<t, g>>) = t
BY DEF Holders, Attempts, TaskOf

\* A task whose rows are all released has no holder.
LEMMA NoHolders ==
  ASSUME NEW t \in Tasks, ~Held(res, t)
  PROVE  Holders[t] = {}
BY HoldersOf DEF Held

\* Of a truthful node's work, only a start adds a holder.
LEMMA FewerHolders ==
  ASSUME LedgerStep, Truthful, NEW t \in Tasks, ~Started(t)
  PROVE  Holders'[t] \subseteq Holders[t]
<1> SUFFICES ASSUME NEW g \in Holders'[t] PROVE g \in Holders[t]
  OBVIOUS
<1>1. /\ g \in 1..MaxGen /\ Unreleased(res', <<t, g>>)
      /\ <<t, g>> \in Attempts /\ TaskOf(<<t, g>>) = t
  BY HoldersOf
<1>2. Unreleased(res, <<t, g>>)
  BY <1>1, StepHolders
<1> QED BY <1>1, <1>2, HoldersOf

\* A step of the coordinator is a step or a stutter of each task of the
\* ledger.
LEMMA LedgerTaskStep ==
  ASSUME TypeOK, AuthorityInvariant, LedgerInvariant, LedgerStep, Truthful,
         NEW t \in Tasks
  PROVE  Ledger!Step(t, tasks[t], Holders[t], tasks'[t], Holders'[t])
<1> DEFINE x == tasks[t]
           y == tasks'[t]
           h == Holders[t]
           k == Holders'[t]
<1>1. TaskStep(t) /\ x \in TaskRow
  BY Rows DEF LedgerStep, TypeOK
<1>2. x.generation \in Nat
  BY StepRow, <1>1
<1>3. ASSUME NEW st, Moved(t, st)
      PROVE  ~Started(t) /\ y = [x EXCEPT !.status = st] /\ k \subseteq h
  <2>1. y.generation = x.generation
    BY <1>1, <1>3 DEF Moved, TaskRow
  <2>2. ~Started(t)
    BY <1>1, <1>2, <2>1, StepRow
  <2>3. k \subseteq h
    BY <2>2, FewerHolders
  <2> QED BY <1>3, <2>2, <2>3 DEF Moved
<1>4. CASE Untouched(t)
  <2>1. y = x /\ ~Started(t)
    BY <1>1, <1>2, <1>4, StepRow DEF Untouched
  <2>2. k \subseteq h
    BY <2>1, FewerHolders
  <2>3. Ledger!Release(x, h, y, k)
    BY <2>1, <2>2 DEF Ledger!Release
  <2> QED BY <2>3 DEF Ledger!Step
<1>5. ASSUME NEW st \in {"queued", "needs_reconciliation"}, Moved(t, st),
             x.status \in {"queued", "assigned", "needs_reconciliation"},
             st = "queued" => TaskSpec[t].replaySafe
      PROVE  Ledger!Step(t, x, h, y, k)
  <2>1. y = [x EXCEPT !.status = st] /\ k \subseteq h
    BY <1>3, <1>5
  <2>2. Ledger!TakeBack(t, x, h, y, k)
    BY <1>5, <2>1 DEF Ledger!TakeBack
  <2> QED BY <2>2 DEF Ledger!Step
<1>6. CASE TakenBack(t) \/ GivenUp(t)
  BY <1>5, <1>6 DEF TakenBack, GivenUp, Unsettled
<1>7. CASE Charged(t)
  BY <1>5, <1>7 DEF Charged, NextStatus
<1>8. CASE Started(t)
  <2>1. h = {}
    BY <1>8, NoHolders DEF Started
  <2>2. k = {x.generation + 1}
    <3>1. x.generation + 1 \in 1..MaxGen
      BY <1>2, <1>8, BoundsAssumption DEF Started
    <3>2. ASSUME NEW g \in 1..MaxGen
          PROVE  Unreleased(res', <<t, g>>) <=> g = x.generation + 1
      <4>1. <<t, g>> \in Attempts /\ TaskOf(<<t, g>>) = t
        BY HoldersOf
      <4> QED BY <1>8, <4>1 DEF Started
    <3>3. ASSUME NEW g PROVE g \in k <=> g = x.generation + 1
      <4>1. g \in k <=> g \in 1..MaxGen /\ Unreleased(res', <<t, g>>)
        BY HoldersOf
      <4> QED BY <3>1, <3>2, <4>1
    <3> QED BY <3>3
  <2>3. y = [x EXCEPT !.status = "assigned", !.generation = @ + 1]
    BY <1>8 DEF Started
  <2>4. Ledger!Assign(x, h, y, k)
    BY <1>8, <2>1, <2>2, <2>3 DEF Ledger!Assign, Started
  <2> QED BY <2>4 DEF Ledger!Step
<1>9. CASE Submitted(t)
  <2>1. x.status = "absent" /\ y = [x EXCEPT !.status = "queued"]
        /\ k \subseteq h
    BY <1>3, <1>9 DEF Submitted
  <2>2. h = {}
    <3>1. x.generation = 0
      BY <2>1 DEF AuthorityInvariant, SubmittedWithJob
    <3>2. ASSUME NEW g \in 1..MaxGen, Unreleased(res, <<t, g>>) PROVE FALSE
      BY <3>1, <3>2, HoldersOf DEF LedgerInvariant, HeldByLatest, IsLatest
    <3> QED BY <3>2, HoldersOf
  <2>3. Ledger!Submit(x, h, y, k)
    BY <2>1, <2>2 DEF Ledger!Submit
  <2> QED BY <2>3 DEF Ledger!Step
<1>10. CASE Retried(t)
  <2>1. y = [x EXCEPT !.status = "queued"] /\ k \subseteq h
    BY <1>3, <1>10 DEF Retried
  <2>2. h = {}
    BY <1>10, NoHolders DEF Retried
  <2>3. Ledger!Retry(x, h, y, k)
    BY <1>10, <2>1, <2>2 DEF Ledger!Retry, Retried
  <2> QED BY <2>3 DEF Ledger!Step
<1>11. CASE Finished(t)
  <2>1. k = h
    <3>1. ASSUME NEW g PROVE g \in k <=> g \in h
      BY <1>11, HoldersOf DEF Finished
    <3> QED BY <3>1
  <2>2. Ledger!Accept(t, x, h, y, k)
    BY <1>11, <2>1 DEF Ledger!Accept, Finished
  <2> QED BY <2>2 DEF Ledger!Step
<1> QED BY <1>1, <1>4, <1>6, <1>7, <1>8, <1>9, <1>10, <1>11 DEF TaskStep

(***************************************************************************)
(* When nodes do not contradict a release, the coordinator implements the  *)
(* task ledger: a new attempt starts only when no earlier one holds        *)
(* capacity, work that is not replay-safe runs again only after an         *)
(* operator's retry, and a result is accepted once, from the latest        *)
(* attempt (submit, schedule, mark_uncertain, record_failure, retry,       *)
(* accept_result).                                                         *)
(***************************************************************************)
THEOREM LedgerRefined == ASSUME Truthful PROVE Spec => LedgerSpec
<1>1. Init => Ledger!Init
  <2> SUFFICES ASSUME Init PROVE Ledger!Init
    OBVIOUS
  <2>1. /\ tasks = [t \in Tasks |->
                      [status |-> "absent", generation |-> 0, receipt |-> None]]
        /\ \A a \in Attempts : res[a] = NoReservation
    BY DEF Init
  <2>2. ASSUME NEW t \in Tasks PROVE Holders[t] = {}
    <3>1. ASSUME NEW g \in 1..MaxGen PROVE ~Unreleased(res, <<t, g>>)
      BY <2>1, HoldersOf DEF Unreleased, NoReservation
    <3> QED BY <3>1, HoldersOf
  <2>3. Holders = [t \in Tasks |-> {}]
    BY <2>2 DEF Holders
  <2> QED BY <2>1, <2>3 DEF Ledger!Init
<1>2. TypeOK /\ AuthorityInvariant /\ LedgerInvariant /\ [Next]_vars
        => [Ledger!Next]_(Ledger!vars)
  <2> SUFFICES ASSUME TypeOK, AuthorityInvariant, LedgerInvariant, [Next]_vars
               PROVE  Ledger!Next
    OBVIOUS
  <2>1. LedgerStep
    BY EveryLedgerStep
  <2> QED BY <2>1, LedgerTaskStep DEF Ledger!Next
<1> QED BY <1>1, <1>2, Typing, AuthorityInductive, LedgerInductive, PTL
        DEF Spec, LedgerSpec, Ledger!Spec

-----------------------------------------------------------------------------
(***************************************************************************)
(* Nodes with replayable storage, for every number of nodes, sessions and  *)
(* attempts: such a node runs nothing before its recovery report is        *)
(* complete, and then only work that may be replayed.                      *)
(*                                                                         *)
(* SessionStep says what one request, restart or crash may do to the       *)
(* sessions, and to the reservations of the node it is about.              *)
(***************************************************************************)

(* What a step does to sessions and to the rows of their nodes.            *)

\* The row stays with its node, and comes to no new life.
KeptRow(a) == res'[a].node = res[a].node /\ (Live(res', a) => Live(res, a))

\* Node n reported the row, or is offered it.
ReportedRow(n, a) ==
    \/ KeptRow(a)
    \/ res'[a].node = n /\ (res[a].node = n \/ ReplayRequestAllowed(n, TaskOf(a)))

\* The sessions, and the retired ones, are left alone.
QuietSessions ==
    /\ sessions' = sessions /\ retired' = retired
    /\ \A a \in Attempts : KeptRow(a)

\* A report of n makes its session ready.
Recovered(n) ==
    /\ sessions' = [sessions EXCEPT ![n].ready = Registered(n)]
    /\ retired' = retired
    /\ \A a \in Attempts : ReportedRow(n, a)

\* A new session of n starts with every row of n inert.
Replaced(n, boot, s) ==
    /\ s \notin retired[n] /\ s # sessions[n].id
    /\ retired' = [retired EXCEPT ![n] = @ \cup ({sessions[n].id} \ {0})]
    /\ sessions' = [sessions EXCEPT ![n] =
                      [id |-> s, boot |-> boot, ready |-> FALSE]]
    /\ \A a \in Attempts :
         /\ KeptRow(a)
         /\ res[a].node = n => Inert(res', fences', a)

SessionStep ==
    \/ QuietSessions
    \/ \E n \in Nodes : Recovered(n)
    \/ \E n \in Nodes : \E boot, s : Replaced(n, boot, s)

-----------------------------------------------------------------------------
(* The invariant.                                                          *)

RetiredNeverCurrent == \A n \in Nodes : sessions[n].id \notin retired[n]

LiveWhenReady ==
    \A a \in Attempts : Live(res, a) /\ Registered(res[a].node) =>
      sessions[res[a].node].ready

\* What ReplayRequestAllowed asks of the work of a registered node.
Replayable(t) ==
    /\ TaskSpec[t].replaySafe /\ Opportunistic(t)
    /\ DurableLocal \notin TaskSpec[t].controls

\* Also of a row that is uncertain but not fenced: a report may revive it.
OnlyReplayable ==
    \A a \in Attempts : res[a].phase # "none" /\ ~Inert(res, fences, a) =>
      ReplayRequestAllowed(res[a].node, TaskOf(a))

SessionInvariant == RetiredNeverCurrent /\ LiveWhenReady /\ OnlyReplayable

-----------------------------------------------------------------------------
(* The actions.                                                            *)

RowKept(R, M) ==
    \A a \in Attempts : M[a].node = R[a].node /\ (Live(M, a) => Live(R, a))

\* Expiry, sessions and restarts only make rows uncertain.
LEMMA UncertainRowsKept ==
  ASSUME NEW R \in ResTable, NEW U \in SUBSET Attempts
  PROVE  RowKept(R, MakeUncertain(R, U))
<1> DEFINE M == MakeUncertain(R, U)
<1>1. \A a \in Attempts :
        /\ M[a].phase = IF a \in U THEN "uncertain" ELSE R[a].phase
        /\ M[a].node = R[a].node
  BY MakeUncertainFields
<1> HIDE DEF M
<1> QED BY <1>1 DEF RowKept, Live, M

\* The expiry at the start of a request revives no row.
LEMMA SettledRowsKept ==
  ASSUME TypeOK, NEW now
  PROVE  RowKept(res, ResAt(now))
<1>1. res \in ResTable /\ Lapsed(now) \in SUBSET Attempts
  BY DEF TypeOK, Lapsed
<1> QED BY <1>1, UncertainRowsKept DEF ResAt

\* A restart revives no row.
LEMMA ReopenRowsKept ==
  ASSUME NEW R \in ResTable, NEW D, Reopen(R, D)
  PROVE  RowKept(R, res')
<1> DEFINE U == {a \in Attempts : Unreleased(R, a)}
<1>1. U \in SUBSET Attempts
  OBVIOUS
<1>2. res' = MakeUncertain(R, U)
  BY DEF Reopen
<1> HIDE DEF U
<1> QED BY <1>1, <1>2, UncertainRowsKept

\* Only a live row of the grant's own attempt is extended.
LEMMA ExtendRowsKept ==
  ASSUME NEW R \in ResTable, NEW a \in Attempts, NEW now, Live(R, a)
  PROVE  RowKept(R, Extend(R, a, now))
<1> DEFINE M == Extend(R, a, now)
<1>1. \A b \in Attempts :
        /\ M[b].phase = IF b = a THEN "authorized" ELSE R[b].phase
        /\ M[b].node = R[b].node
  BY DEF Extend, ResTable
<1> HIDE DEF M
<1> QED BY <1>1 DEF RowKept, Live, M

\* Requests that touch neither rows nor sessions are quiet.
LEMMA QuietRows ==
  ASSUME RowKept(res, res'), UNCHANGED replay
  PROVE  SessionStep
BY DEF RowKept, KeptRow, replay, SessionStep, QuietSessions

\* The operator's requests change no session.
LEMMA OperatorSessions ==
  ASSUME TypeOK, OperatorRequest
  PROVE  SessionStep
<1>1. PICK now \in Times : res' = ResAt(now) /\ UNCHANGED replay
  BY ZenonT(40) DEF OperatorRequest, Status, PutPool, Submit, Retry, Cancel, DrainNode,
         Settle, evidence, replay
<1> QED BY <1>1, SettledRowsKept, QuietRows

\* A request about an attempt ends no session; a grant extends a live row.
LEMMA AttemptSessions ==
  ASSUME TypeOK, AttemptRequest
  PROVE  SessionStep
<1> PICK now \in Times, p \in Principals, s \in Wrappers, a \in Attempts :
       \/ \E e \in 1..MaxEpoch, identity \in Identities,
             applied \in SUBSET Controls :
             \/ Prepared(p, s, a, e, identity, applied, now)
             \/ PreparedInterrupted(p, s, a, e, identity, applied, now)
       \/ \E e \in 1..MaxEpoch, previous \in 0..MaxSeq :
             Renew(p, s, a, e, previous, now)
       \/ \E x \in Artifacts : CommitUpload(p, s, a, x, now)
       \/ \E r \in Results : PublishCheckpoint(p, s, a, r, now)
       \/ \E r \in Results : Complete(p, s, a, r, now)
       \/ \E kind \in {"yielded", "execution"} : Fail(p, s, a, kind, now)
  BY DEF AttemptRequest
<1> DEFINE R == ResAt(now)
           T == TasksAt(now)
<1>1. R \in ResTable /\ RowKept(res, R)
  BY SettledRows, SettledRowsKept
<1>2. UNCHANGED replay
  BY DEF Prepared, PreparedInterrupted, Renew, CommitUpload,
         PublishCheckpoint, Complete, Fail, Settle, replay
<1>3. \/ res' = R
      \/ Grantable(R, T, a, now) /\ res' = Extend(R, a, now)
      \/ Reopen(R, drains)
  BY DEF Prepared, PreparedInterrupted, Renew, CommitUpload,
         PublishCheckpoint, Complete, Fail, Settle
<1> HIDE DEF R, T
<1>4. RowKept(R, res') \/ res' = R
  BY <1>1, <1>3, ExtendRowsKept, ReopenRowsKept DEF Grantable
<1>5. RowKept(res, res')
  BY <1>1, <1>4 DEF RowKept
<1> QED BY <1>2, <1>5, QuietRows

\* What the report says of a row that is not its node's changes nothing.
LEMMA MergedRowsKept ==
  ASSUME NEW R \in ResTable, NEW F, NEW n \in Nodes, NEW r, IsReport(n, r),
         NEW newer, \A a \in Attempts : R[a].node = res[a].node,
         NEW a \in Attempts
  PROVE  LET M == MergedRes(R, F, n, r, newer)
         IN  /\ M[a].node = R[a].node
             /\ Live(M, a) => Live(R, a) \/ R[a].node = n
<1> DEFINE M == MergedRes(R, F, n, r, newer)
<1>1. /\ M[a].phase = IF a \in Seen(r) THEN ReportedPhase(R, F, r, newer, a)
                      ELSE IF a \in Missing(R, n, r) THEN "uncertain"
                      ELSE R[a].phase
      /\ M[a].node = R[a].node
  BY MergedRows
<1>2. a \in Seen(r) => R[a].node = n
  BY DEF IsReport
<1> HIDE DEF M
<1> QED BY <1>1, <1>2 DEF Live, M

\* A whole heartbeat: the session that reports is current, and only a complete
\* recovery makes it ready.
LEMMA HeartbeatSessions ==
  ASSUME TypeOK, AuthorityInvariant, NEW now \in Times, NEW n \in Nodes, NEW s,
         NEW r \in Reports(n, now), Heartbeat(n, s, r, now)
  PROVE  SessionStep
<1> DEFINE R == ResAt(now)
           F == FencesAt(now)
           T1 == TasksAt(now)
           M == MergedRes(R, F, n, r, Newer(n, r))
           Y == Yielding(T1, r)
           T == FailedTasks(T1, Y, Y)
           B == FailedRetry(T1, Y, Y, now)
           schedules == /\ Fresh(r.observedAt, now) /\ ObservedLive(r)
                        /\ NothingUnknown(R, n, r, Newer(n, r)) /\ r.cap.expand
                        /\ n \notin drained
                        /\ ReplayNodeCanAdmit(M, n, TRUE, Strangers(n, r))
           C == IF schedules THEN Considered(T, B, n, now) ELSE {}
           E == Eligible(M, T, C, r.cap)
<1>1. /\ sessions' = [sessions EXCEPT ![n].ready = Registered(n)]
      /\ retired' = retired
      /\ \E offers \in SUBSET E : res' = OfferedRes(M, T, n, offers, now)
  BY DEF Heartbeat, RecordReport
<1>2. IsReport(n, r) /\ now \in Nat
  BY ReportShape, TimesNat
<1>3. R \in ResTable /\ T1 \in TaskTable /\ RowKept(res, R)
  BY SettledRows, SettledRowsKept
<1>4. \A a \in Attempts : R[a].node = res[a].node
  BY <1>3 DEF RowKept
<1> HIDE DEF R, F, T1
<1>5. /\ M \in ResTable
      /\ \A a \in Attempts : /\ M[a].node = R[a].node
                             /\ Live(M, a) => Live(R, a) \/ R[a].node = n
  BY <1>2, <1>3, <1>4, MergedRows, MergedRowsKept
<1> HIDE DEF M
<1>6. T \in TaskTable
  <2>1. Y \in SUBSET Attempts
    BY <1>2, YieldingSeen
  <2> HIDE DEF Y
  <2> QED BY <1>3, <2>1, FailedTasksRows
<1>7. \A t \in C : t \in Tasks /\ ReplayRequestAllowed(n, t)
  <2> HIDE DEF T, B, schedules
  <2> QED BY DEF Considered
<1> HIDE DEF T, B, C
<1>8. PICK offers \in SUBSET E : res' = OfferedRes(M, T, n, offers, now)
  BY <1>1
<1>9. /\ offers \in SUBSET Tasks
      /\ \A t \in offers : /\ T[t].generation < MaxGen
                           /\ ReplayRequestAllowed(n, t)
  BY <1>7 DEF Eligible
<1> HIDE DEF E
<1>10. ASSUME NEW a \in Attempts PROVE ReportedRow(n, a)
  <2> DEFINE new == TaskOf(a) \in offers /\ a[2] = T[TaskOf(a)].generation + 1
  <2>1. res'[a] = IF new
                  THEN [node |-> n, phase |-> "offered", observed |-> None,
                        seq |-> 0, deadline |-> now + Lease]
                  ELSE M[a]
    BY ZenonT(40), <1>2, <1>5, <1>6, <1>8, <1>9, OfferedResRows
  <2>2. CASE new
    BY <1>9, <2>1, <2>2 DEF ReportedRow
  <2>3. CASE ~new
    <3>1. res'[a] = M[a]
      BY <2>1, <2>3
    <3>2. (Live(res', a) <=> Live(M, a)) /\ res'[a].node = M[a].node
      BY <3>1 DEF Live
    <3> QED BY <1>3, <1>5, <3>2 DEF RowKept, ReportedRow, KeptRow
  <2> QED BY <2>2, <2>3
<1> QED BY <1>1, <1>10 DEF SessionStep, Recovered

\* A heartbeat that was cut off between its commits.
LEMMA HeartbeatInterruptedSessions ==
  ASSUME TypeOK, NEW now \in Times, NEW n \in Nodes, NEW s,
         NEW r \in Reports(n, now), NEW K, HeartbeatInterrupted(n, s, r, K, now)
  PROVE  SessionStep
<1> DEFINE R == ResAt(now)
           F == FencesAt(now)
           M == MergedRes(R, F, n, r, Newer(n, r))
<1>1. /\ sessions' = [sessions EXCEPT ![n].ready = Registered(n)]
      /\ retired' = retired
      /\ Reopen(M, MergedDrains(M, r))
  BY DEF HeartbeatInterrupted, RecordReport
<1>2. IsReport(n, r)
  BY ReportShape
<1>3. R \in ResTable /\ RowKept(res, R)
  BY SettledRows, SettledRowsKept
<1>4. \A a \in Attempts : R[a].node = res[a].node
  BY <1>3 DEF RowKept
<1> HIDE DEF R, F
<1>5. /\ M \in ResTable
      /\ \A a \in Attempts : /\ M[a].node = R[a].node
                             /\ Live(M, a) => Live(R, a) \/ R[a].node = n
  BY <1>2, <1>3, <1>4, MergedRows, MergedRowsKept
<1> HIDE DEF M
<1>6. RowKept(M, res')
  BY <1>1, <1>5, ReopenRowsKept
<1>7. \A a \in Attempts : ReportedRow(n, a)
  BY <1>3, <1>5, <1>6 DEF RowKept, ReportedRow, KeptRow
<1> QED BY <1>1, <1>7 DEF SessionStep, Recovered

\* A new session fences what its node still holds.
LEMMA OpenReplaySessionSessions ==
  ASSUME TypeOK, AuthorityInvariant, NEW now \in Times, NEW n \in ReplayNodes,
         NEW boot, NEW s, OpenReplaySession(n, boot, s, now)
  PROVE  SessionStep
<1> DEFINE R == ResAt(now)
           lost == Lost(R, n)
<1>1. /\ s \notin retired[n] /\ s # sessions[n].id
      /\ retired' = [retired EXCEPT ![n] = @ \cup ({sessions[n].id} \ {0})]
      /\ sessions' = [sessions EXCEPT ![n] =
                        [id |-> s, boot |-> boot, ready |-> FALSE]]
      /\ res' = MakeUncertain(R, lost) /\ fences' = FencesAt(now) \cup lost
  BY DEF OpenReplaySession
<1>2. n \in Nodes /\ n # None
  BY PrincipalsAssumption
<1>3. R \in ResTable /\ RowKept(res, R) /\ RowsOf(R)
  BY SettledRows, SettledRowsKept, SettledSafe
     DEF AuthorityInvariant, SafeTables
<1>4. /\ lost \in SUBSET Attempts
      /\ \A a \in Attempts : a \in lost <=> R[a].node = n /\ Unreleased(R, a)
  BY DEF Lost
<1> HIDE DEF R, lost
<1>5. \A a \in Attempts :
        res'[a].phase = IF a \in lost THEN "uncertain" ELSE R[a].phase
  BY <1>1, <1>3, <1>4, MakeUncertainFields
<1>6. RowKept(R, res')
  BY <1>1, <1>3, <1>4, UncertainRowsKept
<1>7. ASSUME NEW a \in Attempts
      PROVE  KeptRow(a) /\ (res[a].node = n => Inert(res', fences', a))
  <2>1. KeptRow(a) /\ R[a].node = res[a].node
    BY <1>3, <1>6 DEF RowKept, KeptRow
  <2>2. R[a].node = n => a \in lost \/ R[a].phase = "released"
    BY <1>2, <1>3, <1>4 DEF RowsOf, Unreleased
  <2> QED BY <1>1, <1>5, <2>1, <2>2 DEF Inert
<1> QED BY <1>1, <1>2, <1>7 DEF SessionStep, Replaced

\* The crash points of the other requests and the restart change no session.
LEMMA InterruptionSessions ==
  ASSUME TypeOK, Interruption
  PROVE  SessionStep
<1>1. Reopen(res, drains) /\ UNCHANGED replay
  BY DEF Interruption, Restart, ExpireInterrupted, replay
<1>2. RowKept(res, res')
  BY <1>1, ReopenRowsKept DEF TypeOK
<1> QED BY <1>1, <1>2, QuietRows

\* Every request, restart and crash is such a step.
LEMMA EverySessionStep ==
  ASSUME TypeOK, AuthorityInvariant, [Next]_vars
  PROVE  SessionStep
<1>1. CASE OperatorRequest
  BY <1>1, OperatorSessions
<1>2. CASE AttemptRequest
  BY <1>2, AttemptSessions
<1>3. CASE NodeRequest
  BY <1>3, HeartbeatSessions, HeartbeatInterruptedSessions,
     OpenReplaySessionSessions DEF NodeRequest
<1>4. CASE Interruption
  BY <1>4, InterruptionSessions
<1>5. CASE UNCHANGED vars
  BY <1>5 DEF vars, replay, SessionStep, QuietSessions, KeptRow, Live
<1> QED BY <1>1, <1>2, <1>3, <1>4, <1>5 DEF Next

-----------------------------------------------------------------------------
(* The invariant is inductive.                                             *)

\* A row that may still run was allowed on its node before the step, or is
\* offered to a node by this one.
LEMMA AllowedBefore ==
  ASSUME RowsOf(res), RowsOf(res)', LedgerStep, OnlyReplayable,
         NEW a \in Attempts, res'[a].node = res[a].node,
         res'[a].phase # "none", ~Inert(res', fences', a)
  PROVE  res[a].node # None /\ ReplayRequestAllowed(res[a].node, TaskOf(a))
<1>1. res'[a].node # None
  BY DEF RowsOf
<1>2. res[a].phase # "none"
  BY <1>1 DEF RowsOf
<1>3. ~Inert(res, fences, a)
  BY DEF LedgerStep, HolderStep
<1> QED BY <1>1, <1>2, <1>3 DEF OnlyReplayable

\* The invariant of the sessions over a step, from its summary.
LEMMA SessionStays ==
  ASSUME TypeOK, RowsOf(res), RowsOf(res)', LedgerStep, SessionInvariant,
         SessionStep
  PROVE  SessionInvariant'
<1>1. /\ RetiredNeverCurrent /\ LiveWhenReady /\ OnlyReplayable
      /\ \A a \in Attempts : res[a].node \in Nodes \cup {None}
      /\ \A n \in Nodes : sessions[n].id \in Nat
      /\ DOMAIN sessions = Nodes /\ DOMAIN retired = Nodes
  BY DEF SessionInvariant, TypeOK, ResTable
<1>2. ASSUME NEW a \in Attempts, Live(res', a)
      PROVE  ~Inert(res', fences', a) /\ res'[a].phase # "none"
  BY <1>2 DEF Live, Inert
<1>3. ASSUME NEW a \in Attempts, Live(res', a), res'[a].node = res[a].node
      PROVE  res[a].node \in Nodes
  BY <1>1, <1>2, <1>3, AllowedBefore
<1>4. CASE QuietSessions
  <2>1. sessions' = sessions /\ retired' = retired
        /\ \A a \in Attempts : KeptRow(a)
    BY <1>4 DEF QuietSessions
  <2>2. RetiredNeverCurrent' /\ LiveWhenReady'
    BY <1>1, <2>1 DEF RetiredNeverCurrent, LiveWhenReady, KeptRow, Registered
  <2>3. OnlyReplayable'
    BY <1>1, <2>1, AllowedBefore
       DEF OnlyReplayable, KeptRow, ReplayRequestAllowed, Registered
  <2> QED BY <2>2, <2>3 DEF SessionInvariant
<1>5. ASSUME NEW n \in Nodes, Recovered(n)
      PROVE  SessionInvariant'
  <2>1. /\ retired' = retired
        /\ \A m \in Nodes : sessions'[m].id = sessions[m].id
        /\ Registered(n) => sessions'[n].ready
        /\ \A m \in Nodes : m # n => sessions'[m] = sessions[m]
        /\ \A a \in Attempts : ReportedRow(n, a)
    <3>1. /\ sessions' = [sessions EXCEPT ![n].ready = Registered(n)]
          /\ retired' = retired /\ \A a \in Attempts : ReportedRow(n, a)
      BY <1>5 DEF Recovered
    <3>2. \A m \in Nodes : m # n => sessions'[m] = sessions[m]
      BY <1>1, <3>1
    <3>3. sessions'[n] = [sessions[n] EXCEPT !.ready = Registered(n)]
      BY <1>1, <3>1
    <3>4. sessions[n] \in [id : Nat, boot : Boots \cup {None}, ready : BOOLEAN]
      BY DEF TypeOK
    <3>5. sessions'[n].id = sessions[n].id /\ sessions'[n].ready = Registered(n)
      BY <3>3, <3>4
    <3> QED BY <3>1, <3>2, <3>5
  <2>2. RetiredNeverCurrent'
    BY <1>1, <2>1 DEF RetiredNeverCurrent
  <2>3. ASSUME NEW a \in Attempts, Live(res', a), sessions'[res'[a].node].id # 0
        PROVE  sessions'[res'[a].node].ready
    <3>1. CASE res'[a].node = n
      BY <2>1, <2>3, <3>1 DEF Registered
    <3>2. CASE res'[a].node # n
      <4>1. KeptRow(a)
        BY <2>1, <3>2 DEF ReportedRow
      <4>2. res[a].node \in Nodes /\ res'[a].node = res[a].node /\ Live(res, a)
        BY <1>3, <2>3, <4>1 DEF KeptRow
      <4> QED BY <1>1, <2>1, <2>3, <3>2, <4>2 DEF LiveWhenReady, Registered
    <3> QED BY <3>1, <3>2
  <2>4. ASSUME NEW a \in Attempts, res'[a].phase # "none",
               ~Inert(res', fences', a)
        PROVE  sessions'[res'[a].node].id # 0 => Replayable(TaskOf(a))
    <3>1. res'[a].node \in Nodes /\ ReplayRequestAllowed(res'[a].node, TaskOf(a))
      <4>1. CASE res'[a].node = res[a].node
        BY <1>1, <2>4, <4>1, AllowedBefore
      <4>2. CASE res'[a].node # res[a].node
        BY <2>1, <4>2 DEF ReportedRow, KeptRow
      <4> QED BY <4>1, <4>2
    <3> QED BY <2>1, <3>1 DEF ReplayRequestAllowed, Registered, Replayable
  <2>5. LiveWhenReady' /\ OnlyReplayable'
    BY <2>3, <2>4 DEF LiveWhenReady, OnlyReplayable, Registered,
                      ReplayRequestAllowed, Replayable
  <2> QED BY <2>2, <2>5 DEF SessionInvariant
<1>6. ASSUME NEW n \in Nodes, NEW boot, NEW s, Replaced(n, boot, s)
      PROVE  SessionInvariant'
  <2>1. /\ sessions'[n].id = s /\ s \notin retired'[n]
        /\ \A m \in Nodes : m # n => /\ sessions'[m] = sessions[m]
                                     /\ retired'[m] = retired[m]
        /\ \A a \in Attempts : /\ KeptRow(a)
                               /\ res[a].node = n => Inert(res', fences', a)
    BY <1>1, <1>6 DEF Replaced
  <2>2. RetiredNeverCurrent'
    BY <1>1, <2>1 DEF RetiredNeverCurrent
  <2>3. ASSUME NEW a \in Attempts, Live(res', a), sessions'[res'[a].node].id # 0
        PROVE  sessions'[res'[a].node].ready
    <3>1. Live(res, a) /\ res'[a].node = res[a].node /\ res[a].node # n
      BY <1>2, <2>1, <2>3 DEF KeptRow
    <3>2. res[a].node \in Nodes
      BY <1>3, <2>3, <3>1
    <3> QED BY <1>1, <2>1, <2>3, <3>1, <3>2 DEF LiveWhenReady, Registered
  <2>4. ASSUME NEW a \in Attempts, res'[a].phase # "none",
               ~Inert(res', fences', a)
        PROVE  sessions'[res'[a].node].id # 0 => Replayable(TaskOf(a))
    <3>1. res'[a].node = res[a].node /\ res[a].node # n
      BY <2>1, <2>4 DEF KeptRow
    <3>2. res[a].node \in Nodes /\ ReplayRequestAllowed(res[a].node, TaskOf(a))
      BY <1>1, <2>4, <3>1, AllowedBefore
    <3> QED BY <2>1, <3>1, <3>2 DEF ReplayRequestAllowed, Registered, Replayable
  <2>5. LiveWhenReady' /\ OnlyReplayable'
    BY <2>3, <2>4 DEF LiveWhenReady, OnlyReplayable, Registered,
                      ReplayRequestAllowed, Replayable
  <2> QED BY <2>2, <2>5 DEF SessionInvariant
<1> QED BY <1>4, <1>5, <1>6 DEF SessionStep

(***************************************************************************)
(* The invariant of the sessions, kept by every report, registration and   *)
(* restart.                                                                *)
(***************************************************************************)
THEOREM SessionInductive == Spec => []SessionInvariant
<1>1. Init => SessionInvariant
  <2> SUFFICES ASSUME Init PROVE SessionInvariant
    OBVIOUS
  <2>1. /\ \A a \in Attempts : res[a] = NoReservation
        /\ \A n \in Nodes : retired[n] = {}
    BY DEF Init
  <2> QED BY <2>1 DEF SessionInvariant, RetiredNeverCurrent, LiveWhenReady,
                      OnlyReplayable, Live, NoReservation
<1>2. TypeOK /\ AuthorityInvariant /\ AuthorityInvariant' /\ LedgerInvariant
        /\ SessionInvariant /\ [Next]_vars => SessionInvariant'
  <2> SUFFICES ASSUME TypeOK, AuthorityInvariant, AuthorityInvariant',
                      LedgerInvariant, SessionInvariant, [Next]_vars
               PROVE  SessionInvariant'
    OBVIOUS
  <2>1. RowsOf(res) /\ RowsOf(res)'
    BY DEF AuthorityInvariant, SafeTables
  <2>2. LedgerStep /\ SessionStep
    BY EveryLedgerStep, EverySessionStep
  <2> QED BY <2>1, <2>2, SessionStays
<1> QED BY <1>1, <1>2, Typing, AuthorityInductive, LedgerInductive, PTL DEF Spec

(***************************************************************************)
(* A node with replayable storage runs nothing until its recovery report   *)
(* is complete, and then only replay-safe opportunistic work; a retired    *)
(* session is never current again (open_replay_session,                    *)
(* validate_node_session, grant, schedule).                                *)
(***************************************************************************)
THEOREM ReplayDisciplined == Spec => []ReplayDiscipline
<1>1. SessionInvariant => ReplayDiscipline
  <2> SUFFICES ASSUME SessionInvariant PROVE ReplayDiscipline
    OBVIOUS
  <2>1. \A a \in Attempts : Live(res, a) =>
          res[a].phase # "none" /\ ~Inert(res, fences, a)
    BY DEF Live, Inert
  <2> QED BY <2>1 DEF SessionInvariant, RetiredNeverCurrent, LiveWhenReady,
                      OnlyReplayable, ReplayDiscipline
<1> QED BY <1>1, SessionInductive, PTL
=============================================================================
