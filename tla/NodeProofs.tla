----------------------------- MODULE NodeProofs -----------------------------
(***************************************************************************)
(* The journal of one node, for every number of assignments, children,     *)
(* boots and agents: every table keeps its type, a release is final, and a *)
(* recorded identity or recovery mark is never lost.                       *)
(*                                                                         *)
(* The lemmas say what each action does to the rows it touches, field by   *)
(* field; the invariants further down rest on them.                        *)
(***************************************************************************)
EXTENDS NodeExecution, TLAPS

-----------------------------------------------------------------------------
(* Rows.                                                                   *)

SupRow == [step : SupervisorSteps, identity : 0..MaxBoot,
           drain : BOOLEAN, seen : BOOLEAN, clean : BOOLEAN]
ChildRow == [phase : ExecutionPhases, identity : 0..MaxBoot]
TaskRow == [status : {"queued", "assigned", "needs_reconciliation"},
            generation : Nat]
PassRow == [on : BOOLEAN, at : SUBSET Assignments, left : SUBSET Assignments,
            kids : SUBSET (Children \X (0..MaxBoot)), released : BOOLEAN,
            snapshot : [Assignments -> Records]]

\* The current boot is a proper identity.
LEMMA BootRange ==
  ASSUME TypeOK
  PROVE  boot \in 0..MaxBoot /\ boot \in Nat \ {0} /\ MaxBoot \in Nat
<1>1. profile.boots \in 1..MaxBoot /\ MaxBoot \in Nat
  BY RequestAssumption DEF TypeOK
<1> QED BY <1>1 DEF TypeOK

\* The tables, with their row types by name.
LEMMA Rows ==
  ASSUME TypeOK
  PROVE  /\ sup \in [Assignments -> SupRow]
         /\ family \in [Children -> ChildRow]
         /\ tasks \in [Tasks -> TaskRow]
         /\ record \in [Assignments -> Records]
         /\ pass \in PassRow
BY DEF TypeOK, SupRow, ChildRow, TaskRow, PassRow

\* Every child belongs to an assignment that may have children.
LEMMA ParentIsAssignment ==
  ASSUME NEW c \in Children
  PROVE  ParentOf(c) \in Assignments /\ c \in ChildrenOf(ParentOf(c))
         /\ ChildLimit[ParentOf(c)] > 0
BY DEF Children, ParentOf, ChildrenOf

\* Only the supervisor of a moves.
OthersWait(a) == \A b \in Assignments \ {a} : sup'[b] = sup[b]

\* The supervisor of a goes to step, and knows what it knew.
GoesTo(a, step) ==
    /\ sup' \in [Assignments -> SupRow]
    /\ OthersWait(a)
    /\ sup'[a].step = step
    /\ sup'[a].identity = sup[a].identity
    /\ sup'[a].drain = sup[a].drain
    /\ sup'[a].seen = sup[a].seen
    /\ sup'[a].clean = sup[a].clean

\* A supervisor that only moves on.
LEMMA GotoRow ==
  ASSUME TypeOK, NEW a \in Assignments, NEW step \in SupervisorSteps, Goto(a, step)
  PROVE  GoesTo(a, step)
<1>1. sup \in [Assignments -> SupRow] /\ sup[a] \in SupRow
  BY Rows
<1>2. sup' = [sup EXCEPT ![a].step = step]
  BY DEF Goto
<1>3. sup' \in [Assignments -> SupRow]
  BY <1>1, <1>2 DEF SupRow
<1> QED BY <1>1, <1>2, <1>3 DEF GoesTo, OthersWait, SupRow

\* The gate named itself: the supervisor takes the identity of this boot.
LEMMA IdentifyRow ==
  ASSUME TypeOK, NEW a \in Assignments,
         sup' = [sup EXCEPT ![a].step = "identified", ![a].identity = boot]
  PROVE  /\ sup' \in [Assignments -> SupRow] /\ OthersWait(a)
         /\ sup'[a].step = "identified" /\ sup'[a].identity = boot
         /\ sup'[a].seen = sup[a].seen /\ sup'[a].clean = sup[a].clean
<1>1. sup \in [Assignments -> SupRow] /\ sup[a] \in SupRow
  BY Rows
<1>2. boot \in 0..MaxBoot
  BY BootRange
<1>3. "identified" \in SupervisorSteps
  BY DEF SupervisorSteps
<1>4. sup' \in [Assignments -> SupRow]
  BY <1>1, <1>2, <1>3 DEF SupRow
<1> QED BY <1>1, <1>4 DEF OthersWait, SupRow

\* A drain request changes nothing else of a supervisor.
LEMMA DrainRow ==
  ASSUME TypeOK, NEW a \in Assignments, sup' = [sup EXCEPT ![a].drain = TRUE]
  PROVE  /\ sup' \in [Assignments -> SupRow] /\ OthersWait(a)
         /\ sup'[a].step = sup[a].step /\ sup'[a].identity = sup[a].identity
         /\ sup'[a].seen = sup[a].seen /\ sup'[a].clean = sup[a].clean
<1>1. sup \in [Assignments -> SupRow] /\ sup[a] \in SupRow
  BY Rows
<1>2. sup' \in [Assignments -> SupRow]
  BY <1>1 DEF SupRow
<1> QED BY <1>1, <1>2 DEF OthersWait, SupRow

\* Nor does the observed exit of the leader.
LEMMA SeenRow ==
  ASSUME TypeOK, NEW a \in Assignments, sup' = [sup EXCEPT ![a].seen = TRUE]
  PROVE  /\ sup' \in [Assignments -> SupRow] /\ OthersWait(a)
         /\ sup'[a].step = sup[a].step /\ sup'[a].identity = sup[a].identity
         /\ sup'[a].seen /\ sup'[a].clean = sup[a].clean
<1>1. sup \in [Assignments -> SupRow] /\ sup[a] \in SupRow
  BY Rows
<1>2. sup' \in [Assignments -> SupRow]
  BY <1>1 DEF SupRow
<1> QED BY <1>1, <1>2 DEF OthersWait, SupRow

\* After the kill of the leader the supervisor is cleaning up.
LEMMA CleaningRow ==
  ASSUME TypeOK, NEW a \in Assignments, NEW clean \in BOOLEAN,
         sup' = [sup EXCEPT ![a].step = "cleaning", ![a].clean = clean]
  PROVE  /\ sup' \in [Assignments -> SupRow] /\ OthersWait(a)
         /\ sup'[a].step = "cleaning" /\ sup'[a].identity = sup[a].identity
         /\ sup'[a].seen = sup[a].seen /\ sup'[a].clean = clean
<1>1. sup \in [Assignments -> SupRow] /\ sup[a] \in SupRow
  BY Rows
<1>2. "cleaning" \in SupervisorSteps
  BY DEF SupervisorSteps
<1>3. sup' \in [Assignments -> SupRow]
  BY <1>1, <1>2 DEF SupRow
<1> QED BY <1>1, <1>3 DEF OthersWait, SupRow

\* What the kill of a child says of the cleanup.
LEMMA CleanRow ==
  ASSUME TypeOK, NEW a \in Assignments, NEW clean \in BOOLEAN,
         sup' = [sup EXCEPT ![a].clean = clean]
  PROVE  /\ sup' \in [Assignments -> SupRow] /\ OthersWait(a)
         /\ sup'[a].step = sup[a].step /\ sup'[a].identity = sup[a].identity
         /\ sup'[a].seen = sup[a].seen /\ sup'[a].clean = clean
<1>1. sup \in [Assignments -> SupRow] /\ sup[a] \in SupRow
  BY Rows
<1>2. sup' \in [Assignments -> SupRow]
  BY <1>1 DEF SupRow
<1> QED BY <1>1, <1>2 DEF OthersWait, SupRow

\* An exit ends the supervisors of A, and forgets their children.
LEMMA ExitRows ==
  ASSUME TypeOK, NEW A, Exit(A)
  PROVE  /\ sup' \in [Assignments -> SupRow]
         /\ mediated' \in [Children -> MediatedPhases]
         /\ \A a \in Assignments :
              /\ a \in A => /\ sup'[a].step = "exited" /\ sup'[a].identity = 0
                            /\ ~sup'[a].seen
              /\ a \notin A => sup'[a] = sup[a]
         /\ \A c \in Children :
              mediated'[c] = IF ParentOf(c) \in A THEN "none" ELSE mediated[c]
<1> DEFINE e == [NoSupervisor EXCEPT !.step = "exited"]
<1>1. NoSupervisor \in SupRow
  <2>1. MaxBoot \in Nat
    BY RequestAssumption
  <2> QED BY <2>1 DEF NoSupervisor, SupRow, SupervisorSteps
<1>2. NoSupervisor.identity = 0 /\ ~NoSupervisor.seen
  BY DEF NoSupervisor
<1>3. e \in SupRow /\ e.step = "exited" /\ e.identity = 0 /\ ~e.seen
  BY <1>1, <1>2 DEF SupRow, SupervisorSteps
<1>4. sup' = [a \in Assignments |-> IF a \in A THEN e ELSE sup[a]]
  BY DEF Exit
<1> HIDE DEF e
<1>5. sup \in [Assignments -> SupRow]
  BY Rows
<1>6. /\ sup' \in [Assignments -> SupRow]
      /\ \A a \in Assignments : sup'[a] = IF a \in A THEN e ELSE sup[a]
  BY <1>3, <1>4, <1>5
<1>7. mediated' = [c \in Children |-> IF ParentOf(c) \in A THEN "none"
                                     ELSE mediated[c]]
  BY DEF Exit
<1>8. mediated' \in [Children -> MediatedPhases]
  BY <1>7 DEF TypeOK, MediatedPhases
<1> QED BY <1>3, <1>6, <1>7, <1>8

\* Only the record of a is written, as new.
Writes(a, new) ==
    /\ record' \in [Assignments -> Records]
    /\ record'[a] = new
    /\ \A b \in Assignments \ {a} : record'[b] = record[b]

\* A write of a whole record.
LEMMA RecordWritten ==
  ASSUME TypeOK, NEW a \in Assignments, NEW new \in Records,
         record' = [record EXCEPT ![a] = new]
  PROVE  Writes(a, new)
BY Rows DEF Writes

\* What a supervisor writes: its own identity, and no marks.
LEMMA WriteTyped ==
  ASSUME TypeOK, NEW a \in Assignments, NEW phase \in ExecutionPhases
  PROVE  /\ Write(a, phase) \in Records
         /\ Write(a, phase).phase = phase
         /\ Write(a, phase).identity = sup[a].identity
         /\ Write(a, phase).marks = {}
<1>1. sup[a].identity \in 0..MaxBoot
  BY Rows DEF SupRow
<1> QED BY <1>1 DEF Write, Records

\* An accepted phase of the launch or of the drain.
LEMMA JournalsRow ==
  ASSUME TypeOK, NEW a \in Assignments,
         NEW phase \in {"prepared", "authorized", "running", "draining"},
         Journals(a, phase)
  PROVE  /\ Accepts(a, Write(a, phase)) /\ Writes(a, Write(a, phase))
         /\ GoesTo(a, phase)
<1>1. Write(a, phase) \in Records
  BY WriteTyped DEF ExecutionPhases
<1>2. GoesTo(a, phase)
  BY GotoRow DEF Journals, SupervisorSteps
<1> QED BY <1>1, <1>2, RecordWritten DEF Journals

\* The reservation keeps what a fresh record says of identity and marks.
LEMMA ReservedRow ==
  ASSUME TypeOK, NEW a \in Assignments,
         record' = [record EXCEPT ![a].phase = "reserved"]
  PROVE  /\ record' \in [Assignments -> Records]
         /\ record'[a].phase = "reserved"
         /\ record'[a].identity = record[a].identity
         /\ record'[a].marks = record[a].marks
         /\ \A b \in Assignments \ {a} : record'[b] = record[b]
<1>1. record \in [Assignments -> Records] /\ record[a] \in Records
  BY Rows
<1>2. "reserved" \in ExecutionPhases
  BY DEF ExecutionPhases
<1>3. record' \in [Assignments -> Records]
  BY <1>1, <1>2 DEF Records
<1> QED BY <1>1, <1>3 DEF Records

\* Only the row of c in the child registry changes, to phase.
ChildGoesTo(c, phase) ==
    /\ family' \in [Children -> ChildRow]
    /\ family'[c].phase = phase
    /\ family'[c].identity = family[c].identity
    /\ \A d \in Children \ {c} : family'[d] = family[d]

\* An accepted phase of a child keeps its identity.
LEMMA ChildPhaseRow ==
  ASSUME TypeOK, NEW c \in Children, NEW phase \in ExecutionPhases,
         family' = [family EXCEPT ![c].phase = phase]
  PROVE  ChildGoesTo(c, phase)
<1>1. family \in [Children -> ChildRow] /\ family[c] \in ChildRow
  BY Rows
<1>2. family' \in [Children -> ChildRow]
  BY <1>1 DEF ChildRow
<1> QED BY <1>1, <1>2 DEF ChildGoesTo, ChildRow

\* A confirmed kill leaves nothing of the process.
LEMMA Killed ==
  ASSUME NEW S, NEW P \in [S -> ProcessStates], NEW x \in S, NEW confirmed \in BOOLEAN
  PROVE  /\ AfterKill(P, x, confirmed) \in [S -> ProcessStates]
         /\ \A y \in S \ {x} : AfterKill(P, x, confirmed)[y] = P[y]
         /\ AfterKill(P, x, confirmed)[x] \in {P[x], "dead"}
         /\ confirmed => ~Living(AfterKill(P, x, confirmed)[x])
BY DEF AfterKill, ProcessStates, Living

-----------------------------------------------------------------------------
(* Types.                                                                  *)

\* The tables a supervisor and its leader write.
OwnTables ==
    /\ record \in [Assignments -> Records] /\ tasks \in [Tasks -> TaskRow]
    /\ sup \in [Assignments -> SupRow] /\ mediated \in [Children -> MediatedPhases]
    /\ leader \in [Assignments -> ProcessStates]

\* A supervisor, from its reservation to its exit.
LEMMA SupervisorTyped ==
  ASSUME TypeOK, NEW a \in Assignments, SupervisorNext(a)
  PROVE  TypeOK'
<1> USE DEF journal, owner, processes, host, service, remote
<1> DEFINE Frame == UNCHANGED <<family, worker, host, service, remote>>
<1> SUFFICES Frame /\ OwnTables'
  BY DEF OwnTables, TypeOK, SupRow, TaskRow
<1>0. OwnTables
  BY Rows DEF OwnTables, TypeOK
<1>1. CASE Reserve(a)
  <2>1. Generation[a] \in Nat /\ TaskOf[a] \in Tasks
    BY RequestAssumption DEF Tasks
  <2>2. GoesTo(a, "reserved")
    BY <1>1, GotoRow DEF Reserve, SupervisorSteps
  <2>3. record' \in [Assignments -> Records]
    BY <1>1, ReservedRow DEF Reserve
  <2>4. tasks' \in [Tasks -> TaskRow]
    BY <1>1, <2>1, Rows DEF Reserve, TaskRow
  <2> QED BY <1>0, <1>1, <2>2, <2>3, <2>4 DEF Reserve, OwnTables, GoesTo
<1>2. CASE ReserveRefused(a) \/ Finish(a)
  BY <1>0, <1>2, ExitRows, WriteTyped, RecordWritten
     DEF ReserveRefused, Finish, OwnTables, Writes, ExecutionPhases
<1>3. CASE SpawnGate(a) \/ SendExec(a)
  <2>1. sup' \in [Assignments -> SupRow]
    BY <1>3, GotoRow DEF SpawnGate, SendExec, GoesTo, SupervisorSteps
  <2>2. leader' \in [Assignments -> ProcessStates]
    BY <1>0, <1>3 DEF SpawnGate, SendExec, OwnTables, ProcessStates
  <2> QED BY <1>0, <1>3, <2>1, <2>2 DEF SpawnGate, SendExec, OwnTables
<1>4. CASE Identify(a)
  BY <1>0, <1>4, IdentifyRow DEF Identify, OwnTables
<1>5. CASE WritePrepared(a) \/ WriteAuthorized(a) \/ WriteRunning(a)
             \/ WriteDraining(a)
  BY <1>0, <1>5, JournalsRow
     DEF WritePrepared, WriteAuthorized, WriteRunning, WriteDraining,
         OwnTables, Writes, GoesTo
<1>6. CASE Grant(a) \/ Fail(a)
  BY <1>0, <1>6, GotoRow DEF Grant, Fail, OwnTables, GoesTo, SupervisorSteps
<1>7. CASE AskDrain(a) \/ ObserveExit(a)
  BY <1>0, <1>7, DrainRow, SeenRow DEF AskDrain, ObserveExit, OwnTables
<1>8. ASSUME NEW confirmed \in BOOLEAN, CleanupLeader(a, confirmed)
      PROVE  Frame /\ OwnTables'
  <2> DEFINE clean == confirmed \/ leader[a] = "none"
  <2>1. leader' \in [Assignments -> ProcessStates]
    BY <1>0, <1>8, Killed DEF CleanupLeader, OwnTables
  <2>2. sup' \in [Assignments -> SupRow]
    <3>1. clean \in BOOLEAN
      OBVIOUS
    <3>2. sup' = [sup EXCEPT ![a].step = "cleaning", ![a].clean = clean]
      BY <1>8 DEF CleanupLeader
    <3> HIDE DEF clean
    <3> QED BY <3>1, <3>2, CleaningRow
  <2> QED BY <1>0, <1>8, <2>1, <2>2 DEF CleanupLeader, OwnTables
<1>9. ASSUME NEW confirmed \in BOOLEAN, CleanupRecord(a, confirmed)
      PROVE  Frame /\ OwnTables'
  <2>1. \A phase \in {"released", "needs_reconciliation"} :
          Write(a, phase) \in Records
    BY WriteTyped DEF ExecutionPhases
  <2>2. record' \in [Assignments -> Records]
    BY <1>0, <1>9, <2>1 DEF CleanupRecord, OwnTables
  <2> QED BY <1>0, <1>9, <2>2, ExitRows DEF CleanupRecord, OwnTables
<1> QED BY <1>1, <1>2, <1>3, <1>4, <1>5, <1>6, <1>7, <1>8, <1>9 DEF SupervisorNext

\* The tables that its children change.
FamilyTables ==
    /\ family \in [Children -> ChildRow] /\ sup \in [Assignments -> SupRow]
    /\ mediated \in [Children -> MediatedPhases]
    /\ worker \in [Children -> ProcessStates]

\* A tick journals and remembers one phase.
LEMMA TickRow ==
  ASSUME TypeOK, NEW c \in Children,
         NEW phase \in {"authorized", "running", "draining", "released"},
         TicksChild(c, phase)
  PROVE  /\ ChildAccepts(c, phase) /\ ChildGoesTo(c, phase)
         /\ mediated' \in [Children -> MediatedPhases]
         /\ mediated'[c] = phase
         /\ \A d \in Children \ {c} : mediated'[d] = mediated[d]
<1>1. phase \in ExecutionPhases /\ phase \in MediatedPhases
  BY DEF ExecutionPhases, MediatedPhases
<1>2. ChildGoesTo(c, phase)
  BY <1>1, ChildPhaseRow DEF TicksChild
<1>3. mediated \in [Children -> MediatedPhases]
  BY DEF TypeOK
<1> QED BY <1>1, <1>2, <1>3 DEF TicksChild

\* A prepared child is identified by this boot.
LEMMA PreparedChildRow ==
  ASSUME TypeOK, NEW c \in Children,
         family' = [family EXCEPT ![c] = [phase |-> "prepared", identity |-> boot]]
  PROVE  /\ family' \in [Children -> ChildRow]
         /\ family'[c].phase = "prepared" /\ family'[c].identity = boot
         /\ \A d \in Children \ {c} : family'[d] = family[d]
<1>1. family \in [Children -> ChildRow] /\ boot \in 0..MaxBoot
  BY Rows, BootRange
<1>2. "prepared" \in ExecutionPhases
  BY DEF ExecutionPhases
<1>3. [phase |-> "prepared", identity |-> boot] \in ChildRow
  BY <1>1, <1>2 DEF ChildRow
<1> QED BY <1>1, <1>3

\* A cleanup that the journal accepts touches one child; a refused one gives
\* up those that are left.
LEMMA CleanupRows ==
  ASSUME TypeOK, NEW c \in Children, NEW confirmed \in BOOLEAN,
         CleanupChild(c, confirmed)
  PROVE  /\ sup' \in [Assignments -> SupRow] /\ OthersWait(ParentOf(c))
         /\ sup'[ParentOf(c)].step = "cleaning"
         /\ sup'[ParentOf(c)].identity = sup[ParentOf(c)].identity
         /\ sup'[ParentOf(c)].seen = sup[ParentOf(c)].seen
         /\ sup'[ParentOf(c)].clean => sup[ParentOf(c)].clean
         /\ mediated' \in [Children -> MediatedPhases]
         /\ \A d \in Children : mediated'[d] \in {mediated[d], "released", "lost"}
         /\ \A d \in Children : ParentOf(d) # ParentOf(c) => mediated'[d] = mediated[d]
         /\ worker' = AfterKill(worker, c, confirmed)
         /\ \/ /\ ChildAccepts(c, Verdict(confirmed))
               /\ ChildGoesTo(c, Verdict(confirmed))
            \/ UNCHANGED family
<1> DEFINE a == ParentOf(c)
           phase == IF confirmed THEN "released" ELSE "needs_reconciliation"
           unfinished == {d \in ChildrenOf(a) :
                            mediated[d] \notin {"none", "released", "lost"}}
<1>1. a \in Assignments /\ At(a, "cleaning") /\ c \in unfinished
      /\ worker' = AfterKill(worker, c, confirmed)
  BY ParentIsAssignment DEF CleanupChild
<1>2. sup[a] \in SupRow /\ mediated \in [Children -> MediatedPhases]
  BY <1>1, Rows DEF TypeOK
<1>3. phase \in ExecutionPhases /\ phase = Verdict(confirmed)
  BY DEF ExecutionPhases, Verdict
<1>4. CASE ChildAccepts(c, phase)
  <2> DEFINE clean == sup[a].clean /\ confirmed
  <2>1. clean \in BOOLEAN
    OBVIOUS
  <2>2. /\ family' = [family EXCEPT ![c].phase = phase]
        /\ mediated' = [mediated EXCEPT ![c] = IF confirmed THEN "released"
                                               ELSE "lost"]
        /\ sup' = [sup EXCEPT ![a].clean = clean]
    BY <1>4 DEF CleanupChild
  <2>3. ChildGoesTo(c, phase)
    BY <1>3, <2>2, ChildPhaseRow
  <2> HIDE DEF clean, phase
  <2>4. /\ sup' \in [Assignments -> SupRow] /\ OthersWait(a)
        /\ sup'[a].step = sup[a].step /\ sup'[a].identity = sup[a].identity
        /\ sup'[a].seen = sup[a].seen /\ sup'[a].clean = clean
    BY <1>1, <2>1, <2>2, CleanRow
  <2>5. clean => sup[a].clean
    BY DEF clean
  <2>6. /\ mediated' \in [Children -> MediatedPhases]
        /\ \A d \in Children : mediated'[d] \in {mediated[d], "released", "lost"}
        /\ \A d \in Children \ {c} : mediated'[d] = mediated[d]
    BY <1>2, <2>2 DEF MediatedPhases
  <2> QED BY <1>1, <1>3, <1>4, <2>3, <2>4, <2>5, <2>6 DEF At
<1>5. CASE ~ChildAccepts(c, phase)
  <2>1. /\ mediated' = [d \in Children |-> IF d \in unfinished THEN "lost"
                                           ELSE mediated[d]]
        /\ sup' = [sup EXCEPT ![a].clean = FALSE] /\ UNCHANGED family
    BY <1>5 DEF CleanupChild
  <2>2. /\ sup' \in [Assignments -> SupRow] /\ OthersWait(a)
        /\ sup'[a].step = sup[a].step /\ sup'[a].identity = sup[a].identity
        /\ sup'[a].seen = sup[a].seen /\ sup'[a].clean = FALSE
    BY <1>1, <2>1, CleanRow
  <2>3. /\ mediated' \in [Children -> MediatedPhases]
        /\ \A d \in Children : mediated'[d] \in {mediated[d], "released", "lost"}
    BY <1>2, <2>1 DEF MediatedPhases
  <2>4. \A d \in Children : ParentOf(d) # a => mediated'[d] = mediated[d]
    BY <2>1 DEF ChildrenOf
  <2> QED BY <1>1, <2>1, <2>2, <2>3, <2>4 DEF At
<1> QED BY <1>4, <1>5

\* A managed child, from its creation to its end.
LEMMA ChildTyped ==
  ASSUME TypeOK, NEW c \in Children, ChildNext(c)
  PROVE  TypeOK'
<1> USE DEF journal, owner, processes, host, service, remote
<1> DEFINE Frame == UNCHANGED <<record, tasks, leader, host, service, remote>>
           a == ParentOf(c)
<1> SUFFICES Frame /\ FamilyTables'
  BY DEF FamilyTables, TypeOK, SupRow, ChildRow
<1>0. FamilyTables /\ a \in Assignments
  BY Rows, ParentIsAssignment DEF FamilyTables, TypeOK
<1>1. CASE PrepareChild(c)
  BY <1>0, <1>1, PreparedChildRow
     DEF PrepareChild, FamilyTables, MediatedPhases
<1>2. CASE AuthorizeChild(c) \/ RunChild(c) \/ DrainChild(c) \/ ReapChild(c)
  <2>1. PICK phase \in {"authorized", "running", "draining", "released"} :
          TicksChild(c, phase)
    BY <1>2 DEF AuthorizeChild, RunChild, DrainChild, ReapChild
  <2> QED BY <1>0, <2>1, TickRow DEF TicksChild, ChildGoesTo, FamilyTables
<1>3. CASE ExecChild(c)
  BY <1>0, <1>3 DEF ExecChild, FamilyTables, MediatedPhases, ProcessStates
<1>4. ASSUME NEW flag \in BOOLEAN, CreateChild(c, flag)
      PROVE  Frame /\ FamilyTables'
  <2>1. \A phase \in {"reserved", "released"} : phase \in ExecutionPhases
    BY DEF ExecutionPhases
  <2>2. family' \in [Children -> ChildRow]
    BY <1>4, <2>1, ChildPhaseRow DEF CreateChild, ChildGoesTo
  <2> QED BY <1>0, <1>4, <2>2
          DEF CreateChild, FamilyTables, MediatedPhases, ProcessStates
<1>5. ASSUME NEW flag \in BOOLEAN, FailChild(c, flag)
      PROVE  Frame /\ FamilyTables'
  <2>1. \A phase \in {"needs_reconciliation", "released"} : phase \in ExecutionPhases
    BY DEF ExecutionPhases
  <2>2. family' \in [Children -> ChildRow]
    BY <1>5, <2>1, ChildPhaseRow DEF FailChild, ChildGoesTo
  <2>3. worker' \in [Children -> ProcessStates]
    BY <1>0, <1>5, Killed DEF FailChild, FamilyTables
  <2>4. sup' \in [Assignments -> SupRow]
    BY <1>0, <1>5, GotoRow DEF FailChild, GoesTo, FamilyTables, SupervisorSteps
  <2>5. mediated' \in [Children -> MediatedPhases]
    BY <1>0, <1>5 DEF FailChild, FamilyTables, MediatedPhases
  <2> QED BY <1>5, <2>2, <2>3, <2>4, <2>5 DEF FailChild, FamilyTables
<1>6. ASSUME NEW flag \in BOOLEAN, CleanupChild(c, flag)
      PROVE  Frame /\ FamilyTables'
  <2>1. worker' \in [Children -> ProcessStates]
    BY <1>0, <1>6, CleanupRows, Killed DEF FamilyTables
  <2>2. family' \in [Children -> ChildRow]
    BY <1>0, <1>6, CleanupRows DEF ChildGoesTo, FamilyTables
  <2>3. Frame
    BY <1>6 DEF CleanupChild
  <2> QED BY <1>6, <2>1, <2>2, <2>3, CleanupRows DEF FamilyTables
<1> QED BY <1>1, <1>2, <1>3, <1>4, <1>5, <1>6 DEF ChildNext

\* Nothing is read between passes.
LEMMA IdleRow ==
  ASSUME TypeOK
  PROVE  /\ NoRecord \in Records /\ NoRecord.phase = "none"
         /\ NoRecord.identity = 0 /\ NoRecord.marks = {}
         /\ Idle \in PassRow /\ Idle.at = {} /\ Idle.left = {} /\ Idle.kids = {}
         /\ Idle.released = FALSE /\ Idle.snapshot = [a \in Assignments |-> NoRecord]
<1>1. /\ NoRecord \in Records /\ NoRecord.phase = "none"
      /\ NoRecord.identity = 0 /\ NoRecord.marks = {}
  BY BootRange DEF NoRecord, Records, ExecutionPhases
<1>2. [a \in Assignments |-> NoRecord] \in [Assignments -> Records]
  BY <1>1
<1> HIDE DEF NoRecord
<1> QED BY <1>1, <1>2 DEF Idle, PassRow

\* A pass begins with what the records say now.
LEMMA ReadsRow ==
  ASSUME TypeOK, NEW excluded, Reads(excluded)
  PROVE  /\ pass' \in PassRow /\ pass'.at = {} /\ pass'.kids = {}
         /\ pass'.released = FALSE
         /\ pass'.left \cap excluded = {}
         /\ \A a \in Assignments : pass'.snapshot[a] \in {record[a], NoRecord}
<1> DEFINE left == {a \in Assignments \ excluded : Held(a)}
           snapshot == [a \in Assignments |-> IF a \in left THEN record[a]
                                              ELSE NoRecord]
<1>1. pass' = [Idle EXCEPT !.on = TRUE, !.left = left, !.snapshot = snapshot]
  BY DEF Reads
<1>2. left \in SUBSET Assignments /\ left \cap excluded = {}
  OBVIOUS
<1>3. /\ snapshot \in [Assignments -> Records]
      /\ \A a \in Assignments : snapshot[a] \in {record[a], NoRecord}
  BY IdleRow, Rows
<1>4. Idle \in PassRow /\ Idle.at = {} /\ Idle.kids = {} /\ Idle.released = FALSE
  BY IdleRow
<1> HIDE DEF left, snapshot
<1> QED BY <1>1, <1>2, <1>3, <1>4 DEF PassRow

\* A decision about a leader, or about one of its children.
LEMMA DecisionRow ==
  ASSUME TypeOK, NEW at \in SUBSET Assignments, NEW left \in SUBSET Assignments,
         NEW kids \in SUBSET (Children \X (0..MaxBoot)), NEW released \in BOOLEAN,
         pass' = [pass EXCEPT !.at = at, !.left = left, !.released = released,
                              !.kids = kids]
  PROVE  /\ pass' \in PassRow /\ pass'.at = at /\ pass'.left = left
         /\ pass'.kids = kids /\ pass'.released = released
         /\ pass'.snapshot = pass.snapshot
BY Rows DEF PassRow

\* A decision about one child of the leader being decided.
LEMMA KidRow ==
  ASSUME TypeOK, NEW kids \in SUBSET (Children \X (0..MaxBoot)),
         NEW released \in BOOLEAN,
         pass' = [pass EXCEPT !.kids = kids, !.released = released]
  PROVE  /\ pass' \in PassRow /\ pass'.at = pass.at /\ pass'.left = pass.left
         /\ pass'.kids = kids /\ pass'.released = released
         /\ pass'.snapshot = pass.snapshot
BY Rows DEF PassRow

\* The decision about a leader is written: its snapshot is dropped.
LEMMA DecidedRow ==
  ASSUME TypeOK, NEW a \in Assignments,
         pass' = [pass EXCEPT !.at = {}, !.released = FALSE,
                              !.snapshot[a] = NoRecord]
  PROVE  /\ pass' \in PassRow /\ pass'.at = {} /\ pass'.left = pass.left
         /\ pass'.kids = pass.kids /\ pass'.released = FALSE
         /\ \A b \in Assignments :
              pass'.snapshot[b] = IF b = a THEN NoRecord ELSE pass.snapshot[b]
<1>1. /\ pass \in PassRow /\ pass.snapshot \in [Assignments -> Records]
      /\ NoRecord \in Records
  BY Rows, IdleRow DEF PassRow
<1> DEFINE s == [pass.snapshot EXCEPT ![a] = NoRecord]
<1>2. pass' = [pass EXCEPT !.at = {}, !.released = FALSE, !.snapshot = s]
  OBVIOUS
<1>3. /\ s \in [Assignments -> Records]
      /\ \A b \in Assignments : s[b] = IF b = a THEN NoRecord ELSE pass.snapshot[b]
  BY <1>1
<1> HIDE DEF s
<1> QED BY <1>1, <1>2, <1>3 DEF PassRow

\* What reconciliation writes back.
LEMMA ReconciledRow ==
  ASSUME TypeOK, NEW a \in Assignments
  PROVE  /\ Reconciled(a) \in Records
         /\ Reconciled(a).phase = Verdict(pass.released)
         /\ Reconciled(a).identity = pass.snapshot[a].identity
<1>1. pass.snapshot[a] \in Records
  BY Rows DEF PassRow
<1>2. Verdict(pass.released) \in ExecutionPhases
  BY DEF Verdict, ExecutionPhases
<1>3. MarksOf(a) \in SUBSET Marks
  BY <1>1 DEF MarksOf, Marks, Records
<1> QED BY <1>1, <1>2, <1>3 DEF Reconciled, Records

\* An imported record is in doubt and carries what the coordinator knew.
LEMMA ImportedRow ==
  ASSUME TypeOK, NEW a \in Assignments, Import(a)
  PROVE  /\ record' \in [Assignments -> Records]
         /\ record'[a].phase = "needs_reconciliation"
         /\ record'[a].identity = registered[a]
         /\ \A b \in Assignments \ {a} : record'[b] = record[b]
         /\ tasks' \in [Tasks -> TaskRow]
<1> DEFINE new == [phase |-> "needs_reconciliation", identity |-> registered[a],
                   marks |-> ImportMarks(a)]
<1>1. registered[a] \in 0..MaxBoot
  BY DEF TypeOK
<1>2. ImportMarks(a) \in SUBSET Marks
  BY DEF ImportMarks, Marks
<1>3. new \in Records /\ new.phase = "needs_reconciliation"
      /\ new.identity = registered[a]
  BY <1>1, <1>2 DEF Records, ExecutionPhases
<1>4. record' = [record EXCEPT ![a] = new]
  BY DEF Import
<1> HIDE DEF new
<1>5. Writes(a, new)
  BY <1>3, <1>4, RecordWritten
<1> DEFINE t == TaskOf[a]
           status == IF a \in ReplaySafe THEN "assigned" ELSE "needs_reconciliation"
           generation == IF Generation[a] > tasks[t].generation
                         THEN Generation[a] ELSE tasks[t].generation
<1>6. t \in Tasks /\ Generation[a] \in Nat
  BY RequestAssumption DEF Tasks
<1>7. tasks[t].generation \in Nat /\ tasks \in [Tasks -> TaskRow]
  BY <1>6, Rows DEF TaskRow
<1>8. [status |-> status, generation |-> generation] \in TaskRow
  BY <1>6, <1>7 DEF TaskRow
<1>9. tasks' = [tasks EXCEPT ![t] = [status |-> status, generation |-> generation]]
  BY DEF Import
<1> HIDE DEF t, status, generation
<1>10. tasks' \in [Tasks -> TaskRow]
  BY <1>6, <1>7, <1>8, <1>9
<1> QED BY <1>3, <1>5, <1>10 DEF Writes

\* What the agent and the coordinator keep.
AgentTables ==
    /\ agent \in {"down", "importing", "reconciling", "up"}
    /\ slots \subseteq Assignments /\ toImport \subseteq Assignments
    /\ pass \in PassRow
    /\ open \in [Assignments -> {"none", "open", "closed"}]
    /\ registered \in [Assignments -> 0..MaxBoot] /\ leased \subseteq Assignments

HostTables == boot \in 1..profile.boots /\ profile \in Profiles

\* The types, by who writes the tables.
LEMMA Tables ==
  TypeOK <=> OwnTables /\ FamilyTables /\ AgentTables /\ HostTables
BY DEF TypeOK, OwnTables, FamilyTables, AgentTables, HostTables, SupRow, ChildRow,
       TaskRow, PassRow

\* The same after a step.
LEMMA TablesAfter ==
  ASSUME OwnTables', FamilyTables', AgentTables', HostTables'
  PROVE  TypeOK'
BY DEF TypeOK, OwnTables, FamilyTables, AgentTables, HostTables, SupRow, ChildRow,
       TaskRow, PassRow

\* An agent that stops, in any way, keeps nothing.
LEMMA StopTyped ==
  ASSUME TypeOK, StopAgent, UNCHANGED remote
  PROVE  AgentTables'
<1>1. pass' \in PassRow
  BY IdleRow DEF StopAgent
<1> QED BY <1>1, Tables DEF StopAgent, remote, AgentTables

\* The agent: offers, launches, answers, passes and recovery.
LEMMA AgentTyped ==
  ASSUME TypeOK, AgentNext
  PROVE  TypeOK'
<1> USE DEF journal, owner, processes, host, service, remote
<1> SUFFICES OwnTables' /\ FamilyTables' /\ AgentTables' /\ HostTables'
  BY TablesAfter
<1>0. OwnTables /\ FamilyTables /\ AgentTables /\ HostTables
  BY Tables
<1>1. ASSUME NEW a \in Assignments,
             Offer(a) \/ Harvest(a) \/ Refuse(a) \/ Report(a)
      PROVE  OwnTables' /\ FamilyTables' /\ AgentTables' /\ HostTables'
  BY <1>0, <1>1 DEF Offer, Harvest, Refuse, Report, OwnTables, FamilyTables,
                    AgentTables, HostTables
<1>2. ASSUME NEW a \in Assignments, Launch(a)
      PROVE  OwnTables' /\ FamilyTables' /\ AgentTables' /\ HostTables'
  <2>1. sup' \in [Assignments -> SupRow]
    BY <1>2, GotoRow DEF Launch, GoesTo, SupervisorSteps
  <2> QED BY <1>0, <1>2, <2>1
          DEF Launch, OwnTables, FamilyTables, AgentTables, HostTables
<1>3. ASSUME NEW a \in Assignments, ReconcileRecord(a)
      PROVE  OwnTables' /\ FamilyTables' /\ AgentTables' /\ HostTables'
  <2>1. record' \in [Assignments -> Records]
    BY <1>3, ReconciledRow, RecordWritten DEF ReconcileRecord, Writes
  <2>2. pass' \in PassRow
    BY <1>3, DecidedRow DEF ReconcileRecord
  <2> QED BY <1>0, <1>3, <2>1, <2>2
          DEF ReconcileRecord, OwnTables, FamilyTables, AgentTables, HostTables
<1>4. ASSUME NEW a \in Assignments, Import(a)
      PROVE  OwnTables' /\ FamilyTables' /\ AgentTables' /\ HostTables'
  <2>1. record' \in [Assignments -> Records] /\ tasks' \in [Tasks -> TaskRow]
    BY <1>4, ImportedRow
  <2>2. /\ toImport' \subseteq toImport
        /\ UNCHANGED <<family, owner, processes, host, agent, slots, pass, remote>>
    BY <1>4 DEF Import
  <2> QED BY <1>0, <2>1, <2>2 DEF OwnTables, FamilyTables, AgentTables, HostTables
<1>5. ASSUME NEW a \in Assignments, NEW flag \in BOOLEAN,
             Register(a, flag)
      PROVE  OwnTables' /\ FamilyTables' /\ AgentTables' /\ HostTables'
  <2>1. sup[a].identity \in 0..MaxBoot
    BY Rows DEF SupRow
  <2>2. registered' \in [Assignments -> 0..MaxBoot]
    BY <1>0, <1>5, <2>1 DEF Register, AgentTables
  <2> QED BY <1>0, <1>5, <2>2
          DEF Register, OwnTables, FamilyTables, AgentTables, HostTables
<1>6. ASSUME NEW a \in Assignments, NEW gpu \in BOOLEAN, ReconcileLeader(a, gpu)
      PROVE  OwnTables' /\ FamilyTables' /\ AgentTables' /\ HostTables'
  <2> DEFINE released == /\ gpu /\ RecoveryAllows(a)
                         /\ Absent(pass.snapshot[a].identity, leader[a])
             kids == {<<c, family[c].identity>> : c \in HeldChildren(a)}
             left == pass.left \ {a}
  <2>1. /\ pass' = [pass EXCEPT !.at = {a}, !.left = left, !.released = released,
                                !.kids = kids]
        /\ UNCHANGED <<journal, owner, processes, host, agent, slots, toImport,
                       remote>>
    BY <1>6 DEF ReconcileLeader
  <2>2. kids \in SUBSET (Children \X (0..MaxBoot))
    BY Rows DEF HeldChildren, ChildrenOf, ChildRow
  <2>3. left \in SUBSET Assignments /\ released \in BOOLEAN
        /\ {a} \in SUBSET Assignments
    BY Rows DEF PassRow, RecoveryAllows, Absent
  <2> HIDE DEF released, kids, left
  <2>4. pass' \in PassRow
    BY <2>1, <2>2, <2>3, DecisionRow
  <2> QED BY <1>0, <2>1, <2>4 DEF OwnTables, FamilyTables, AgentTables, HostTables
<1>7. ASSUME NEW kid \in pass.kids, NEW gpu \in BOOLEAN, ReconcileChild(kid, gpu)
      PROVE  OwnTables' /\ FamilyTables' /\ AgentTables' /\ HostTables'
  <2> DEFINE gone == gpu /\ Absent(kid[2], worker[kid[1]])
             kids == pass.kids \ {kid}
             released == pass.released /\ gone
  <2>1. /\ family' = [family EXCEPT ![kid[1]].phase = Verdict(gone)]
        /\ pass' = [pass EXCEPT !.kids = kids, !.released = released]
        /\ UNCHANGED <<record, tasks, owner, processes, host, agent, slots,
                       toImport, remote>>
    BY <1>7 DEF ReconcileChild
  <2>2. /\ kid[1] \in Children /\ kids \in SUBSET (Children \X (0..MaxBoot))
        /\ released \in BOOLEAN
    BY Rows DEF PassRow, Absent
  <2>3. Verdict(gone) \in ExecutionPhases
    BY DEF Verdict, ExecutionPhases
  <2> HIDE DEF gone, kids, released
  <2>4. pass' \in PassRow
    BY <2>1, <2>2, KidRow
  <2>5. family' \in [Children -> ChildRow]
    BY <2>1, <2>2, <2>3, ChildPhaseRow DEF ChildGoesTo
  <2> QED BY <1>0, <2>1, <2>4, <2>5
          DEF OwnTables, FamilyTables, AgentTables, HostTables
<1>8. CASE Start \/ BeginPass \/ EndImport
  <2>1. pass' \in PassRow
    BY <1>8, ReadsRow DEF Start, BeginPass, EndImport
  <2> QED BY <1>0, <1>8, <2>1 DEF Start, BeginPass, EndImport, OwnTables,
             FamilyTables, AgentTables, HostTables
<1>9. CASE AbortPass
  BY <1>0, <1>9, StopTyped
     DEF AbortPass, OwnTables, FamilyTables, HostTables
<1>10. CASE EndPass
  BY <1>0, <1>10, IdleRow
     DEF EndPass, OwnTables, FamilyTables, AgentTables, HostTables
<1>11. CASE StartReplaySession
  <2>1. sup' \in [Assignments -> SupRow] /\ mediated' \in [Children -> MediatedPhases]
    BY <1>11, ExitRows DEF StartReplaySession
  <2>2. record' \in [Assignments -> Records]
    BY <1>11, IdleRow DEF StartReplaySession
  <2>3. family' \in [Children -> ChildRow] /\ tasks' \in [Tasks -> TaskRow]
    BY <1>11, BootRange
       DEF StartReplaySession, NoChild, NoTask, ChildRow, TaskRow, ExecutionPhases
  <2>4. toImport' \subseteq Assignments /\ agent' = "importing"
    BY <1>11 DEF StartReplaySession, Inventory
  <2> QED BY <1>0, <1>11, <2>1, <2>2, <2>3, <2>4
          DEF StartReplaySession, OwnTables, FamilyTables, AgentTables, HostTables
<1> QED BY <1>1, <1>2, <1>3, <1>4, <1>5, <1>6, <1>7, <1>8, <1>9, <1>10, <1>11
        DEF AgentNext

\* Exits, crashes and reboots.
LEMMA HostTyped ==
  ASSUME TypeOK, HostNext
  PROVE  TypeOK'
<1> USE DEF journal, owner, processes, host, service, remote
<1> SUFFICES OwnTables' /\ FamilyTables' /\ AgentTables' /\ HostTables'
  BY TablesAfter
<1>0. OwnTables /\ FamilyTables /\ AgentTables /\ HostTables
  BY Tables
<1>1. ASSUME NEW a \in Assignments, LeaderExit(a)
      PROVE  OwnTables' /\ FamilyTables' /\ AgentTables' /\ HostTables'
  BY <1>0, <1>1 DEF LeaderExit, OwnTables, FamilyTables, AgentTables, HostTables,
                    ProcessStates
<1>2. ASSUME NEW a \in Assignments, SupervisorCrash(a)
      PROVE  OwnTables' /\ FamilyTables' /\ AgentTables' /\ HostTables'
  BY <1>0, <1>2, ExitRows
     DEF SupervisorCrash, OwnTables, FamilyTables, AgentTables, HostTables
<1>3. ASSUME NEW c \in Children, WorkerExit(c)
      PROVE  OwnTables' /\ FamilyTables' /\ AgentTables' /\ HostTables'
  BY <1>0, <1>3 DEF WorkerExit, OwnTables, FamilyTables, AgentTables, HostTables,
                    ProcessStates
<1>4. CASE AgentCrash
  BY <1>0, <1>4, StopTyped
     DEF AgentCrash, OwnTables, FamilyTables, HostTables
<1>5. CASE Reboot
  <2>1. sup' \in [Assignments -> SupRow] /\ mediated' \in [Children -> MediatedPhases]
    BY <1>5, ExitRows DEF Reboot
  <2>2. /\ leader' \in [Assignments -> ProcessStates]
        /\ worker' \in [Children -> ProcessStates]
    BY <1>0, <1>5 DEF Reboot, Ended, OwnTables, FamilyTables, ProcessStates
  <2>3. profile.boots \in Nat /\ boot \in Nat \ {0}
    BY <1>0, BootRange, RequestAssumption DEF HostTables
  <2>4. AgentTables'
    BY <1>5, StopTyped DEF Reboot
  <2> QED BY <1>0, <1>5, <2>1, <2>2, <2>3, <2>4
          DEF Reboot, OwnTables, FamilyTables, HostTables
<1> QED BY <1>1, <1>2, <1>3, <1>4, <1>5 DEF HostNext

(***************************************************************************)
(* Every table of the journal, of the supervisors, of the agent and of the *)
(* coordinator keeps its shape.                                            *)
(***************************************************************************)
THEOREM NodeTyping == Spec => []TypeOK
<1>1. Init => TypeOK
  <2> SUFFICES ASSUME Init PROVE TypeOK
    OBVIOUS
  <2>1. MaxBoot \in Nat \ {0} /\ profile \in Profiles /\ profile.boots \in 1..MaxBoot
    BY RequestAssumption DEF Init
  <2>2. NoRecord \in Records
    BY <2>1 DEF NoRecord, Records, ExecutionPhases
  <2>3. NoChild \in ChildRow /\ NoTask \in TaskRow /\ NoSupervisor \in SupRow
    BY <2>1 DEF NoChild, ChildRow, NoTask, TaskRow, NoSupervisor, SupRow,
                ExecutionPhases, SupervisorSteps
  <2>4. Idle \in PassRow
    BY <2>2 DEF Idle, PassRow
  <2>5. OwnTables
    BY <2>2, <2>3 DEF Init, OwnTables, MediatedPhases, ProcessStates
  <2>6. FamilyTables
    BY <2>3 DEF Init, FamilyTables, MediatedPhases, ProcessStates
  <2>7. AgentTables
    BY <2>1, <2>4 DEF Init, AgentTables
  <2>8. HostTables
    BY <2>1 DEF Init, HostTables
  <2> QED BY <2>5, <2>6, <2>7, <2>8, Tables
<1>2. TypeOK /\ [Next]_vars => TypeOK'
  <2> SUFFICES ASSUME TypeOK, [Next]_vars PROVE TypeOK'
    OBVIOUS
  <2>1. CASE UNCHANGED vars
    BY <2>1 DEF vars, journal, owner, processes, host, service, remote, TypeOK
  <2> QED BY <2>1, SupervisorTyped, ChildTyped, AgentTyped, HostTyped DEF Next
<1> QED BY <1>1, <1>2, PTL DEF Spec

-----------------------------------------------------------------------------
(* The journal.                                                            *)

\* The workload may have run.
Begun(phase) == phase \notin {"none", "reserved", "prepared"}

\* The journal accepted a new phase for a.
RecordMoved(a) ==
    /\ record[a].phase # "none" /\ record'[a].phase \notin {"none", "reserved"}
    /\ record[a].identity # 0 => record'[a].identity = record[a].identity
    /\ record[a].marks \subseteq record'[a].marks
    /\ record[a].phase = "needs_reconciliation" =>
         record'[a].phase \in {"needs_reconciliation", "released"}
    /\ record[a].phase = "released" => record'[a].phase = "released"
    /\ Begun(record[a].phase) => Begun(record'[a].phase)
    /\ record'[a].phase = "released" => HeldChildren(a) = {}
    /\ (/\ record'[a].phase = "released" /\ Replayable /\ ChildLimit[a] > 0
        /\ record[a].phase = "needs_reconciliation")
         => record[a].identity \notin {0, boot}

RecordReserved(a) ==
    /\ record[a].phase = "none" /\ record'[a].phase = "reserved"
    /\ record'[a].identity = record[a].identity
    /\ record'[a].marks = record[a].marks

RecordStep(a) == record'[a] = record[a] \/ RecordReserved(a) \/ RecordMoved(a)

\* The same of a child.
ChildStep(c) ==
    \/ family'[c] = family[c]
    \/ /\ family[c].phase = "none" /\ family'[c].phase \in {"reserved", "released"}
       /\ family'[c].identity = family[c].identity
    \/ /\ family[c].phase = "reserved" /\ family'[c].phase = "prepared"
       /\ family'[c].identity = boot
    \/ /\ family'[c].phase \notin {"none", "reserved", "prepared"}
       /\ family[c].phase # "none"
       /\ family[c].phase = "released" => family'[c].phase = "released"
       /\ family'[c].identity = family[c].identity

JournalStep ==
    /\ \A a \in Assignments : RecordStep(a)
    /\ \A c \in Children : ChildStep(c)

\* Whatever transition accepts keeps identity and marks, and never reopens a
\* release.
LEMMA AcceptedRow ==
  ASSUME TypeOK, NEW a \in Assignments, NEW new, Accepts(a, new), record'[a] = new
  PROVE  RecordMoved(a)
<1>1. record[a].phase \in ExecutionPhases
  BY Rows DEF Records
<1>2. /\ new.phase \in Follows(record[a].phase)
      /\ record[a].identity # 0 => new.identity = record[a].identity
      /\ record[a].marks \subseteq new.marks
      /\ new.phase = "released" => MayRelease(a, new)
  BY DEF Accepts
<1>3. /\ record[a].phase # "none" /\ new.phase \notin {"none", "reserved"}
      /\ record[a].phase = "needs_reconciliation" =>
           new.phase \in {"needs_reconciliation", "released"}
      /\ record[a].phase = "released" => new.phase = "released"
      /\ Begun(record[a].phase) => Begun(new.phase)
  BY <1>1, <1>2 DEF Follows, Begun, ExecutionPhases
<1> QED BY <1>2, <1>3 DEF RecordMoved, MayRelease

\* The same of transition_managed_child.
LEMMA AcceptedChild ==
  ASSUME TypeOK, NEW c \in Children,
         NEW phase \in {"authorized", "running", "draining", "released",
                        "needs_reconciliation"},
         ChildAccepts(c, phase), ChildGoesTo(c, phase)
  PROVE  \A d \in Children : ChildStep(d)
<1>1. family[c].phase \in ExecutionPhases
  BY Rows DEF ChildRow
<1>2. /\ family[c].phase # "none"
      /\ family[c].phase = "released" => phase = "released"
  BY <1>1 DEF ChildAccepts, ChildFollows, ExecutionPhases
<1> QED BY <1>2 DEF ChildGoesTo, ChildStep

\* A write of one record leaves the others alone.
LEMMA OneRecord ==
  ASSUME NEW a \in Assignments, NEW new, Writes(a, new), RecordMoved(a),
         UNCHANGED family
  PROVE  JournalStep
BY DEF JournalStep, RecordStep, ChildStep, Writes

\* A supervisor writes its own record, once, or nothing.
LEMMA SupervisorJournal ==
  ASSUME TypeOK, NEW a \in Assignments, SupervisorNext(a)
  PROVE  JournalStep
<1> USE DEF journal, owner, processes, host, service, remote
<1>1. CASE Reserve(a)
  <2>1. RecordReserved(a) /\ UNCHANGED family
    BY <1>1, ReservedRow DEF Reserve, Reservable, RecordReserved
  <2>2. \A b \in Assignments \ {a} : record'[b] = record[b]
    BY <1>1, ReservedRow DEF Reserve
  <2> QED BY <2>1, <2>2 DEF JournalStep, RecordStep, ChildStep
<1>2. CASE UNCHANGED <<record, family>>
  BY <1>2 DEF JournalStep, RecordStep, ChildStep
<1>3. ASSUME NEW phase \in {"prepared", "authorized", "running", "draining"},
             Journals(a, phase), UNCHANGED family
      PROVE  JournalStep
  BY <1>3, JournalsRow, AcceptedRow, OneRecord DEF Writes
<1>4. ASSUME NEW phase \in {"released", "needs_reconciliation"},
             Accepts(a, Write(a, phase)),
             record' = [record EXCEPT ![a] = Write(a, phase)], UNCHANGED family
      PROVE  JournalStep
  <2>1. Write(a, phase) \in Records
    BY WriteTyped DEF ExecutionPhases
  <2> QED BY <1>4, <2>1, RecordWritten, AcceptedRow, OneRecord DEF Writes
<1>5. CASE WritePrepared(a) \/ WriteAuthorized(a) \/ WriteRunning(a)
             \/ WriteDraining(a)
  BY <1>3, <1>5 DEF WritePrepared, WriteAuthorized, WriteRunning, WriteDraining
<1>6. CASE Finish(a)
  BY <1>4, <1>6 DEF Finish
<1>7. ASSUME NEW confirmed \in BOOLEAN, CleanupRecord(a, confirmed)
      PROVE  JournalStep
  <2>1. PICK phase \in {"released", "needs_reconciliation"} :
          record' = IF Accepts(a, Write(a, phase))
                    THEN [record EXCEPT ![a] = Write(a, phase)] ELSE record
    BY <1>7 DEF CleanupRecord
  <2> QED BY <1>2, <1>4, <1>7, <2>1 DEF CleanupRecord
<1> QED BY <1>1, <1>2, <1>5, <1>6, <1>7
    DEF SupervisorNext, ReserveRefused, SpawnGate, Identify, Grant, SendExec,
        AskDrain, ObserveExit, Fail, CleanupLeader

\* A tick of a child writes its own row.
LEMMA ChildJournal ==
  ASSUME TypeOK, NEW c \in Children, ChildNext(c)
  PROVE  JournalStep
<1> USE DEF journal, owner, processes, host, service, remote
<1>0. UNCHANGED record
  BY DEF ChildNext, PrepareChild, AuthorizeChild, ExecChild, RunChild, DrainChild,
         ReapChild, CreateChild, FailChild, CleanupChild, TicksChild
<1> SUFFICES \A d \in Children : ChildStep(d)
  BY <1>0 DEF JournalStep, RecordStep
<1>1. CASE PrepareChild(c)
  BY <1>1, PreparedChildRow DEF PrepareChild, ChildStep
<1>2. CASE AuthorizeChild(c) \/ RunChild(c) \/ DrainChild(c) \/ ReapChild(c)
  <2>1. PICK phase \in {"authorized", "running", "draining", "released"} :
          TicksChild(c, phase)
    BY <1>2 DEF AuthorizeChild, RunChild, DrainChild, ReapChild
  <2> QED BY <2>1, TickRow, AcceptedChild
<1>3. CASE ExecChild(c)
  BY <1>3 DEF ExecChild, ChildStep
<1>4. ASSUME NEW flag \in BOOLEAN, CreateChild(c, flag)
      PROVE  \A d \in Children : ChildStep(d)
  <2>1. \A phase \in {"reserved", "released"} : phase \in ExecutionPhases
    BY DEF ExecutionPhases
  <2>2. PICK phase \in {"reserved", "released"} : ChildGoesTo(c, phase)
    BY <1>4, <2>1, ChildPhaseRow DEF CreateChild
  <2> QED BY <1>4, <2>2 DEF CreateChild, ChildReservable, ChildGoesTo, ChildStep
<1>5. ASSUME NEW flag \in BOOLEAN, FailChild(c, flag)
      PROVE  \A d \in Children : ChildStep(d)
  <2>1. \A phase \in {"needs_reconciliation", "released"} : phase \in ExecutionPhases
    BY DEF ExecutionPhases
  <2>2. PICK phase \in {"needs_reconciliation", "released"} :
          ChildAccepts(c, phase) /\ ChildGoesTo(c, phase)
    BY <1>5, <2>1, ChildPhaseRow DEF FailChild
  <2> QED BY <2>2, AcceptedChild
<1>6. ASSUME NEW flag \in BOOLEAN, CleanupChild(c, flag)
      PROVE  \A d \in Children : ChildStep(d)
  <2>1. Verdict(flag) \in {"needs_reconciliation", "released"}
    BY DEF Verdict
  <2> QED BY <1>6, <2>1, CleanupRows, AcceptedChild DEF ChildStep
<1> QED BY <1>1, <1>2, <1>3, <1>4, <1>5, <1>6 DEF ChildNext

\* Only a replay session sets the journal aside.
LEMMA AgentJournal ==
  ASSUME TypeOK, AgentNext
  PROVE  \/ JournalStep
         \/ StartReplaySession
         \/ \E a \in Assignments : Import(a)
<1> USE DEF journal, owner, processes, host, service, remote
<1>1. CASE UNCHANGED <<record, family>>
  BY <1>1 DEF JournalStep, RecordStep, ChildStep
<1>2. ASSUME NEW a \in Assignments, ReconcileRecord(a)
      PROVE  JournalStep
  <2>1. Writes(a, Reconciled(a)) /\ Accepts(a, Reconciled(a)) /\ UNCHANGED family
    BY <1>2, ReconciledRow, RecordWritten DEF ReconcileRecord
  <2> QED BY <2>1, AcceptedRow, OneRecord DEF Writes
<1>3. ASSUME NEW kid \in pass.kids, NEW gpu \in BOOLEAN, ReconcileChild(kid, gpu)
      PROVE  JournalStep
  <2> DEFINE gone == gpu /\ Absent(kid[2], worker[kid[1]])
  <2>1. /\ ChildAccepts(kid[1], Verdict(gone))
        /\ family' = [family EXCEPT ![kid[1]].phase = Verdict(gone)]
        /\ UNCHANGED record
    BY <1>3 DEF ReconcileChild
  <2>2. kid[1] \in Children
    BY Rows DEF PassRow
  <2>3. /\ Verdict(gone) \in ExecutionPhases
        /\ Verdict(gone) \in {"released", "needs_reconciliation"}
    BY DEF Verdict, ExecutionPhases
  <2> HIDE DEF gone
  <2>4. \A d \in Children : ChildStep(d)
    BY <2>1, <2>2, <2>3, ChildPhaseRow, AcceptedChild
  <2> QED BY <2>1, <2>4 DEF JournalStep, RecordStep
<1> QED BY <1>1, <1>2, <1>3
    DEF AgentNext, Offer, Launch, Harvest, Refuse, Report, Register,
        ReconcileLeader, Start, BeginPass, AbortPass, EndPass, EndImport

\* Processes that end write nothing.
LEMMA HostJournal ==
  ASSUME HostNext
  PROVE  UNCHANGED <<record, family>>
BY DEF HostNext, LeaderExit, SupervisorCrash, WorkerExit, AgentCrash, Reboot,
       journal

\* A child without Prepared has no identity.
ChildrenNamed ==
    \A c \in Children :
      family[c].phase \in {"none", "reserved"} => family[c].identity = 0

\* Every step of the system, as the journal sees it.
LEMMA EveryJournalStep ==
  ASSUME TypeOK, [Next]_vars
  PROVE  \/ JournalStep
         \/ StartReplaySession
         \/ \E a \in Assignments : Import(a)
<1>1. CASE UNCHANGED <<record, family>>
  BY <1>1 DEF JournalStep, RecordStep, ChildStep
<1>2. UNCHANGED vars => UNCHANGED <<record, family>>
  BY DEF vars, journal
<1> QED BY <1>1, <1>2, SupervisorJournal, ChildJournal, AgentJournal, HostJournal
        DEF Next

(***************************************************************************)
(* A child that is not yet prepared has no identity: reserve_managed_child *)
(* inserts none, and only prepare_managed_child records one.               *)
(***************************************************************************)
THEOREM NamesInductive == Spec => []ChildrenNamed
<1>1. Init => ChildrenNamed
  BY DEF Init, NoChild, ChildrenNamed
<1>2. TypeOK /\ ChildrenNamed /\ [Next]_vars => ChildrenNamed'
  <2> SUFFICES ASSUME TypeOK, ChildrenNamed, [Next]_vars PROVE ChildrenNamed'
    OBVIOUS
  <2>1. CASE JournalStep
    BY <2>1 DEF JournalStep, ChildStep, ChildrenNamed
  <2>2. CASE StartReplaySession
    BY <2>2 DEF StartReplaySession, NoChild, ChildrenNamed
  <2>3. ASSUME NEW a \in Assignments, Import(a) PROVE ChildrenNamed'
    BY <2>3 DEF Import, ChildrenNamed
  <2> QED BY <2>1, <2>2, <2>3, EveryJournalStep
<1> QED BY <1>1, <1>2, NodeTyping, PTL DEF Spec

(***************************************************************************)
(* A release is final and a recorded identity or recovery mark is never    *)
(* lost, whoever writes: only setting a replayable journal aside forgets   *)
(* them (transition, transition_managed_child, import_replay_reservation). *)
(***************************************************************************)
THEOREM JournalIsKept == Spec => JournalKeeps
<1>1. TypeOK /\ ChildrenNamed /\ [Next]_vars => [KeepsJournal]_vars
  <2> SUFFICES ASSUME TypeOK, ChildrenNamed, [Next]_vars PROVE KeepsJournal
    OBVIOUS
  <2>1. CASE JournalStep
    <3>1. ASSUME NEW a \in Assignments
          PROVE  /\ record[a].phase = "released" => record'[a].phase = "released"
                 /\ record[a].identity # 0 =>
                      record'[a].identity = record[a].identity
                 /\ record[a].marks \subseteq record'[a].marks
      BY <2>1 DEF JournalStep, RecordStep, RecordReserved, RecordMoved
    <3>2. ASSUME NEW c \in Children
          PROVE  /\ family[c].phase = "released" => family'[c].phase = "released"
                 /\ family[c].identity # 0 =>
                      family'[c].identity = family[c].identity
      BY <2>1 DEF JournalStep, ChildStep, ChildrenNamed
    <3> QED BY <3>1, <3>2 DEF KeepsJournal
  <2>2. CASE StartReplaySession
    BY <2>2 DEF StartReplaySession, KeepsJournal
  <2>3. ASSUME NEW a \in Assignments, Import(a) PROVE KeepsJournal
    BY <2>3 DEF Import, KeepsJournal
  <2> QED BY <2>1, <2>2, <2>3, EveryJournalStep
<1> QED BY <1>1, NodeTyping, NamesInductive, PTL DEF Spec, JournalKeeps

-----------------------------------------------------------------------------
(***************************************************************************)
(* One node, for every number of assignments, children, boots and agents:  *)
(* a released reservation has no process left, no two attempts of a task   *)
(* have processes at the same time, and user code runs only under a        *)
(* recorded authorization that was not reported as over.                   *)
(*                                                                         *)
(* The invariant follows an assignment from its reservation to its         *)
(* release: what its supervisor knows, what the journal says of its        *)
(* processes, what a reconciliation has read, and, on a node that may lose *)
(* its journal, what the coordinator's inventory still covers.             *)
(***************************************************************************)

(* The invariant of one assignment.                                        *)

\* The lost record of a is still to be imported, and nobody runs meanwhile.
Awaited(a) ==
    /\ Replayable /\ record[a].phase = "none" /\ open[a] = "open"
    /\ agent = "down" \/ (agent = "importing" /\ a \in toImport)
    /\ \A b \in Assignments : ~Alive(b)

\* A supervisor has nothing recorded before it has reserved, and no identity
\* before it has written Prepared.
NotYetPrepared(a) ==
    /\ At(a, "none") => registered[a] = 0 /\ sup[a].identity = 0
    /\ At(a, "starting") => record[a].phase = "none"
    /\ sup[a].step \in {"reserved", "gated", "identified"} =>
         /\ record[a].phase \in {"reserved", "needs_reconciliation"}
         /\ record[a].identity = 0

\* What lives is of this boot.
IdentifiesLiving(a) ==
    /\ record[a].phase \in {"none", "reserved"} => record[a].identity = 0
    /\ Alive(a) => /\ sup[a].identity \in {0, boot}
                   /\ record[a].identity \in {0, boot}
                   /\ registered[a] \in {0, boot}
    /\ LiveFamily(a) => /\ record[a].identity \in {0, boot}
                        /\ registered[a] \in {0, boot}

\* A supervisor that saw its leader exit, or killed it, is right.
SeesTruly(a) ==
    /\ sup[a].seen => /\ sup[a].step \in {"running", "draining", "failing", "cleaning"}
                      /\ ~Living(leader[a])
    /\ At(a, "cleaning") /\ sup[a].clean => ~Living(leader[a])

\* A living leader is charged, or its lost record is awaited.
Covered(a) ==
    /\ Living(leader[a]) => Held(a) \/ Awaited(a)
    /\ record[a].phase = "released" => ~LiveFamily(a)

\* A node that may lose its journal knows its supervisors, and the
\* coordinator knows what lives there.
Inventoried(a) ==
    Replayable =>
      /\ Alive(a) => record[a].phase # "released" /\ (agent = "down" \/ a \in slots)
      /\ Alive(a) \/ LiveFamily(a) => open[a] = "open"

\* User code follows the lease and the journalled authorization.
Authorized(a) ==
    /\ sup[a].step \in {"authorized", "sent", "running", "draining"} =>
         Begun(record[a].phase)
    /\ sup[a].step \in {"granted", "authorized", "sent", "running", "draining"} =>
         a \in leased
    /\ leader[a] = "user" => a \in leased /\ (Replayable \/ Begun(record[a].phase))
    /\ ~Replayable => /\ record[a].phase = "none" => a \notin leased
                      /\ open[a] = "closed" =>
                           a \notin leased \/ record[a].phase = "released"

AttemptInvariant(a) ==
    /\ NotYetPrepared(a) /\ IdentifiesLiving(a) /\ SeesTruly(a) /\ Covered(a)
    /\ Inventoried(a) /\ Authorized(a)

-----------------------------------------------------------------------------
(* The invariant of a child, of the agent, and of the node.                *)

HeldChild(c) == family[c].phase \notin {"none", "released"}

ChildInvariant(c) ==
    LET a == ParentOf(c) IN
    /\ Living(worker[c]) =>
         /\ family[c].identity \in {0, boot} /\ family[c].phase # "released"
         /\ \/ HeldChild(c)
            \/ Replayable /\ record[a].phase = "needs_reconciliation"
            \/ Awaited(a)
    /\ HeldChild(c) => Held(a)
    /\ sup[a].step \in {"none", "starting", "exited"} => mediated[c] = "none"
    /\ mediated[c] \in {"authorized", "sent"} => Begun(family[c].phase)
    /\ worker[c] = "user" => a \in leased /\ (Replayable \/ Begun(family[c].phase))

\* What a pass has read is still so.
ReadsTruly ==
    /\ \A a \in Assignments : pass.snapshot[a].identity # 0 =>
         record[a].identity = pass.snapshot[a].identity
    /\ \A a \in pass.at : pass.released =>
         pass.snapshot[a].identity # 0 /\ ~Living(leader[a])
    /\ \A kid \in pass.kids : kid[2] # 0 => family[kid[1]].identity = kid[2]

AgentInvariant ==
    /\ agent \in {"down", "importing"} => pass = Idle
    /\ agent # "up" => slots = {}
    /\ agent = "importing" => Replayable
    /\ (pass.left \cup pass.at) \cap slots = {}
    /\ ReadsTruly

\* A process of a may run, or may still be started.
Busy(a) == LiveFamily(a) \/ (Held(a) /\ Alive(a))

OneBusy ==
    \A a, b \in Assignments :
      TaskOf[a] = TaskOf[b] /\ Busy(a) /\ Busy(b) => a = b

NodeInvariant ==
    /\ \A a \in Assignments : AttemptInvariant(a)
    /\ \A c \in Children : ChildInvariant(c)
    /\ AgentInvariant /\ OneBusy

-----------------------------------------------------------------------------
(* Rows that a step leaves alone.                                          *)

\* Of a, only others know more: its agent may have stopped, and what it
\* waited for may have been imported.
RowKept(a) ==
    /\ record'[a] = record[a] /\ sup'[a] = sup[a] /\ leader'[a] = leader[a]
    /\ registered'[a] = registered[a] /\ open'[a] = open[a]
    /\ a \in leased' <=> a \in leased
    /\ Alive(a) /\ a \in slots => a \in slots' \/ agent' = "down"

KidKept(c) ==
    family'[c] = family[c] /\ worker'[c] = worker[c] /\ mediated'[c] = mediated[c]

HostKept == boot' = boot /\ profile' = profile

\* A family lives as long as its processes do.
LEMMA LivesOn ==
  ASSUME NEW a \in Assignments, leader'[a] = leader[a],
         \A c \in ChildrenOf(a) : worker'[c] = worker[c]
  PROVE  LiveFamily(a)' <=> LiveFamily(a)
BY DEF LiveFamily

\* An assignment of which nothing changed keeps its invariant, unless an agent
\* takes over a replayable journal.
LEMMA AttemptKept ==
  ASSUME NEW a \in Assignments, AttemptInvariant(a), RowKept(a), HostKept,
         LiveFamily(a)' <=> LiveFamily(a),
         agent' = "down" \/ agent # "down" \/ ~Replayable,
         Awaited(a) => Awaited(a)'
  PROVE  AttemptInvariant(a)'
<1>1. Replayable' <=> Replayable
  BY DEF HostKept, Replayable
<1>2. Alive(a)' <=> Alive(a)
  BY DEF RowKept, Alive
<1>3. Held(a)' <=> Held(a)
  BY DEF RowKept, Held
<1>4. NotYetPrepared(a)' /\ SeesTruly(a)'
  BY DEF AttemptInvariant, NotYetPrepared, SeesTruly, RowKept, At
<1>5. IdentifiesLiving(a)'
  BY <1>2 DEF AttemptInvariant, IdentifiesLiving, RowKept, HostKept
<1>6. Covered(a)'
  BY <1>3 DEF AttemptInvariant, Covered, RowKept
<1>7. Inventoried(a)'
  BY <1>1, <1>2 DEF AttemptInvariant, Inventoried, RowKept
<1>8. Authorized(a)'
  BY <1>1 DEF AttemptInvariant, Authorized, RowKept
<1> QED BY <1>4, <1>5, <1>6, <1>7, <1>8 DEF AttemptInvariant

\* What ChildInvariant asks of the parent.
ParentKept(a) ==
    /\ record[a].phase = "needs_reconciliation" =>
         record'[a].phase = "needs_reconciliation"
    /\ Held(a) => Held(a)'
    /\ sup'[a].step \in {"none", "starting", "exited"} =>
         sup[a].step \in {"none", "starting", "exited"}
    /\ a \in leased => a \in leased'

\* So does a child whose parent is still charged.
LEMMA ChildKept ==
  ASSUME NEW c \in Children, ChildInvariant(c), KidKept(c), HostKept,
         ParentKept(ParentOf(c)), Awaited(ParentOf(c)) => Awaited(ParentOf(c))'
  PROVE  ChildInvariant(c)'
<1>1. Replayable' <=> Replayable
  BY DEF HostKept, Replayable
<1>2. HeldChild(c)' <=> HeldChild(c)
  BY DEF KidKept, HeldChild
<1>3. Living(worker[c])' <=> Living(worker[c])
  BY DEF KidKept, Living
<1> QED BY <1>1, <1>2, <1>3 DEF ChildInvariant, KidKept, ParentKept, HostKept

\* A parent of which nothing changed.
LEMMA SameParent ==
  ASSUME NEW a \in Assignments, RowKept(a)
  PROVE  ParentKept(a)
BY DEF RowKept, ParentKept, Held

\* Whoever writes the release: the journal asks that no child is held, and
\* of an incompletely known family that the boot has passed.
LEMMA ReleaseIsEnd ==
  ASSUME TypeOK, NEW a \in Assignments, AttemptInvariant(a),
         \A c \in ChildrenOf(a) : ChildInvariant(c),
         RecordMoved(a), record'[a].phase = "released", ~Living(leader[a])
  PROVE  ~LiveFamily(a)
<1>1. SUFFICES ASSUME NEW c \in ChildrenOf(a), Living(worker[c]) PROVE FALSE
  BY DEF LiveFamily
<1>2. c \in Children /\ ParentOf(c) = a /\ ChildLimit[a] > 0
  BY ParentIsAssignment DEF ChildrenOf
<1>3. ~HeldChild(c)
  BY DEF RecordMoved, HeldChildren, HeldChild
<1>4. ~Awaited(a)
  BY DEF RecordMoved, Awaited
<1>5. Replayable /\ record[a].phase = "needs_reconciliation"
  BY <1>1, <1>2, <1>3, <1>4 DEF ChildInvariant
<1>6. record[a].identity \in {0, boot}
  BY <1>1 DEF AttemptInvariant, IdentifiesLiving, LiveFamily
<1> QED BY <1>2, <1>5, <1>6 DEF RecordMoved

-----------------------------------------------------------------------------
(* A supervisor.                                                           *)

\* Around a step of the supervisor of a.
Alone(a) ==
    /\ HostKept /\ UNCHANGED <<agent, slots, pass, toImport, open, registered, leased>>
    /\ UNCHANGED <<family, worker>>
    /\ LiveFamily(a)' => LiveFamily(a) \/ Living(leader'[a])

\* While a supervisor is alive nothing is awaited.
LEMMA SupervisorAlone ==
  ASSUME TypeOK, NEW a \in Assignments, SupervisorNext(a)
  PROVE  /\ Alone(a) /\ Alive(a) /\ ~Awaited(a)
         /\ Living(leader[a]) => LiveFamily(a)
<1>1. /\ UNCHANGED <<family, worker, host, service, remote>>
      /\ Alive(a)
  BY DEF SupervisorNext, Reserve, ReserveRefused, SpawnGate, Identify, WritePrepared,
         Grant, WriteAuthorized, SendExec, WriteRunning, AskDrain, WriteDraining,
         ObserveExit, Finish, Fail, CleanupLeader, CleanupRecord,
         journal, processes, Alive, At, Looping
<1> QED BY <1>1 DEF Alone, HostKept, host, service, remote, Awaited, LiveFamily

\* The last write of a supervisor, or none: it exits.
LEMMA ExitRow ==
  ASSUME TypeOK, NEW a \in Assignments, AttemptInvariant(a), Alone(a),
         Alive(a), ~Awaited(a), sup'[a].step = "exited", ~sup'[a].seen,
         leader'[a] = leader[a],
         \/ record'[a] = record[a]
         \/ /\ RecordMoved(a) /\ record'[a].identity \in {0, boot}
            /\ record'[a].phase = "released" => ~LiveFamily(a)
  PROVE  AttemptInvariant(a)'
<1>1. ~Alive(a)' /\ (Replayable' <=> Replayable)
      /\ (LiveFamily(a)' => LiveFamily(a) \/ Living(leader[a]))
  BY DEF Alive, Alone, HostKept, Replayable
<1>2. Living(leader[a]) => LiveFamily(a)
  BY DEF LiveFamily
<1>3. record[a].phase # "none" => record'[a].phase # "none"
  BY DEF RecordMoved
<1>4. NotYetPrepared(a)' /\ SeesTruly(a)'
  BY DEF NotYetPrepared, SeesTruly, At
<1>5. IdentifiesLiving(a)'
  BY <1>1, <1>2
     DEF AttemptInvariant, IdentifiesLiving, RecordMoved, Alone, HostKept
<1>6. Covered(a)'
  BY <1>1, <1>2 DEF AttemptInvariant, Covered, RecordMoved, Held
<1>7. Inventoried(a)'
  BY <1>1, <1>2 DEF AttemptInvariant, Inventoried, Alone
<1>8. Authorized(a)'
  BY <1>1, <1>3 DEF AttemptInvariant, Authorized, RecordMoved, Alone
<1> QED BY <1>4, <1>5, <1>6, <1>7, <1>8 DEF AttemptInvariant

\* A journalled step towards EXEC, or the drain.
LEMMA JournalledRow ==
  ASSUME TypeOK, NEW a \in Assignments, AttemptInvariant(a), Alone(a),
         Alive(a), ~Awaited(a), leader'[a] = leader[a],
         NEW phase \in {"prepared", "authorized", "running", "draining"},
         phase = "draining" => sup[a].step = "running",
         phase = "running" => sup[a].step = "sent",
         phase = "authorized" => sup[a].step = "granted",
         phase = "prepared" => sup[a].step = "identified",
         Journals(a, phase)
  PROVE  AttemptInvariant(a)'
<1>1. (Replayable' <=> Replayable)
      /\ (LiveFamily(a)' => LiveFamily(a) \/ Living(leader[a]))
  BY DEF Alone, HostKept, Replayable
<1>2. Living(leader[a]) => LiveFamily(a)
  BY DEF LiveFamily
<1>3. GoesTo(a, phase) /\ RecordMoved(a)
      /\ record'[a].phase = phase /\ record'[a].identity = sup[a].identity
  BY JournalsRow, AcceptedRow, WriteTyped DEF Writes, ExecutionPhases
<1>4. NotYetPrepared(a)'
  BY <1>3 DEF NotYetPrepared, At, GoesTo
<1>5. SeesTruly(a)'
  BY <1>3 DEF AttemptInvariant, SeesTruly, At, GoesTo
<1>6. IdentifiesLiving(a)'
  BY <1>1, <1>2, <1>3
     DEF AttemptInvariant, IdentifiesLiving, Alone, HostKept, GoesTo
<1>7. Covered(a)'
  BY <1>1, <1>2, <1>3 DEF AttemptInvariant, Covered, Held
<1>8. Inventoried(a)'
  BY <1>1, <1>2, <1>3 DEF AttemptInvariant, Inventoried, Alone
<1>9. Authorized(a)'
  BY <1>1, <1>3
     DEF AttemptInvariant, Authorized, Alone, GoesTo, Begun, RecordMoved
<1> QED BY <1>4, <1>5, <1>6, <1>7, <1>8, <1>9 DEF AttemptInvariant

\* The supervisor moves on, and only knows more.
LEMMA MovesOn ==
  ASSUME TypeOK, NEW a \in Assignments, AttemptInvariant(a), Alone(a),
         Alive(a), ~Awaited(a), record'[a] = record[a],
         sup'[a].step \notin {"none", "starting", "exited", "reserved"},
         sup'[a].identity \in {sup[a].identity, boot},
         NotYetPrepared(a)', SeesTruly(a)', Authorized(a)',
         Living(leader'[a]) => Living(leader[a]) \/ Held(a)
  PROVE  AttemptInvariant(a)'
<1>1. (Replayable' <=> Replayable)
      /\ (LiveFamily(a)' => LiveFamily(a) \/ Living(leader'[a]))
  BY DEF Alone, HostKept, Replayable
<1>2. Living(leader[a]) => LiveFamily(a)
  BY DEF LiveFamily
<1>3. Living(leader'[a]) => Held(a)
  BY DEF AttemptInvariant, Covered
<1>6. IdentifiesLiving(a)'
  BY <1>1, <1>2 DEF AttemptInvariant, IdentifiesLiving, Alone, HostKept
<1>7. Covered(a)'
  BY <1>1, <1>3 DEF AttemptInvariant, Covered, Held
<1>8. Inventoried(a)'
  BY <1>1, <1>2 DEF AttemptInvariant, Inventoried, Alone
<1> QED BY <1>6, <1>7, <1>8 DEF AttemptInvariant

\* The reservation: nothing of the new attempt has run.
LEMMA ReservedAttempt ==
  ASSUME TypeOK, NEW a \in Assignments, AttemptInvariant(a), Alone(a), Reserve(a)
  PROVE  AttemptInvariant(a)'
<1>1. /\ sup'[a].step = "reserved" /\ sup'[a].identity = sup[a].identity
      /\ sup'[a].seen = sup[a].seen /\ leader'[a] = leader[a]
  BY GotoRow DEF Reserve, GoesTo, SupervisorSteps, processes
<1>2. /\ record[a].phase = "none" /\ record'[a].phase = "reserved"
      /\ record'[a].identity = record[a].identity
  BY ReservedRow DEF Reserve, Reservable
<1>3. sup[a].step = "starting" /\ Alive(a) /\ record[a].identity = 0
  BY <1>2 DEF Reserve, At, Alive, AttemptInvariant, IdentifiesLiving
<1>4. (Replayable' <=> Replayable)
      /\ (LiveFamily(a)' => LiveFamily(a) \/ Living(leader[a]))
  BY <1>1 DEF Alone, HostKept, Replayable
<1>5. Living(leader[a]) => LiveFamily(a)
  BY DEF LiveFamily
<1>6. NotYetPrepared(a)' /\ SeesTruly(a)'
  BY <1>1, <1>2, <1>3 DEF AttemptInvariant, NotYetPrepared, SeesTruly, At
<1>7. IdentifiesLiving(a)'
  BY <1>1, <1>2, <1>3, <1>4, <1>5
     DEF AttemptInvariant, IdentifiesLiving, Alone, HostKept
<1>8. Covered(a)'
  BY <1>2 DEF Covered, Held
<1>9. Inventoried(a)'
  BY <1>2, <1>3, <1>4, <1>5 DEF AttemptInvariant, Inventoried, Alone
<1>10. Authorized(a)'
  BY <1>1, <1>2, <1>4 DEF AttemptInvariant, Authorized, Alone, Begun
<1> QED BY <1>6, <1>7, <1>8, <1>9, <1>10 DEF AttemptInvariant

\* A supervisor that releases its record leaves no process behind.
LEMMA SupervisorReleases ==
  ASSUME TypeOK, NEW a \in Assignments, AttemptInvariant(a),
         \A c \in ChildrenOf(a) : ChildInvariant(c), Alone(a), Alive(a), ~Awaited(a),
         NEW phase \in {"released", "needs_reconciliation"},
         phase = "released" => ~Living(leader[a]),
         Accepts(a, Write(a, phase)), record' = [record EXCEPT ![a] = Write(a, phase)],
         Exit({a}), leader' = leader
  PROVE  AttemptInvariant(a)'
<1>1. Write(a, phase) \in Records /\ Write(a, phase).phase = phase
      /\ Write(a, phase).identity = sup[a].identity
  BY WriteTyped DEF ExecutionPhases
<1>2. RecordMoved(a) /\ record'[a].phase = phase
      /\ record'[a].identity = sup[a].identity
  BY <1>1, RecordWritten, AcceptedRow DEF Writes
<1>3. sup[a].identity \in {0, boot}
  BY DEF AttemptInvariant, IdentifiesLiving
<1>4. sup'[a].step = "exited" /\ ~sup'[a].seen
  BY ExitRows
<1>5. record'[a].phase = "released" => ~LiveFamily(a)
  BY <1>2, ReleaseIsEnd
<1> QED BY <1>2, <1>3, <1>4, <1>5, ExitRow

\* Every action of a supervisor keeps the invariant of its assignment.
LEMMA SupervisorRow ==
  ASSUME TypeOK, NEW a \in Assignments, AttemptInvariant(a),
         \A c \in ChildrenOf(a) : ChildInvariant(c), SupervisorNext(a)
  PROVE  AttemptInvariant(a)'
<1> USE DEF journal, owner, processes
<1>0. Alone(a) /\ Alive(a) /\ ~Awaited(a)
  BY SupervisorAlone, Rows
<1>1. CASE Reserve(a)
  BY <1>0, <1>1, ReservedAttempt
<1>2. CASE ReserveRefused(a)
  <2>1. sup'[a].step = "exited" /\ ~sup'[a].seen
    BY <1>2, ExitRows DEF ReserveRefused
  <2> QED BY <1>0, <1>2, <2>1, ExitRow DEF ReserveRefused
<1>3. CASE SpawnGate(a)
  <2>1. GoesTo(a, "gated")
    BY <1>3, GotoRow DEF SpawnGate, SupervisorSteps
  <2>2. sup[a].step = "reserved" /\ UNCHANGED record /\ leader'[a] = "gate"
    BY <1>3 DEF SpawnGate, At, TypeOK
  <2>3. NotYetPrepared(a)' /\ SeesTruly(a)' /\ Held(a)
    BY <2>1, <2>2 DEF AttemptInvariant, NotYetPrepared, SeesTruly, At, GoesTo, Held
  <2>4. Authorized(a)'
    BY <1>0, <2>1, <2>2
       DEF AttemptInvariant, Authorized, Alone, HostKept, Replayable, GoesTo
  <2> QED BY <1>0, <2>1, <2>2, <2>3, <2>4, MovesOn DEF GoesTo
<1>4. CASE Identify(a)
  <2>1. /\ sup'[a].step = "identified" /\ sup'[a].identity = boot
        /\ sup'[a].seen = sup[a].seen
    BY <1>4, IdentifyRow DEF Identify
  <2>2. sup[a].step = "gated" /\ UNCHANGED <<record, leader>>
    BY <1>4 DEF Identify, At
  <2>3. NotYetPrepared(a)' /\ SeesTruly(a)'
    BY <2>1, <2>2 DEF AttemptInvariant, NotYetPrepared, SeesTruly, At
  <2>4. Authorized(a)'
    BY <1>0, <2>1, <2>2
       DEF AttemptInvariant, Authorized, Alone, HostKept, Replayable
  <2> QED BY <1>0, <2>1, <2>2, <2>3, <2>4, MovesOn
<1>5. CASE WritePrepared(a) \/ WriteAuthorized(a) \/ WriteRunning(a)
             \/ WriteDraining(a)
  BY <1>0, <1>5, JournalledRow
     DEF WritePrepared, WriteAuthorized, WriteRunning, WriteDraining, At
<1>6. CASE Grant(a)
  <2>1. GoesTo(a, "granted")
    BY <1>6, GotoRow DEF Grant, SupervisorSteps
  <2>2. sup[a].step = "prepared" /\ UNCHANGED <<record, leader>> /\ a \in leased
    BY <1>6 DEF Grant, At
  <2>3. NotYetPrepared(a)' /\ SeesTruly(a)'
    BY <2>1, <2>2 DEF AttemptInvariant, NotYetPrepared, SeesTruly, At, GoesTo
  <2>4. Authorized(a)'
    BY <1>0, <2>1, <2>2
       DEF AttemptInvariant, Authorized, Alone, HostKept, Replayable, GoesTo
  <2> QED BY <1>0, <2>1, <2>2, <2>3, <2>4, MovesOn DEF GoesTo
<1>7. CASE SendExec(a)
  <2>1. GoesTo(a, "sent")
    BY <1>7, GotoRow DEF SendExec, SupervisorSteps
  <2>2. /\ sup[a].step = "authorized" /\ UNCHANGED record
        /\ leader[a] = "gate" /\ leader'[a] = "user" /\ Living(leader[a])
    BY <1>7 DEF SendExec, At, TypeOK, Living
  <2>3. NotYetPrepared(a)' /\ SeesTruly(a)'
    BY <2>1, <2>2 DEF AttemptInvariant, NotYetPrepared, SeesTruly, At, GoesTo
  <2>4. Authorized(a)'
    BY <1>0, <2>1, <2>2
       DEF AttemptInvariant, Authorized, Alone, HostKept, Replayable, GoesTo
  <2> QED BY <1>0, <2>1, <2>2, <2>3, <2>4, MovesOn DEF GoesTo
<1>8. CASE AskDrain(a)
  <2>1. /\ sup'[a].step = sup[a].step /\ sup'[a].identity = sup[a].identity
        /\ sup'[a].seen = sup[a].seen
    BY <1>8, DrainRow DEF AskDrain
  <2>2. sup[a].step \in {"running", "draining"} /\ UNCHANGED <<record, leader>>
    BY <1>8 DEF AskDrain, Looping
  <2>3. NotYetPrepared(a)' /\ SeesTruly(a)'
    BY <2>1, <2>2 DEF AttemptInvariant, NotYetPrepared, SeesTruly, At
  <2>4. Authorized(a)'
    BY <1>0, <2>1, <2>2
       DEF AttemptInvariant, Authorized, Alone, HostKept, Replayable
  <2> QED BY <1>0, <2>1, <2>2, <2>3, <2>4, MovesOn
<1>9. CASE ObserveExit(a)
  <2>1. sup'[a].step = sup[a].step /\ sup'[a].identity = sup[a].identity
    BY <1>9, SeenRow DEF ObserveExit
  <2>2. /\ sup[a].step \in {"running", "draining"} /\ UNCHANGED <<record, leader>>
        /\ ~Living(leader[a])
    BY <1>9 DEF ObserveExit, Looping, Living
  <2>3. NotYetPrepared(a)' /\ SeesTruly(a)'
    BY <2>1, <2>2 DEF NotYetPrepared, SeesTruly, At
  <2>4. Authorized(a)'
    BY <1>0, <2>1, <2>2
       DEF AttemptInvariant, Authorized, Alone, HostKept, Replayable
  <2> QED BY <1>0, <2>1, <2>2, <2>3, <2>4, MovesOn
<1>10. CASE Finish(a)
  <2>1. ~Living(leader[a])
    BY <1>10 DEF Finish, AttemptInvariant, SeesTruly
  <2> QED BY <1>0, <1>10, <2>1, SupervisorReleases DEF Finish
<1>11. CASE Fail(a)
  <2>1. GoesTo(a, "failing")
    BY <1>11, GotoRow DEF Fail, SupervisorSteps
  <2>2. UNCHANGED <<record, leader>>
    BY <1>11 DEF Fail
  <2>3. NotYetPrepared(a)' /\ SeesTruly(a)'
    BY <2>1, <2>2 DEF AttemptInvariant, NotYetPrepared, SeesTruly, At, GoesTo
  <2>4. Authorized(a)'
    BY <1>0, <2>1, <2>2
       DEF AttemptInvariant, Authorized, Alone, HostKept, Replayable, GoesTo
  <2> QED BY <1>0, <2>1, <2>2, <2>3, <2>4, MovesOn DEF GoesTo
<1>12. ASSUME NEW confirmed \in BOOLEAN, CleanupLeader(a, confirmed)
       PROVE  AttemptInvariant(a)'
  <2> DEFINE clean == confirmed \/ leader[a] = "none"
  <2>1. clean \in BOOLEAN /\ sup' = [sup EXCEPT ![a].step = "cleaning",
                                                ![a].clean = clean]
    BY <1>12 DEF CleanupLeader
  <2>2. /\ leader'[a] \in {leader[a], "dead"} /\ UNCHANGED record
        /\ clean => ~Living(leader'[a])
    <3>1. leader \in [Assignments -> ProcessStates]
          /\ leader' = AfterKill(leader, a, confirmed) /\ UNCHANGED record
      BY <1>12 DEF CleanupLeader, TypeOK
    <3>2. /\ leader'[a] \in {leader[a], "dead"}
          /\ confirmed => ~Living(leader'[a])
      BY <3>1, Killed
    <3> QED BY <3>1, <3>2 DEF Living
  <2> HIDE DEF clean
  <2>3. /\ sup'[a].step = "cleaning" /\ sup'[a].identity = sup[a].identity
        /\ sup'[a].seen = sup[a].seen /\ sup'[a].clean = clean
    BY <2>1, CleaningRow
  <2>4. Living(leader'[a]) => Living(leader[a])
    BY <2>2 DEF Living
  <2>5. NotYetPrepared(a)' /\ SeesTruly(a)'
    BY <2>2, <2>3, <2>4 DEF AttemptInvariant, NotYetPrepared, SeesTruly, At
  <2>6. Authorized(a)'
    BY <1>0, <2>2, <2>3
       DEF AttemptInvariant, Authorized, Alone, HostKept, Replayable
  <2> QED BY <1>0, <2>2, <2>3, <2>4, <2>5, <2>6, MovesOn
<1>13. ASSUME NEW confirmed \in BOOLEAN, CleanupRecord(a, confirmed)
       PROVE  AttemptInvariant(a)'
  <2> DEFINE phase == IF sup[a].clean /\ confirmed THEN "released"
                      ELSE "needs_reconciliation"
  <2>1. /\ At(a, "cleaning") /\ Exit({a}) /\ leader' = leader
        /\ record' = IF Accepts(a, Write(a, phase))
                     THEN [record EXCEPT ![a] = Write(a, phase)] ELSE record
    BY <1>13 DEF CleanupRecord
  <2>2. /\ phase \in {"released", "needs_reconciliation"}
        /\ phase = "released" => ~Living(leader[a])
    BY <2>1 DEF AttemptInvariant, SeesTruly
  <2> HIDE DEF phase
  <2>3. CASE Accepts(a, Write(a, phase))
    BY <1>0, <2>1, <2>2, <2>3, SupervisorReleases
  <2>4. CASE ~Accepts(a, Write(a, phase))
    <3>1. sup'[a].step = "exited" /\ ~sup'[a].seen
      BY <2>1, ExitRows
    <3> QED BY <1>0, <2>1, <2>4, <3>1, ExitRow
  <2> QED BY <2>3, <2>4
<1> QED BY <1>1, <1>2, <1>3, <1>4, <1>5, <1>6, <1>7, <1>8, <1>9, <1>10, <1>11,
           <1>12, <1>13 DEF SupervisorNext

\* What a supervisor leaves alone, and what it forgets.
SupervisorFrame(a) ==
    /\ \A b \in Assignments \ {a} :
         record'[b] = record[b] /\ sup'[b] = sup[b] /\ leader'[b] = leader[b]
    /\ \A c \in Children : \/ mediated'[c] = mediated[c]
                           \/ mediated'[c] = "none" /\ ParentOf(c) = a
    /\ sup'[a].step \in {"none", "starting", "exited"} =>
         \A c \in ChildrenOf(a) : mediated'[c] = "none"

\* A supervisor that exits forgets its own children.
LEMMA ExitFrame ==
  ASSUME TypeOK, NEW a \in Assignments, Exit({a}), leader' = leader,
         \A b \in Assignments \ {a} : record'[b] = record[b]
  PROVE  SupervisorFrame(a)
BY ExitRows DEF SupervisorFrame, ChildrenOf

\* The supervisor is still there after its step.
LEMMA StaysFrame ==
  ASSUME TypeOK, NEW a \in Assignments, OthersWait(a), mediated' = mediated,
         sup'[a].step \notin {"none", "starting", "exited"},
         \A b \in Assignments \ {a} : record'[b] = record[b] /\ leader'[b] = leader[b]
  PROVE  SupervisorFrame(a)
BY DEF SupervisorFrame, OthersWait

\* Every action of a supervisor leaves the other assignments alone.
LEMMA SupervisorFrames ==
  ASSUME TypeOK, NEW a \in Assignments, SupervisorNext(a)
  PROVE  SupervisorFrame(a)
<1> USE DEF journal, owner, processes
<1>1. CASE Reserve(a)
  <2>1. GoesTo(a, "reserved")
    BY <1>1, GotoRow DEF Reserve, SupervisorSteps
  <2>2. \A b \in Assignments \ {a} : record'[b] = record[b]
    BY <1>1, ReservedRow DEF Reserve
  <2> QED BY <1>1, <2>1, <2>2, StaysFrame DEF Reserve, GoesTo
<1>2. CASE ReserveRefused(a)
  BY <1>2, ExitFrame DEF ReserveRefused
<1>3. CASE SpawnGate(a) \/ SendExec(a)
  <2>1. PICK step \in {"gated", "sent"} : GoesTo(a, step)
    BY <1>3, GotoRow DEF SpawnGate, SendExec, SupervisorSteps
  <2>2. /\ UNCHANGED <<record, mediated>>
        /\ \A b \in Assignments \ {a} : leader'[b] = leader[b]
    BY <1>3 DEF SpawnGate, SendExec, TypeOK
  <2> QED BY <2>1, <2>2, StaysFrame DEF GoesTo
<1>4. CASE Identify(a)
  BY <1>4, IdentifyRow, StaysFrame DEF Identify
<1>5. CASE WritePrepared(a) \/ WriteAuthorized(a) \/ WriteRunning(a)
             \/ WriteDraining(a)
  <2>1. PICK phase \in {"prepared", "authorized", "running", "draining"} :
          Journals(a, phase)
    BY <1>5 DEF WritePrepared, WriteAuthorized, WriteRunning, WriteDraining
  <2>2. GoesTo(a, phase) /\ \A b \in Assignments \ {a} : record'[b] = record[b]
    BY <2>1, JournalsRow DEF Writes
  <2>3. UNCHANGED <<mediated, leader>>
    BY <1>5 DEF WritePrepared, WriteAuthorized, WriteRunning, WriteDraining
  <2> QED BY <2>2, <2>3, StaysFrame DEF GoesTo
<1>6. CASE Grant(a) \/ Fail(a)
  <2>1. PICK step \in {"granted", "failing"} : GoesTo(a, step)
    BY <1>6, GotoRow DEF Grant, Fail, SupervisorSteps
  <2>2. UNCHANGED <<record, mediated, leader>>
    BY <1>6 DEF Grant, Fail
  <2> QED BY <2>1, <2>2, StaysFrame DEF GoesTo
<1>7. CASE AskDrain(a) \/ ObserveExit(a)
  <2>1. OthersWait(a) /\ sup'[a].step = sup[a].step
    BY <1>7, DrainRow, SeenRow DEF AskDrain, ObserveExit
  <2>2. UNCHANGED <<record, mediated, leader>> /\ Looping(a)
    BY <1>7 DEF AskDrain, ObserveExit
  <2> QED BY <2>1, <2>2, StaysFrame DEF Looping
<1>8. ASSUME NEW confirmed \in BOOLEAN, CleanupLeader(a, confirmed)
      PROVE  SupervisorFrame(a)
  <2> DEFINE clean == confirmed \/ leader[a] = "none"
  <2>1. clean \in BOOLEAN /\ sup' = [sup EXCEPT ![a].step = "cleaning",
                                                ![a].clean = clean]
    BY <1>8 DEF CleanupLeader
  <2>2. /\ UNCHANGED <<record, mediated>>
        /\ \A b \in Assignments \ {a} : leader'[b] = leader[b]
    <3>1. leader \in [Assignments -> ProcessStates] /\ UNCHANGED <<record, mediated>>
          /\ leader' = AfterKill(leader, a, confirmed)
      BY <1>8 DEF CleanupLeader, TypeOK
    <3> QED BY <3>1, Killed
  <2> HIDE DEF clean
  <2>3. OthersWait(a) /\ sup'[a].step = "cleaning"
    BY <2>1, CleaningRow
  <2> QED BY <2>2, <2>3, StaysFrame
<1>9. ASSUME NEW phase \in {"released", "needs_reconciliation"},
             \/ record' = record
             \/ record' = [record EXCEPT ![a] = Write(a, phase)],
             Exit({a}), leader' = leader
      PROVE  SupervisorFrame(a)
  <2>1. Write(a, phase) \in Records
    BY WriteTyped DEF ExecutionPhases
  <2>2. \A b \in Assignments \ {a} : record'[b] = record[b]
    BY <1>9, <2>1, RecordWritten DEF Writes
  <2> QED BY <1>9, <2>2, ExitFrame
<1>10. CASE Finish(a)
  BY <1>9, <1>10 DEF Finish
<1>11. ASSUME NEW confirmed \in BOOLEAN, CleanupRecord(a, confirmed)
       PROVE  SupervisorFrame(a)
  BY <1>9, <1>11 DEF CleanupRecord
<1> QED BY <1>1, <1>2, <1>3, <1>4, <1>5, <1>6, <1>7, <1>8, <1>10, <1>11
        DEF SupervisorNext

\* A child whose parent's record is written, or whose supervisor moves.
LEMMA ChildOfWritten ==
  ASSUME NEW c \in Children, ChildInvariant(c), HostKept,
         family'[c] = family[c], worker'[c] = worker[c],
         mediated'[c] \in {mediated[c], "none"},
         ~Awaited(ParentOf(c)), RecordStep(ParentOf(c)),
         ParentOf(c) \in leased => ParentOf(c) \in leased',
         Covered(ParentOf(c))',
         sup'[ParentOf(c)].step \in {"none", "starting", "exited"} =>
           mediated'[c] = "none"
  PROVE  ChildInvariant(c)'
<1> DEFINE a == ParentOf(c)
<1>1. (Replayable' <=> Replayable) /\ (HeldChild(c)' <=> HeldChild(c))
      /\ boot' = boot
  BY DEF HostKept, Replayable, HeldChild
<1>2. a \in Assignments /\ c \in ChildrenOf(a)
  BY ParentIsAssignment
<1>3. HeldChild(c) => Held(a)'
  BY <1>2 DEF ChildInvariant, RecordStep, RecordReserved, RecordMoved, Held,
              HeldChild, HeldChildren
<1>4. Living(worker[c]) /\ record[a].phase = "needs_reconciliation" =>
        record'[a].phase = "needs_reconciliation"
  <2>1. Living(worker'[c]) => record'[a].phase # "released"
    BY <1>2 DEF Covered, LiveFamily
  <2> QED BY <2>1 DEF RecordStep, RecordReserved, RecordMoved
<1> QED BY <1>1, <1>3, <1>4 DEF ChildInvariant

\* A step of one supervisor keeps the rows of every assignment and child.
LEMMA SupervisorSafe ==
  ASSUME TypeOK, NodeInvariant, NEW a \in Assignments, SupervisorNext(a)
  PROVE  /\ \A b \in Assignments : AttemptInvariant(b)'
         /\ \A c \in Children : ChildInvariant(c)'
<1>0. /\ \A b \in Assignments : AttemptInvariant(b)
      /\ \A c \in Children : ChildInvariant(c)
  BY DEF NodeInvariant
<1>1. Alone(a) /\ Alive(a) /\ SupervisorFrame(a) /\ JournalStep
  BY SupervisorAlone, SupervisorFrames, SupervisorJournal
<1>2. \A b \in Assignments : ~Awaited(b)
  BY <1>1 DEF Awaited
<1>3. AttemptInvariant(a)'
  BY <1>0, SupervisorRow DEF ChildrenOf
<1>4. ASSUME NEW b \in Assignments \ {a} PROVE RowKept(b) /\ AttemptInvariant(b)'
  <2>1. RowKept(b) /\ HostKept
    BY <1>1 DEF RowKept, SupervisorFrame, Alone
  <2>2. LiveFamily(b)' <=> LiveFamily(b)
    BY <1>1, LivesOn DEF SupervisorFrame, Alone
  <2>3. agent' = "down" \/ agent # "down" \/ ~Replayable
    BY <1>1 DEF Alone
  <2> QED BY <1>0, <1>2, <2>1, <2>2, <2>3, AttemptKept
<1>5. ASSUME NEW c \in Children PROVE ChildInvariant(c)'
  <2>1. ParentOf(c) \in Assignments /\ c \in ChildrenOf(ParentOf(c))
    BY ParentIsAssignment
  <2>2. CASE ParentOf(c) = a
    BY <1>0, <1>1, <1>2, <1>3, <2>1, <2>2, ChildOfWritten
       DEF Alone, SupervisorFrame, JournalStep, AttemptInvariant
  <2>3. CASE ParentOf(c) # a
    <3>1. KidKept(c) /\ ParentKept(ParentOf(c)) /\ HostKept
      BY <1>1, <1>4, <2>1, <2>3, SameParent DEF KidKept, SupervisorFrame, Alone
    <3> QED BY <1>0, <1>2, <2>1, <3>1, ChildKept
  <2> QED BY <2>2, <2>3
<1> QED BY <1>3, <1>4, <1>5

\* A leader comes alive only by its own supervisor, which has reserved.
LEMMA Spawned ==
  ASSUME TypeOK, NEW a \in Assignments, SupervisorNext(a), Living(leader'[a])
  PROVE  Living(leader[a]) \/ sup[a].step = "reserved"
<1> USE DEF processes
<1>1. CASE SpawnGate(a)
  BY <1>1 DEF SpawnGate, At
<1>2. CASE SendExec(a)
  BY <1>2 DEF SendExec, Living
<1>3. ASSUME NEW confirmed \in BOOLEAN, CleanupLeader(a, confirmed)
      PROVE  Living(leader[a])
  <2>1. leader \in [Assignments -> ProcessStates]
        /\ leader' = AfterKill(leader, a, confirmed)
    BY <1>3 DEF CleanupLeader, TypeOK
  <2>2. leader'[a] \in {leader[a], "dead"}
    BY <2>1, Killed
  <2> QED BY <2>2 DEF Living
<1>4. CASE leader' = leader
  BY <1>4
<1> QED BY <1>1, <1>2, <1>3, <1>4
    DEF SupervisorNext, Reserve, ReserveRefused, Identify, WritePrepared, Grant,
        WriteAuthorized, WriteRunning, AskDrain, WriteDraining, ObserveExit,
        Finish, Fail, CleanupRecord

\* No accepted write makes a reservation.
LEMMA OnlyReserve ==
  ASSUME TypeOK, NEW a \in Assignments, SupervisorNext(a), RecordReserved(a)
  PROVE  Reserve(a)
<1> USE DEF journal
<1>1. CASE record' = record
  BY <1>1 DEF RecordReserved
<1>2. ASSUME NEW new, Accepts(a, new) PROVE FALSE
  BY <1>2 DEF Accepts, Follows, RecordReserved
<1> QED BY <1>1, <1>2
    DEF SupervisorNext, ReserveRefused, SpawnGate, Identify, WritePrepared, Grant,
        WriteAuthorized, SendExec, WriteRunning, AskDrain, WriteDraining,
        ObserveExit, Finish, Fail, CleanupLeader, CleanupRecord, Journals

\* While nothing is awaited, all that lives is charged.
LEMMA LivingHeld ==
  ASSUME NodeInvariant, NEW a \in Assignments, ~Awaited(a), LiveFamily(a)
  PROVE  Held(a)
<1>1. CASE Living(leader[a])
  BY <1>1 DEF NodeInvariant, AttemptInvariant, Covered
<1>2. ASSUME NEW c \in ChildrenOf(a), Living(worker[c]) PROVE Held(a)
  <2>1. c \in Children /\ ParentOf(c) = a /\ ChildInvariant(c)
    BY DEF ChildrenOf, NodeInvariant
  <2> QED BY <1>2, <2>1 DEF ChildInvariant, Held
<1> QED BY <1>1, <1>2 DEF LiveFamily

\* As long as nobody becomes busy, no two attempts do.
LEMMA BusyKept ==
  ASSUME OneBusy, \A a \in Assignments : Busy(a)' => Busy(a)
  PROVE  OneBusy'
BY DEF OneBusy

\* A reservation is the only way to become busy, and it is refused while
\* another attempt of the task is held.
LEMMA SupervisorBusy ==
  ASSUME TypeOK, NodeInvariant, NEW a \in Assignments, SupervisorNext(a)
  PROVE  OneBusy'
<1>1. Alone(a) /\ Alive(a) /\ SupervisorFrame(a) /\ JournalStep
  BY SupervisorAlone, SupervisorFrames, SupervisorJournal
<1>2. OneBusy /\ \A b \in Assignments : ~Awaited(b) /\ AttemptInvariant(b)
  BY <1>1 DEF Awaited, NodeInvariant
<1>3. ASSUME NEW b \in Assignments \ {a} PROVE Busy(b)' <=> Busy(b)
  <2>1. LiveFamily(b)' <=> LiveFamily(b)
    BY <1>1, LivesOn DEF SupervisorFrame, Alone
  <2>2. (Held(b)' <=> Held(b)) /\ (Alive(b)' <=> Alive(b))
    BY <1>1 DEF SupervisorFrame, Held, Alive
  <2> QED BY <2>1, <2>2 DEF Busy
<1>4. Living(leader'[a]) => Living(leader[a]) \/ Held(a)
  BY <1>2, Spawned DEF AttemptInvariant, NotYetPrepared, Held
<1>5. LiveFamily(a)' => Busy(a)
  BY <1>1, <1>4 DEF Alone, Busy, LiveFamily
<1>6. CASE RecordReserved(a)
  <2>1. Reserve(a)
    BY <1>6, OnlyReserve
  <2>2. \A b \in Assignments : Held(b) => TaskOf[b] # TaskOf[a]
    BY <2>1 DEF Reserve, Reservable
  <2>3. \A b \in Assignments : Busy(b) => TaskOf[b] # TaskOf[a]
    BY <1>2, <2>2, LivingHeld DEF Busy
  <2> QED BY <1>2, <1>3, <2>3 DEF OneBusy
<1>7. CASE ~RecordReserved(a)
  <2>1. Held(a)' => Held(a)
    BY <1>1, <1>7 DEF JournalStep, RecordStep, RecordMoved, Held
  <2>2. Busy(a)' => Busy(a)
    BY <1>1, <1>5, <2>1 DEF Busy
  <2> QED BY <1>2, <1>3, <2>2, BusyKept
<1> QED BY <1>6, <1>7

\* What a pass has read stays so while a supervisor writes.
LEMMA SupervisorReads ==
  ASSUME TypeOK, NodeInvariant, NEW a \in Assignments, SupervisorNext(a)
  PROVE  AgentInvariant'
<1>1. Alone(a) /\ SupervisorFrame(a) /\ JournalStep
  BY SupervisorAlone, SupervisorFrames, SupervisorJournal
<1>2. AgentInvariant /\ AttemptInvariant(a) /\ pass \in PassRow
  BY Rows DEF NodeInvariant
<1>3. \A b \in Assignments : record[b].identity # 0 =>
        record'[b].identity = record[b].identity
  BY <1>1 DEF JournalStep, RecordStep, RecordReserved, RecordMoved
<1>4. \A b \in Assignments : record[b].identity # 0 =>
        (Living(leader'[b]) => Living(leader[b]))
  BY <1>1, <1>2, Spawned
     DEF SupervisorFrame, AttemptInvariant, NotYetPrepared
<1>5. ReadsTruly'
  BY <1>1, <1>2, <1>3, <1>4 DEF AgentInvariant, ReadsTruly, Alone, PassRow
<1> QED BY <1>1, <1>2, <1>5 DEF AgentInvariant, Alone, HostKept, Replayable

-----------------------------------------------------------------------------
(* A managed child.                                                        *)

\* What a step of one child leaves alone.
ChildFrame(c) ==
    LET a == ParentOf(c) IN
    /\ HostKept
    /\ UNCHANGED <<record, leader, agent, slots, pass, toImport, open, registered,
                   leased>>
    /\ \A d \in Children \ {c} : family'[d] = family[d] /\ worker'[d] = worker[d]
    /\ \A d \in Children \ {c} : mediated'[d] \in {mediated[d], "released", "lost"}
    /\ \A d \in Children : ParentOf(d) # a => mediated'[d] = mediated[d]
    /\ sup[a].step \in {"running", "draining", "cleaning"} /\ OthersWait(a)
    /\ sup'[a].step \in {sup[a].step, "failing"}
    /\ sup'[a].identity = sup[a].identity /\ sup'[a].seen = sup[a].seen
    /\ sup'[a].clean => sup[a].clean
    /\ Living(worker'[c]) => Living(worker[c]) \/ ParentAuthorizes(c)

\* Every action of a child is confined to it and to its supervisor.
LEMMA ChildFrames ==
  ASSUME TypeOK, NEW c \in Children, ChildNext(c)
  PROVE  ChildFrame(c)
<1> USE DEF journal, owner, processes, host, service, remote, HostKept
<1> DEFINE a == ParentOf(c)
<1>0. /\ a \in Assignments /\ sup \in [Assignments -> SupRow]
      /\ family \in [Children -> ChildRow]
      /\ mediated \in [Children -> MediatedPhases]
      /\ worker \in [Children -> ProcessStates]
  BY ParentIsAssignment, Rows DEF TypeOK
<1>1. CASE PrepareChild(c)
  <2>1. \A d \in Children \ {c} : family'[d] = family[d]
    BY <1>1, PreparedChildRow DEF PrepareChild
  <2> QED BY <1>0, <1>1, <2>1 DEF PrepareChild, ChildFrame, At, OthersWait
<1>2. CASE AuthorizeChild(c) \/ RunChild(c) \/ DrainChild(c) \/ ReapChild(c)
  <2>1. PICK phase \in {"authorized", "running", "draining", "released"} :
          TicksChild(c, phase)
    BY <1>2 DEF AuthorizeChild, RunChild, DrainChild, ReapChild
  <2>2. /\ \A d \in Children \ {c} : family'[d] = family[d] /\ mediated'[d] = mediated[d]
    BY <2>1, TickRow DEF ChildGoesTo
  <2> QED BY <1>0, <2>1, <2>2 DEF TicksChild, ChildFrame, Looping, OthersWait
<1>3. CASE ExecChild(c)
  <2>1. Living(worker[c]) /\ \A d \in Children \ {c} : worker'[d] = worker[d]
    BY <1>0, <1>3 DEF ExecChild, Living
  <2> QED BY <1>0, <1>3, <2>1 DEF ExecChild, Authorizes, At, ChildFrame, OthersWait
<1>4. ASSUME NEW flag \in BOOLEAN, CreateChild(c, flag)
      PROVE  ChildFrame(c)
  <2>1. \A d \in Children \ {c} :
          family'[d] = family[d] /\ worker'[d] = worker[d] /\ mediated'[d] = mediated[d]
    BY <1>0, <1>4 DEF CreateChild
  <2>2. ParentAuthorizes(c) /\ At(a, "running")
    BY <1>4 DEF CreateChild, Authorizes, ChildReservable
  <2> QED BY <1>0, <1>4, <2>1, <2>2 DEF CreateChild, ChildFrame, OthersWait, At
<1>5. ASSUME NEW flag \in BOOLEAN, FailChild(c, flag)
      PROVE  ChildFrame(c)
  <2>1. \A d \in Children \ {c} : family'[d] = family[d] /\ mediated'[d] = mediated[d]
    BY <1>0, <1>5 DEF FailChild
  <2>2. /\ \A d \in Children \ {c} : worker'[d] = worker[d]
        /\ worker'[c] \in {worker[c], "dead"}
    <3>1. worker' = AfterKill(worker, c, flag)
      BY <1>5 DEF FailChild
    <3> QED BY <1>0, <3>1, Killed
  <2>3. /\ OthersWait(a) /\ sup'[a].step \in {sup[a].step, "failing"}
        /\ sup'[a].identity = sup[a].identity /\ sup'[a].seen = sup[a].seen
        /\ sup'[a].clean = sup[a].clean
    BY <1>0, <1>5, GotoRow DEF FailChild, GoesTo, OthersWait, SupervisorSteps
  <2>4. Living(worker'[c]) => Living(worker[c])
    BY <2>2 DEF Living
  <2> QED BY <1>0, <1>5, <2>1, <2>2, <2>3, <2>4 DEF FailChild, Looping, ChildFrame
<1>6. ASSUME NEW flag \in BOOLEAN, CleanupChild(c, flag)
      PROVE  ChildFrame(c)
  <2>1. /\ \A d \in Children \ {c} : worker'[d] = worker[d]
        /\ worker'[c] \in {worker[c], "dead"}
    <3>1. worker' = AfterKill(worker, c, flag)
      BY <1>6 DEF CleanupChild
    <3> QED BY <1>0, <3>1, Killed
  <2>2. Living(worker'[c]) => Living(worker[c])
    BY <2>1 DEF Living
  <2>3. \A d \in Children \ {c} : family'[d] = family[d]
    BY <1>6, CleanupRows DEF ChildGoesTo
  <2>4. At(a, "cleaning") /\ UNCHANGED <<record, leader, host, service, remote>>
    BY <1>6 DEF CleanupChild
  <2> QED BY <1>6, <2>1, <2>2, <2>3, <2>4, CleanupRows DEF ChildFrame, At
<1> QED BY <1>1, <1>2, <1>3, <1>4, <1>5, <1>6 DEF ChildNext

\* A child may be given up; nothing else about it is known less.
LEMMA SiblingKept ==
  ASSUME TypeOK, NEW c \in Children, ChildFrame(c), NEW d \in Children \ {c},
         ChildInvariant(d)
  PROVE  ChildInvariant(d)'
<1>1. /\ Replayable' <=> Replayable
      /\ HeldChild(d)' <=> HeldChild(d)
      /\ Held(ParentOf(d))' <=> Held(ParentOf(d))
      /\ Living(worker'[d]) <=> Living(worker[d])
  BY DEF ChildFrame, HostKept, Replayable, HeldChild, Held, Living
<1>2. ~Awaited(ParentOf(d)) /\ ParentOf(d) \in Assignments
  BY ParentIsAssignment DEF ChildFrame, Awaited, Alive
<1>3. sup'[ParentOf(d)].step \in {"none", "starting", "exited"} =>
        mediated'[d] = mediated[d] /\ sup'[ParentOf(d)] = sup[ParentOf(d)]
  BY <1>2 DEF ChildFrame, OthersWait
<1> QED BY <1>1, <1>2, <1>3 DEF ChildInvariant, ChildFrame, HostKept

\* The row of c after a step of c, from what its action says of it.
LEMMA ChildAfter ==
  ASSUME TypeOK, NEW c \in Children, ChildFrame(c), ChildInvariant(c),
         Living(worker'[c]) => /\ family'[c].identity \in {0, boot}
                               /\ HeldChild(c) => HeldChild(c)'
                               /\ family'[c].phase # "released",
         HeldChild(c)' => Held(ParentOf(c)),
         mediated'[c] \in {"authorized", "sent"} => Begun(family'[c].phase),
         worker'[c] = "user" => /\ ParentOf(c) \in leased
                                /\ Replayable \/ Begun(family'[c].phase),
         Living(worker'[c]) => Living(worker[c]) \/ HeldChild(c)'
  PROVE  ChildInvariant(c)'
<1> DEFINE a == ParentOf(c)
<1>1. /\ Replayable' <=> Replayable
      /\ Held(a)' <=> Held(a)
  BY DEF ChildFrame, HostKept, Replayable, Held
<1>2. ~Awaited(a) /\ a \in Assignments
  BY ParentIsAssignment DEF ChildFrame, Awaited, Alive
<1>3. sup'[a].step \notin {"none", "starting", "exited"}
  BY DEF ChildFrame
<1> QED BY <1>1, <1>2, <1>3 DEF ChildInvariant, ChildFrame, HostKept

\* A tick, a failure and a cleanup write a phase that follows.
LEMMA ChildFollowed ==
  ASSUME TypeOK, NEW c \in Children, ChildFrame(c), ChildInvariant(c),
         NEW phase \in {"authorized", "running", "draining", "released",
                        "needs_reconciliation"},
         ChildAccepts(c, phase), ChildGoesTo(c, phase),
         worker'[c] \in {worker[c], "dead"},
         phase = "released" => ~Living(worker'[c]),
         mediated'[c] \in {phase, "released", "lost", "uncertain"}
  PROVE  ChildInvariant(c)'
<1>1. family[c].phase \in ExecutionPhases
  BY Rows DEF ChildRow
<1>2. phase = "released" \/ HeldChild(c)
  BY <1>1 DEF ChildAccepts, ChildFollows, ExecutionPhases, HeldChild
<1>3. HeldChild(c)' => Held(ParentOf(c))
  BY <1>2 DEF ChildInvariant, HeldChild, ChildGoesTo
<1>4. Living(worker'[c]) => Living(worker[c]) /\ HeldChild(c)'
  BY DEF Living, HeldChild, ChildGoesTo
<1>5. Begun(phase) /\ family'[c].phase = phase /\ family'[c].identity = family[c].identity
  BY DEF Begun, ChildGoesTo
<1> QED BY <1>3, <1>4, <1>5, ChildAfter DEF ChildInvariant

\* Every action of a child keeps its invariant.
LEMMA OwnChildRow ==
  ASSUME TypeOK, ChildrenNamed, NEW c \in Children, ChildInvariant(c), ChildNext(c),
         AttemptInvariant(ParentOf(c))
  PROVE  ChildInvariant(c)'
<1> USE DEF journal, owner, processes
<1> DEFINE a == ParentOf(c)
<1>0. /\ a \in Assignments /\ ChildFrame(c) /\ ~Awaited(a)
      /\ family \in [Children -> ChildRow]
      /\ mediated \in [Children -> MediatedPhases]
      /\ worker \in [Children -> ProcessStates]
  BY ParentIsAssignment, ChildFrames, Rows DEF TypeOK, ChildFrame, Awaited, Alive
<1>1. CASE PrepareChild(c)
  <2>1. /\ family'[c].phase = "prepared" /\ family'[c].identity = boot
        /\ mediated'[c] = "prepared" /\ worker'[c] = worker[c] /\ worker[c] = "gate"
        /\ Held(a)
    BY <1>0, <1>1, PreparedChildRow DEF PrepareChild, ParentAuthorizes, Held
  <2>2. HeldChild(c)'
    BY <2>1 DEF HeldChild
  <2> QED BY <1>0, <2>1, <2>2, ChildAfter
<1>2. ASSUME NEW phase \in {"authorized", "running", "draining", "released"},
             TicksChild(c, phase), phase = "released" => worker[c] = "dead"
      PROVE  ChildInvariant(c)'
  <2>1. ChildAccepts(c, phase) /\ ChildGoesTo(c, phase) /\ mediated'[c] = phase
    BY <1>2, TickRow
  <2>2. worker' = worker /\ (phase = "released" => ~Living(worker'[c]))
    BY <1>2 DEF TicksChild, Living
  <2> QED BY <1>0, <2>1, <2>2, ChildFollowed
<1>3. CASE ExecChild(c)
  <2>1. /\ worker[c] = "gate" /\ worker'[c] = "user" /\ family' = family
        /\ mediated[c] = "authorized" /\ sup[a].step = "running"
    BY <1>0, <1>3 DEF ExecChild, Authorizes, At
  <2>2. a \in leased /\ Begun(family[c].phase)
    BY <2>1 DEF AttemptInvariant, Authorized, ChildInvariant
  <2>3. (HeldChild(c)' <=> HeldChild(c)) /\ Living(worker[c])
    BY <2>1 DEF HeldChild, Living
  <2> QED BY <1>0, <2>1, <2>2, <2>3, ChildAfter DEF ChildInvariant
<1>4. ASSUME NEW spawned \in BOOLEAN, CreateChild(c, spawned)
      PROVE  ChildInvariant(c)'
  <2>1. /\ family[c].phase = "none" /\ family[c].identity = 0
        /\ record[a].phase \in {"authorized", "running"} /\ Held(a)
    BY <1>4 DEF CreateChild, ChildReservable, ParentAuthorizes, ChildrenNamed, Held
  <2>2. ~Living(worker[c]) /\ mediated[c] \notin {"authorized", "sent"}
    BY <1>0, <2>1 DEF ChildInvariant, HeldChild, Begun
  <2>3. CASE spawned
    <3>1. ChildGoesTo(c, "reserved")
      BY <1>4, <2>3, ChildPhaseRow DEF CreateChild, ExecutionPhases
    <3>2. worker'[c] = "gate" /\ mediated'[c] = "reserved"
      BY <1>0, <1>4, <2>3 DEF CreateChild
    <3>3. /\ family'[c].phase = "reserved" /\ family'[c].identity = 0
          /\ HeldChild(c)'
      BY <2>1, <3>1 DEF ChildGoesTo, HeldChild
    <3> QED BY <1>0, <2>1, <3>2, <3>3, ChildAfter
  <2>4. CASE ~spawned
    <3>1. ChildGoesTo(c, "released")
      BY <1>4, <2>4, ChildPhaseRow DEF CreateChild, ExecutionPhases
    <3>2. worker'[c] = worker[c] /\ mediated'[c] = mediated[c]
      BY <1>4, <2>4 DEF CreateChild
    <3>3. ~HeldChild(c)' /\ ~Living(worker'[c]) /\ worker'[c] # "user"
      BY <2>2, <3>1, <3>2 DEF ChildGoesTo, HeldChild, Living
    <3> QED BY <1>0, <2>2, <3>2, <3>3, ChildAfter
  <2> QED BY <2>3, <2>4
<1>5. ASSUME NEW confirmed \in BOOLEAN, FailChild(c, confirmed)
      PROVE  ChildInvariant(c)'
  <2> DEFINE phase == IF confirmed THEN "released" ELSE "needs_reconciliation"
  <2>1. /\ ChildAccepts(c, phase) /\ worker' = AfterKill(worker, c, confirmed)
        /\ family' = [family EXCEPT ![c].phase = phase]
        /\ mediated'[c] \in {"released", "uncertain"}
    BY <1>0, <1>5 DEF FailChild
  <2>2. /\ phase \in {"released", "needs_reconciliation"} /\ phase \in ExecutionPhases
        /\ phase = "released" => confirmed
    BY DEF ExecutionPhases
  <2> HIDE DEF phase
  <2>3. ChildGoesTo(c, phase)
    BY <2>1, <2>2, ChildPhaseRow
  <2>4. /\ worker'[c] \in {worker[c], "dead"}
        /\ phase = "released" => ~Living(worker'[c])
    BY <1>0, <2>1, <2>2, Killed
  <2> QED BY <1>0, <2>1, <2>2, <2>3, <2>4, ChildFollowed
<1>6. ASSUME NEW confirmed \in BOOLEAN, CleanupChild(c, confirmed)
      PROVE  ChildInvariant(c)'
  <2>1. /\ worker' = AfterKill(worker, c, confirmed)
        /\ mediated[c] \notin {"none", "released", "lost"}
    BY <1>6 DEF CleanupChild
  <2>2. mediated'[c] \in {"released", "lost"}
    BY <1>0, <1>6, <2>1, ParentIsAssignment DEF CleanupChild
  <2>3. /\ worker'[c] \in {worker[c], "dead"}
        /\ confirmed => ~Living(worker'[c])
    BY <1>0, <2>1, Killed
  <2>4. CASE ChildAccepts(c, Verdict(confirmed)) /\ ChildGoesTo(c, Verdict(confirmed))
    <3>1. /\ Verdict(confirmed) \in {"released", "needs_reconciliation"}
          /\ Verdict(confirmed) = "released" => confirmed
      BY DEF Verdict
    <3> QED BY <1>0, <2>2, <2>3, <2>4, <3>1, ChildFollowed
  <2>5. CASE family' = family
    <3>1. /\ HeldChild(c)' <=> HeldChild(c)
          /\ Living(worker'[c]) => Living(worker[c])
          /\ worker'[c] = "user" => worker[c] = "user"
      BY <2>3, <2>5 DEF HeldChild, Living
    <3> QED BY <1>0, <2>2, <2>5, <3>1, ChildAfter DEF ChildInvariant
  <2> QED BY <1>6, <2>4, <2>5, CleanupRows
<1> QED BY <1>1, <1>2, <1>3, <1>4, <1>5, <1>6
        DEF ChildNext, AuthorizeChild, RunChild, DrainChild, ReapChild

\* A family only grows under a parent that may still authorize.
LEMMA FamilyGrows ==
  ASSUME NEW c \in Children, ChildFrame(c), NEW a \in Assignments
  PROVE  /\ a # ParentOf(c) => (LiveFamily(a)' <=> LiveFamily(a))
         /\ LiveFamily(a)' => LiveFamily(a) \/ (a = ParentOf(c) /\ ParentAuthorizes(c))
<1>1. leader' = leader
  BY DEF ChildFrame
<1>2. ASSUME a # ParentOf(c) PROVE LiveFamily(a)' <=> LiveFamily(a)
  <2>1. \A d \in ChildrenOf(a) : worker'[d] = worker[d]
    BY <1>2 DEF ChildrenOf, ChildFrame
  <2> QED BY <1>1, <2>1, LivesOn
<1>3. ASSUME a = ParentOf(c), LiveFamily(a)', ~ParentAuthorizes(c) PROVE LiveFamily(a)
  <2>1. \A d \in ChildrenOf(a) : Living(worker'[d]) => Living(worker[d])
    BY <1>3 DEF ChildrenOf, ChildFrame
  <2> QED BY <1>1, <1>3, <2>1 DEF LiveFamily
<1> QED BY <1>2, <1>3

\* And that of its parent.
LEMMA ParentRow ==
  ASSUME TypeOK, NEW c \in Children, ChildFrame(c), AttemptInvariant(ParentOf(c))
  PROVE  AttemptInvariant(ParentOf(c))'
<1> DEFINE a == ParentOf(c)
<1>1. a \in Assignments /\ Alive(a) /\ Alive(a)' /\ ~Awaited(a)
  BY ParentIsAssignment DEF ChildFrame, Alive, Awaited
<1>2. /\ Replayable' <=> Replayable
      /\ Held(a)' <=> Held(a)
  BY DEF ChildFrame, HostKept, Replayable, Held
<1>3. NotYetPrepared(a)'
  BY DEF NotYetPrepared, At, ChildFrame
<1>4. SeesTruly(a)'
  BY DEF AttemptInvariant, SeesTruly, At, ChildFrame
<1>5. IdentifiesLiving(a)'
  BY <1>1 DEF AttemptInvariant, IdentifiesLiving, ChildFrame, HostKept
<1>6. Covered(a)'
  BY <1>1, <1>2, FamilyGrows DEF AttemptInvariant, Covered, ChildFrame, ParentAuthorizes
<1>7. Inventoried(a)'
  BY <1>1, <1>2 DEF AttemptInvariant, Inventoried, ChildFrame
<1>8. Authorized(a)'
  BY <1>2 DEF AttemptInvariant, Authorized, ChildFrame
<1> QED BY <1>3, <1>4, <1>5, <1>6, <1>7, <1>8 DEF AttemptInvariant

\* A step of one child keeps the invariant of the node.
LEMMA ChildSafe ==
  ASSUME TypeOK, ChildrenNamed, NodeInvariant, NEW c \in Children, ChildNext(c)
  PROVE  NodeInvariant'
<1>0. /\ \A a \in Assignments : AttemptInvariant(a)
      /\ \A d \in Children : ChildInvariant(d)
      /\ AgentInvariant /\ OneBusy
  BY DEF NodeInvariant
<1>1. ChildFrame(c) /\ ParentOf(c) \in Assignments /\ JournalStep
  BY ChildFrames, ParentIsAssignment, ChildJournal
<1>2. ASSUME NEW a \in Assignments PROVE AttemptInvariant(a)'
  <2>1. CASE a = ParentOf(c)
    BY <1>0, <1>1, <2>1, ParentRow
  <2>2. CASE a # ParentOf(c)
    <3>1. RowKept(a) /\ HostKept /\ ~Awaited(a)
      BY <1>1, <2>2 DEF ChildFrame, RowKept, OthersWait, Awaited, Alive
    <3>2. LiveFamily(a)' <=> LiveFamily(a)
      BY <1>1, <2>2, FamilyGrows
    <3>3. agent' = "down" \/ agent # "down" \/ ~Replayable
      BY <1>1 DEF ChildFrame
    <3> QED BY <1>0, <3>1, <3>2, <3>3, AttemptKept
  <2> QED BY <2>1, <2>2
<1>3. ASSUME NEW d \in Children PROVE ChildInvariant(d)'
  BY <1>0, <1>1, OwnChildRow, SiblingKept
<1>4. OneBusy'
  <2>1. ASSUME NEW a \in Assignments PROVE Busy(a)' => Busy(a)
    <3>1. LiveFamily(a)' => LiveFamily(a) \/ (a = ParentOf(c) /\ ParentAuthorizes(c))
      BY <1>1, FamilyGrows
    <3>2. /\ Held(a)' <=> Held(a)
          /\ Alive(a)' <=> Alive(a)
          /\ Alive(ParentOf(c))
      BY <1>1 DEF ChildFrame, Held, Alive, OthersWait
    <3> QED BY <3>1, <3>2 DEF Busy, ParentAuthorizes, Held
  <2> QED BY <1>0, <2>1, BusyKept
<1>5. AgentInvariant'
  <2>1. \A d \in Children : family[d].identity # 0 =>
          family'[d].identity = family[d].identity
    BY <1>1 DEF JournalStep, ChildStep, ChildrenNamed
  <2>2. pass \in PassRow
    BY Rows
  <2>3. ReadsTruly'
    BY <1>0, <1>1, <2>1, <2>2 DEF AgentInvariant, ReadsTruly, ChildFrame, PassRow
  <2> QED BY <1>0, <1>1, <2>3 DEF AgentInvariant, ChildFrame, HostKept, Replayable
<1> QED BY <1>2, <1>3, <1>4, <1>5 DEF NodeInvariant

-----------------------------------------------------------------------------
(* Exits, crashes, reboots, and an agent that ends.                        *)

\* Processes end, and with them what they knew; no record changes.
Fades ==
    /\ profile' = profile /\ UNCHANGED <<record, family, open, registered, leased>>
    /\ \A a \in Assignments :
         /\ leader'[a] \in {leader[a], "dead"}
         /\ \/ sup'[a] = sup[a]
            \/ /\ sup'[a].step = "exited" /\ ~sup'[a].seen
               /\ \A c \in ChildrenOf(a) : mediated'[c] = "none"
    /\ \A c \in Children :
         worker'[c] \in {worker[c], "dead"} /\ mediated'[c] \in {mediated[c], "none"}
    /\ UNCHANGED service \/ StopAgent
    /\ \/ boot' = boot
       \/ /\ \A a \in Assignments : ~Living(leader'[a]) /\ ~Alive(a)'
          /\ \A c \in Children : ~Living(worker'[c])

\* Supervisors that exit, as processes that end.
LEMMA ExitFades ==
  ASSUME TypeOK, NEW A, Exit(A)
  PROVE  /\ \A a \in Assignments :
              \/ sup'[a] = sup[a]
              \/ /\ sup'[a].step = "exited" /\ ~sup'[a].seen
                 /\ \A c \in ChildrenOf(a) : mediated'[c] = "none"
         /\ \A c \in Children : mediated'[c] \in {mediated[c], "none"}
BY ExitRows DEF ChildrenOf

\* Every exit, crash and reboot is of this kind, and an aborted pass too.
LEMMA HostFades ==
  ASSUME TypeOK, HostNext \/ AbortPass
  PROVE  Fades
<1> USE DEF journal, owner, processes, host, service, remote
<1>0. /\ leader \in [Assignments -> ProcessStates]
      /\ worker \in [Children -> ProcessStates]
  BY DEF TypeOK
<1>1. ASSUME NEW a \in Assignments, LeaderExit(a) PROVE Fades
  BY <1>0, <1>1 DEF LeaderExit, Fades
<1>2. ASSUME NEW a \in Assignments, SupervisorCrash(a) PROVE Fades
  BY <1>0, <1>2, ExitFades DEF SupervisorCrash, Fades
<1>3. ASSUME NEW c \in Children, WorkerExit(c) PROVE Fades
  BY <1>0, <1>3 DEF WorkerExit, Fades
<1>4. CASE AgentCrash \/ AbortPass
  BY <1>0, <1>4 DEF AgentCrash, AbortPass, Fades
<1>5. CASE Reboot
  <2>1. /\ \A a \in Assignments :
             leader'[a] = IF leader[a] = "none" THEN "none" ELSE "dead"
        /\ \A c \in Children :
             worker'[c] = IF worker[c] = "none" THEN "none" ELSE "dead"
    BY <1>0, <1>5 DEF Reboot, Ended
  <2>2. /\ \A a \in Assignments : ~Living(leader'[a])
        /\ \A c \in Children : ~Living(worker'[c])
    BY <2>1 DEF Living
  <2>3. Exit({a \in Assignments : Alive(a)})
    BY <1>5 DEF Reboot
  <2>4. \A a \in Assignments : ~Alive(a)'
    BY <2>3, ExitRows DEF Alive
  <2>5. /\ profile' = profile /\ UNCHANGED <<record, family, open, registered, leased>>
        /\ StopAgent
    BY <1>5 DEF Reboot
  <2> QED BY <2>1, <2>2, <2>3, <2>4, <2>5, ExitFades DEF Fades
<1> QED BY <1>1, <1>2, <1>3, <1>4, <1>5 DEF HostNext

\* What a step of fading leaves of the living and of the awaited.
LEMMA Faded ==
  ASSUME NEW a \in Assignments, Fades
  PROVE  /\ Alive(a)' => Alive(a)
         /\ LiveFamily(a)' => LiveFamily(a)
         /\ Alive(a)' \/ LiveFamily(a)' => boot' = boot
         /\ Awaited(a) => Awaited(a)'
         /\ Replayable' <=> Replayable
         /\ Held(a)' <=> Held(a)
<1>1. /\ \A b \in Assignments : Alive(b)' => Alive(b)
      /\ Replayable' <=> Replayable
      /\ Held(a)' <=> Held(a)
  BY DEF Fades, Alive, Replayable, Held
<1>2. /\ Living(leader'[a]) => Living(leader[a])
      /\ \A c \in ChildrenOf(a) : Living(worker'[c]) => Living(worker[c])
  BY DEF Fades, Living, ChildrenOf
<1>3. Alive(a)' \/ LiveFamily(a)' => boot' = boot
  BY DEF Fades, LiveFamily, ChildrenOf
<1>4. Awaited(a) => Awaited(a)'
  BY <1>1 DEF Awaited, Fades, service, StopAgent
<1> QED BY <1>1, <1>2, <1>3, <1>4 DEF LiveFamily

\* Between passes nothing is read.
LEMMA IdleReads ==
  ASSUME TypeOK, pass' = Idle
  PROVE  ReadsTruly' /\ (pass'.left \cup pass'.at) = {}
BY IdleRow DEF ReadsTruly

\* What ends takes nothing with it that the invariant needs.
LEMMA FadesSafe ==
  ASSUME TypeOK, NodeInvariant, Fades
  PROVE  NodeInvariant'
<1>0. /\ \A a \in Assignments : AttemptInvariant(a)
      /\ \A d \in Children : ChildInvariant(d)
      /\ AgentInvariant /\ OneBusy
  BY DEF NodeInvariant
<1>1. ASSUME NEW a \in Assignments PROVE AttemptInvariant(a)'
  <2>1. /\ Alive(a)' => Alive(a)
        /\ LiveFamily(a)' => LiveFamily(a)
        /\ Alive(a)' \/ LiveFamily(a)' => boot' = boot
        /\ Awaited(a) => Awaited(a)'
        /\ Replayable' <=> Replayable
        /\ Held(a)' <=> Held(a)
        /\ AttemptInvariant(a)
    BY <1>0, Faded
  <2>2. /\ record' = record /\ registered' = registered /\ open' = open
        /\ leased' = leased
        /\ Living(leader'[a]) => Living(leader[a])
        /\ leader'[a] = "user" => leader[a] = "user"
    BY DEF Fades, Living
  <2>3. sup'[a] = sup[a] \/ (sup'[a].step = "exited" /\ ~sup'[a].seen)
    BY DEF Fades
  <2>4. /\ agent = "down" => agent' = "down"
        /\ a \in slots => a \in slots' \/ agent' = "down"
    BY DEF Fades, service, StopAgent
  <2>5. NotYetPrepared(a)' /\ SeesTruly(a)'
    BY <2>1, <2>2, <2>3 DEF AttemptInvariant, NotYetPrepared, SeesTruly, At
  <2>6. IdentifiesLiving(a)'
    <3>1. Alive(a)' => sup'[a] = sup[a]
      BY <2>3 DEF Alive
    <3> QED BY <2>1, <2>2, <3>1 DEF AttemptInvariant, IdentifiesLiving
  <2>7. Covered(a)'
    BY <2>1, <2>2 DEF AttemptInvariant, Covered
  <2>8. Inventoried(a)'
    BY <2>1, <2>2, <2>4 DEF AttemptInvariant, Inventoried
  <2>9. Authorized(a)'
    BY <2>1, <2>2, <2>3 DEF AttemptInvariant, Authorized
  <2> QED BY <2>5, <2>6, <2>7, <2>8, <2>9 DEF AttemptInvariant
<1>2. ASSUME NEW c \in Children PROVE ChildInvariant(c)'
  <2>1. ParentOf(c) \in Assignments /\ c \in ChildrenOf(ParentOf(c))
    BY ParentIsAssignment
  <2>2. /\ Awaited(ParentOf(c)) => Awaited(ParentOf(c))'
        /\ Replayable' <=> Replayable
        /\ Held(ParentOf(c))' <=> Held(ParentOf(c))
        /\ LiveFamily(ParentOf(c))' => boot' = boot
    BY <2>1, Faded
  <2>3. Living(worker'[c]) => Living(worker[c]) /\ boot' = boot
    BY <2>1, <2>2 DEF Fades, Living, LiveFamily
  <2>4. /\ record' = record /\ family' = family /\ leased' = leased
        /\ HeldChild(c)' <=> HeldChild(c)
        /\ worker'[c] = "user" => worker[c] = "user"
    BY DEF Fades, HeldChild
  <2>5. sup'[ParentOf(c)].step \in {"none", "starting", "exited"} => mediated'[c] = "none"
    BY <1>0, <2>1 DEF Fades, ChildInvariant
  <2>6. mediated'[c] \in {mediated[c], "none"}
    BY DEF Fades
  <2> QED BY <1>0, <2>2, <2>3, <2>4, <2>5, <2>6 DEF ChildInvariant
<1>3. OneBusy'
  BY <1>0, Faded, BusyKept DEF Busy
<1>4. AgentInvariant'
  <2>0. (Replayable' <=> Replayable) /\ pass \in PassRow
    BY Rows DEF Fades, Replayable
  <2>1. CASE UNCHANGED service
    <3>1. \A a \in Assignments : ~Living(leader[a]) => ~Living(leader'[a])
      BY DEF Fades, Living
    <3>2. ReadsTruly'
      BY <1>0, <2>0, <2>1, <3>1 DEF AgentInvariant, ReadsTruly, Fades, service, PassRow
    <3> QED BY <1>0, <2>0, <2>1, <3>2 DEF AgentInvariant, service
  <2>2. CASE StopAgent
    BY <2>2, IdleReads DEF StopAgent, AgentInvariant
  <2> QED BY <2>1, <2>2 DEF Fades
<1> QED BY <1>1, <1>2, <1>3, <1>4 DEF NodeInvariant

-----------------------------------------------------------------------------
(* The agent: launches, reports and passes.                                *)

\* What the agent does with its own state, and with the coordinator.
AgentFrame ==
    /\ UNCHANGED <<record, family, mediated, leader, worker, boot, profile>>
    /\ \A a \in Assignments : ~Awaited(a)
    /\ agent # "down" \/ ~Replayable
    /\ \A a \in leased : a \in leased'

\* It keeps every child, and every assignment that it does not touch.
LEMMA AgentKeeps ==
  ASSUME TypeOK, NodeInvariant, AgentFrame,
         \A a \in Assignments : AttemptInvariant(a)' \/ RowKept(a),
         \A a \in Assignments : sup'[a].step \in {"none", "starting", "exited"} =>
           sup[a].step \in {"none", "starting", "exited"},
         \A a \in Assignments : (Held(a) => (Alive(a)' => Alive(a))),
         AgentInvariant'
  PROVE  NodeInvariant'
<1>0. /\ \A a \in Assignments : AttemptInvariant(a)
      /\ \A d \in Children : ChildInvariant(d)
      /\ OneBusy
  BY DEF NodeInvariant
<1>1. HostKept /\ \A a \in Assignments : ~Awaited(a)
  BY DEF HostKept, AgentFrame
<1>2. ASSUME NEW a \in Assignments PROVE LiveFamily(a)' <=> LiveFamily(a)
  BY LivesOn DEF AgentFrame
<1>3. ASSUME NEW a \in Assignments PROVE AttemptInvariant(a)'
  <2>1. agent' = "down" \/ agent # "down" \/ ~Replayable
    BY DEF AgentFrame
  <2>2. CASE RowKept(a)
    BY <1>0, <1>1, <1>2, <2>1, <2>2, AttemptKept
  <2> QED BY <2>2
<1>4. ASSUME NEW c \in Children PROVE ChildInvariant(c)'
  <2>1. KidKept(c) /\ ParentKept(ParentOf(c))
    BY ParentIsAssignment DEF AgentFrame, KidKept, ParentKept, Held
  <2> QED BY <1>0, <1>1, <2>1, ParentIsAssignment, ChildKept
<1>5. OneBusy'
  <2>1. \A a \in Assignments : Held(a)' <=> Held(a)
    BY DEF AgentFrame, Held
  <2> QED BY <1>0, <1>2, <2>1, BusyKept DEF Busy
<1> QED BY <1>3, <1>4, <1>5 DEF NodeInvariant

\* What only concerns the coordinator leaves the agent as it is.
LEMMA AgentKept ==
  ASSUME TypeOK, AgentInvariant, UNCHANGED service,
         UNCHANGED <<record, family, leader, worker, boot, profile>>
  PROVE  AgentInvariant'
<1>1. ReadsTruly'
  BY DEF AgentInvariant, ReadsTruly, service
<1> QED BY <1>1 DEF AgentInvariant, service, Replayable

\* The row of a after an offer, an answer or a report: only what the
\* coordinator knows of it changes.
LEMMA ToldRow ==
  ASSUME TypeOK, NEW a \in Assignments, AttemptInvariant(a), AgentFrame,
         sup'[a] = sup[a], UNCHANGED <<agent, slots>>,
         registered'[a] \in {registered[a], 0, boot},
         registered'[a] # registered[a] => Alive(a),
         Replayable /\ (Alive(a) \/ LiveFamily(a)) => open'[a] = "open",
         ~Replayable => /\ record[a].phase = "none" => a \notin leased'
                        /\ open'[a] = "closed" =>
                             a \notin leased' \/ record[a].phase = "released"
  PROVE  AttemptInvariant(a)'
<1>1. /\ Replayable' <=> Replayable
      /\ Alive(a)' <=> Alive(a)
      /\ Held(a)' <=> Held(a)
  BY DEF AgentFrame, Replayable, Alive, Held
<1>2. LiveFamily(a)' <=> LiveFamily(a)
  BY LivesOn DEF AgentFrame
<1>3. /\ UNCHANGED <<record, leader, boot>> /\ ~Awaited(a)
      /\ a \in leased => a \in leased'
  BY DEF AgentFrame
<1>4. NotYetPrepared(a)' /\ SeesTruly(a)'
  BY <1>3 DEF AttemptInvariant, NotYetPrepared, SeesTruly, At, Alive
<1>5. IdentifiesLiving(a)'
  BY <1>1, <1>2, <1>3 DEF AttemptInvariant, IdentifiesLiving
<1>6. Covered(a)'
  BY <1>1, <1>2, <1>3 DEF AttemptInvariant, Covered
<1>7. Inventoried(a)'
  BY <1>1, <1>2, <1>3 DEF AttemptInvariant, Inventoried
<1>8. Authorized(a)'
  BY <1>1, <1>3 DEF AttemptInvariant, Authorized
<1> QED BY <1>4, <1>5, <1>6, <1>7, <1>8 DEF AttemptInvariant

\* An agent that is up, between two passes.
LEMMA UpFrame ==
  ASSUME TypeOK, agent = "up", UNCHANGED <<journal, mediated, processes, host>>,
         \A a \in leased : a \in leased'
  PROVE  AgentFrame
BY DEF AgentFrame, journal, processes, host, Awaited

\* Offers, reports and the registration of a prepared process.
LEMMA ToldSafe ==
  ASSUME TypeOK, NodeInvariant, NEW a \in Assignments, NEW flag \in BOOLEAN,
         Offer(a) \/ Refuse(a) \/ Report(a) \/ Register(a, flag)
  PROVE  NodeInvariant'
<1> USE DEF journal, owner, processes, host, service, remote
<1>0. AttemptInvariant(a) /\ AgentInvariant
  BY DEF NodeInvariant
<1>1. /\ UNCHANGED <<record, family, tasks, sup, mediated, leader, worker, boot,
                     profile, agent, slots, pass, toImport>>
      /\ agent = "up" /\ \A b \in leased : b \in leased'
  BY DEF Offer, Refuse, Report, Register
<1>2. AgentFrame
  BY <1>1, UpFrame
<1>3. ASSUME NEW b \in Assignments \ {a} PROVE RowKept(b)
  <2>1. /\ open'[b] = open[b] /\ registered'[b] = registered[b]
        /\ b \in leased' <=> b \in leased
    BY <1>3 DEF Offer, Refuse, Report, Register, TypeOK
  <2> QED BY <1>1, <2>1 DEF RowKept
<1>4. AttemptInvariant(a)'
  <2>1. CASE Offer(a)
    <3>1. /\ open'[a] = "open" /\ registered'[a] = registered[a] /\ leased' = leased
      BY <2>1 DEF Offer, TypeOK
    <3> QED BY <1>0, <1>1, <1>2, <3>1, ToldRow DEF AttemptInvariant, Authorized
  <2>2. CASE Refuse(a)
    <3>1. /\ registered'[a] = registered[a] /\ leased' = leased
          /\ a \notin slots /\ record[a].phase = "none"
      BY <2>2 DEF Refuse
    <3>2. ~LiveFamily(a)
      BY <1>2, <3>1, LivingHeld DEF AgentFrame, Held
    <3>3. Replayable => ~Alive(a)
      BY <1>0, <1>1, <3>1 DEF AttemptInvariant, Inventoried
    <3> QED BY <1>0, <1>1, <1>2, <3>1, <3>2, <3>3, ToldRow
            DEF AttemptInvariant, Authorized
  <2>3. CASE Report(a)
    <3>1. /\ registered'[a] = registered[a] /\ leased' = leased
          /\ record[a].phase = "released"
      BY <2>3 DEF Report
    <3> QED BY <1>0, <1>1, <1>2, <3>1, ToldRow
            DEF AttemptInvariant, Authorized, Covered, Inventoried
  <2>4. CASE Register(a, flag)
    <3>1. /\ registered'[a] = sup[a].identity /\ Alive(a) /\ open' = open
          /\ record[a].phase = "prepared" /\ open[a] = "open"
      BY <2>4 DEF Register, TypeOK
    <3>2. sup[a].identity \in {0, boot}
      BY <1>0, <3>1 DEF AttemptInvariant, IdentifiesLiving
    <3> QED BY <1>0, <1>1, <1>2, <3>1, <3>2, ToldRow
  <2> QED BY <2>1, <2>2, <2>3, <2>4
<1>5. AgentInvariant'
  BY <1>0, <1>1, AgentKept
<1> QED BY <1>1, <1>2, <1>3, <1>4, <1>5, AgentKeeps DEF Alive

\* A launched supervisor knows nothing yet.
LEMMA LaunchSafe ==
  ASSUME TypeOK, NodeInvariant, NEW a \in Assignments, Launch(a)
  PROVE  NodeInvariant'
<1> USE DEF journal, owner, processes, host, service, remote
<1>0. AttemptInvariant(a) /\ AgentInvariant
  BY DEF NodeInvariant
<1>1. /\ UNCHANGED <<record, family, mediated, leader, worker, boot, profile, agent,
                     pass, toImport, open, registered, leased>>
      /\ agent = "up" /\ pass = Idle /\ slots' = slots \cup {a}
      /\ open[a] = "open" /\ sup[a].step = "none" /\ record[a].phase = "none"
  BY DEF Launch, At
<1>2. AgentFrame
  BY <1>1, UpFrame DEF Launch
<1>3. GoesTo(a, "starting")
  BY GotoRow DEF Launch, SupervisorSteps
<1>4. ~LiveFamily(a) /\ ~Awaited(a)
  BY <1>1, <1>2, LivingHeld DEF AgentFrame, Held
<1>5. /\ Replayable' <=> Replayable
      /\ Held(a)' <=> Held(a)
      /\ LiveFamily(a)' <=> LiveFamily(a)
  BY <1>1, LivesOn DEF Replayable, Held
<1>6. AttemptInvariant(a)'
  <2>1. registered[a] = 0 /\ sup'[a].identity = 0 /\ record[a].identity = 0
    BY <1>0, <1>1, <1>3
       DEF AttemptInvariant, NotYetPrepared, IdentifiesLiving, At, GoesTo
  <2>2. NotYetPrepared(a)' /\ SeesTruly(a)'
    BY <1>0, <1>1, <1>3 DEF AttemptInvariant, NotYetPrepared, SeesTruly, At, GoesTo
  <2>3. IdentifiesLiving(a)'
    BY <1>1, <2>1 DEF IdentifiesLiving
  <2>4. Covered(a)'
    BY <1>0, <1>1, <1>4, <1>5 DEF AttemptInvariant, Covered, LiveFamily
  <2>5. Inventoried(a)'
    BY <1>1 DEF Inventoried
  <2>6. Authorized(a)'
    BY <1>0, <1>1, <1>3, <1>5 DEF AttemptInvariant, Authorized, GoesTo
  <2> QED BY <2>2, <2>3, <2>4, <2>5, <2>6 DEF AttemptInvariant
<1>7. ASSUME NEW b \in Assignments \ {a} PROVE RowKept(b)
  BY <1>1, <1>3 DEF RowKept, GoesTo, OthersWait
<1>8. AgentInvariant'
  <2>1. ReadsTruly' /\ (pass'.left \cup pass'.at) = {}
    BY <1>1, IdleReads
  <2> QED BY <1>0, <1>1, <2>1 DEF AgentInvariant
<1>9. ASSUME NEW b \in Assignments
      PROVE  /\ sup'[b].step \in {"none", "starting", "exited"} =>
                  sup[b].step \in {"none", "starting", "exited"}
             /\ Held(b) => (Alive(b)' => Alive(b))
  BY <1>1, <1>3 DEF GoesTo, OthersWait, Held, Alive
<1> QED BY <1>2, <1>6, <1>7, <1>8, <1>9, AgentKeeps

\* A supervisor that was seen to exit is no longer owned.
LEMMA HarvestSafe ==
  ASSUME TypeOK, NodeInvariant, NEW a \in Assignments, Harvest(a)
  PROVE  NodeInvariant'
<1> USE DEF journal, owner, processes, host, service, remote
<1>1. /\ UNCHANGED <<record, family, tasks, sup, mediated, leader, worker, boot,
                     profile, agent, pass, toImport, open, registered, leased>>
      /\ agent = "up" /\ slots' = slots \ {a} /\ ~Alive(a)
  BY DEF Harvest, At, Alive
<1>2. AgentFrame
  BY <1>1, UpFrame
<1>3. ASSUME NEW b \in Assignments PROVE RowKept(b)
  BY <1>1 DEF RowKept
<1>4. AgentInvariant'
  <2>1. AgentInvariant
    BY DEF NodeInvariant
  <2>2. ReadsTruly'
    BY <1>1, <2>1 DEF AgentInvariant, ReadsTruly
  <2> QED BY <1>1, <2>1, <2>2 DEF AgentInvariant
<1> QED BY <1>1, <1>2, <1>3, <1>4, AgentKeeps DEF Alive

\* A pass that begins, decides about a leader, or ends changes no row.
LEMMA PassSafe ==
  ASSUME TypeOK, NodeInvariant,
         UNCHANGED <<journal, owner, processes, host, slots, toImport, remote>>,
         AgentFrame, AgentInvariant'
  PROVE  NodeInvariant'
<1> USE DEF journal, owner, processes, host, remote
<1>1. ASSUME NEW b \in Assignments PROVE RowKept(b)
  BY DEF RowKept
<1> QED BY <1>1, AgentKeeps DEF Alive

\* A pass begins with what is so, and ends with nothing.
LEMMA ReadingSafe ==
  ASSUME TypeOK, NodeInvariant, Start \/ BeginPass \/ EndPass \/ EndImport
  PROVE  NodeInvariant'
<1> USE DEF journal, owner, processes, host, remote
<1>0. AgentInvariant
  BY DEF NodeInvariant
<1>1. UNCHANGED <<journal, owner, processes, host, slots, toImport, remote>>
  BY DEF Start, BeginPass, EndPass, EndImport
<1>2. CASE EndPass
  <2>1. agent \notin {"down", "importing"}
    BY <1>0, <1>2 DEF EndPass, AgentInvariant, Idle
  <2>2. AgentFrame
    BY <1>1, <2>1 DEF AgentFrame, Awaited
  <2>3. pass' = Idle /\ agent' = "up"
    BY <1>2 DEF EndPass
  <2>4. AgentInvariant'
    BY <2>3, IdleReads DEF AgentInvariant
  <2> QED BY <1>1, <2>2, <2>4, PassSafe
<1>3. CASE Start \/ BeginPass \/ EndImport
  <2>1. AgentFrame
    BY <1>1, <1>3 DEF Start, BeginPass, EndImport, AgentFrame, Awaited
  <2>2. PICK excluded : Reads(excluded) /\ (excluded = slots \/ slots = {})
    BY <1>0, <1>3 DEF Start, BeginPass, EndImport, AgentInvariant
  <2>3. /\ pass' \in PassRow /\ pass'.at = {} /\ pass'.kids = {}
        /\ pass'.left \cap slots = {}
        /\ \A a \in Assignments : pass'.snapshot[a] \in {record[a], NoRecord}
    BY <2>2, ReadsRow
  <2>4. ReadsTruly'
    BY <1>1, <2>3, IdleRow DEF ReadsTruly
  <2>5. agent' \notin {"down", "importing"} /\ (agent' # "up" => slots = {})
    BY <1>0, <1>3 DEF Start, BeginPass, EndImport, AgentInvariant
  <2>6. AgentInvariant'
    BY <1>1, <2>3, <2>4, <2>5 DEF AgentInvariant
  <2> QED BY <1>1, <2>1, <2>6, PassSafe
<1> QED BY <1>2, <1>3

\* A pass is only read by an agent that runs one.
LEMMA PassFrame ==
  ASSUME TypeOK, NodeInvariant, pass.left # {} \/ pass.at # {} \/ pass.kids # {}
  PROVE  /\ agent \notin {"down", "importing"}
         /\ \A a \in Assignments : ~Awaited(a)
<1>1. pass # Idle
  BY IdleRow
<1> QED BY <1>1 DEF NodeInvariant, AgentInvariant, Awaited

\* A leader is only found absent when it is: the identity read is still its
\* own, and another boot's process is not running.
LEMMA LeaderDecided ==
  ASSUME TypeOK, NodeInvariant, NEW a \in Assignments, NEW gpu \in BOOLEAN,
         ReconcileLeader(a, gpu)
  PROVE  NodeInvariant'
<1> USE DEF journal, owner, processes, host, remote
<1>0. AgentInvariant /\ AttemptInvariant(a)
  BY DEF NodeInvariant
<1> DEFINE released == /\ gpu /\ RecoveryAllows(a)
                       /\ Absent(pass.snapshot[a].identity, leader[a])
           kids == {<<c, family[c].identity>> : c \in HeldChildren(a)}
           left == pass.left \ {a}
<1>1. /\ pass' = [pass EXCEPT !.at = {a}, !.left = left, !.released = released,
                              !.kids = kids]
      /\ UNCHANGED <<journal, owner, processes, host, agent, slots, toImport, remote>>
      /\ a \in pass.left
  BY DEF ReconcileLeader
<1>2. released => pass.snapshot[a].identity # 0 /\ ~Living(leader[a])
  BY <1>0 DEF Absent, AgentInvariant, ReadsTruly, AttemptInvariant, IdentifiesLiving,
              LiveFamily, Living
<1>3. /\ kids \in SUBSET (Children \X (0..MaxBoot))
      /\ \A kid \in kids : kid[2] = family[kid[1]].identity
  BY Rows DEF HeldChildren, ChildrenOf, ChildRow
<1>4. left \in SUBSET Assignments /\ released \in BOOLEAN /\ left \subseteq pass.left
      /\ {a} \in SUBSET Assignments
  BY Rows DEF PassRow, RecoveryAllows, Absent
<1> HIDE DEF released, kids, left
<1>5. /\ pass'.at = {a} /\ pass'.left = left /\ pass'.kids = kids
      /\ pass'.released = released /\ pass'.snapshot = pass.snapshot
  BY ZenonT(40), <1>1, <1>3, <1>4, DecisionRow
<1>6. agent \notin {"down", "importing"} /\ \A b \in Assignments : ~Awaited(b)
  BY <1>1, PassFrame
<1>7. AgentFrame
  BY <1>1, <1>6 DEF AgentFrame
<1>8. ReadsTruly'
  BY <1>0, <1>1, <1>2, <1>3, <1>5 DEF AgentInvariant, ReadsTruly
<1>9. AgentInvariant'
  BY <1>0, <1>1, <1>4, <1>5, <1>6, <1>8 DEF AgentInvariant
<1> QED BY <1>1, <1>7, <1>9, PassSafe

\* A child that is found gone is gone: the identity read is still its own.
LEMMA ChildDecided ==
  ASSUME TypeOK, NodeInvariant, NEW kid \in pass.kids, NEW gpu \in BOOLEAN,
         ReconcileChild(kid, gpu)
  PROVE  NodeInvariant'
<1> USE DEF journal, owner, processes, host, remote
<1>0. /\ \A a \in Assignments : AttemptInvariant(a)
      /\ \A d \in Children : ChildInvariant(d)
      /\ AgentInvariant /\ OneBusy
  BY DEF NodeInvariant
<1> DEFINE c == kid[1]
           gone == gpu /\ Absent(kid[2], worker[c])
           kids == pass.kids \ {kid}
           released == pass.released /\ gone
<1>1. /\ family' = [family EXCEPT ![c].phase = Verdict(gone)]
      /\ pass' = [pass EXCEPT !.kids = kids, !.released = released]
      /\ UNCHANGED <<record, tasks, owner, processes, host, agent, slots,
                     toImport, remote>>
      /\ ChildAccepts(c, Verdict(gone))
  BY DEF ReconcileChild
<1>2. /\ c \in Children /\ kids \in SUBSET (Children \X (0..MaxBoot))
      /\ released \in BOOLEAN /\ kids \subseteq pass.kids
      /\ \A k \in pass.kids : k[1] \in Children
  BY Rows DEF PassRow, Absent
<1>3. gone => ~Living(worker[c])
  BY <1>0, <1>2 DEF Absent, AgentInvariant, ReadsTruly, ChildInvariant, Living
<1>4. /\ Verdict(gone) \in ExecutionPhases
      /\ Verdict(gone) \in {"released", "needs_reconciliation"}
      /\ Verdict(gone) = "released" => gone
  BY DEF Verdict, ExecutionPhases
<1>5. released => pass.released
  OBVIOUS
<1> HIDE DEF gone, kids, released
<1>6. /\ pass'.at = pass.at /\ pass'.left = pass.left /\ pass'.kids = kids
      /\ pass'.released = released /\ pass'.snapshot = pass.snapshot
  BY <1>1, <1>2, KidRow
<1>7. ChildGoesTo(c, Verdict(gone))
  BY <1>1, <1>2, <1>4, ChildPhaseRow
<1>8. agent \notin {"down", "importing"} /\ \A b \in Assignments : ~Awaited(b)
  BY PassFrame
<1>9. HostKept /\ \A a \in Assignments : RowKept(a) /\ (LiveFamily(a)' <=> LiveFamily(a))
  BY <1>1, LivesOn DEF HostKept, RowKept
<1>10. ASSUME NEW a \in Assignments PROVE AttemptInvariant(a)'
  BY <1>0, <1>8, <1>9, AttemptKept
<1>11. ASSUME NEW d \in Children PROVE ChildInvariant(d)'
  <2>1. CASE d = c
    <3>1. family[c].phase \in ExecutionPhases
      BY <1>2, Rows DEF ChildRow
    <3>2. HeldChild(c)' => HeldChild(c)
      BY <1>1, <1>4, <1>7, <3>1
         DEF ChildAccepts, ChildFollows, ExecutionPhases, HeldChild, ChildGoesTo
    <3>3. Living(worker[c]) => HeldChild(c)' /\ family'[c].phase # "released"
      BY <1>3, <1>4, <1>7 DEF HeldChild, ChildGoesTo
    <3>4. Begun(family'[c].phase) /\ family'[c].identity = family[c].identity
      BY <1>4, <1>7 DEF Begun, ChildGoesTo
    <3>5. (Held(ParentOf(c))' <=> Held(ParentOf(c))) /\ (Replayable' <=> Replayable)
      BY <1>1 DEF Held, Replayable
    <3> QED BY <1>0, <1>1, <1>2, <2>1, <3>2, <3>3, <3>4, <3>5 DEF ChildInvariant
  <2>2. CASE d # c
    <3>1. KidKept(d) /\ ParentKept(ParentOf(d)) /\ ~Awaited(ParentOf(d))
      BY <1>1, <1>7, <1>8, <1>9, <2>2, SameParent, ParentIsAssignment
         DEF KidKept, ChildGoesTo
    <3> QED BY <1>0, <1>9, <3>1, ChildKept
  <2> QED BY <2>1, <2>2
<1>12. OneBusy'
  BY <1>0, <1>1, <1>9, BusyKept DEF Busy, Held, Alive
<1>13. AgentInvariant'
  <2>1. \A d \in Children : family'[d].identity = family[d].identity
    BY <1>7 DEF ChildGoesTo
  <2>2. ReadsTruly'
    BY <1>0, <1>1, <1>2, <1>5, <1>6, <2>1 DEF AgentInvariant, ReadsTruly
  <2> QED BY <1>0, <1>1, <1>6, <1>8, <2>2 DEF AgentInvariant
<1> QED BY <1>10, <1>11, <1>12, <1>13 DEF NodeInvariant

\* A leader that is found gone is gone, and so is its family.
LEMMA RecordDecided ==
  ASSUME TypeOK, NodeInvariant, NEW a \in Assignments, ReconcileRecord(a)
  PROVE  NodeInvariant'
<1> USE DEF journal, owner, processes, host, remote
<1>0. /\ \A b \in Assignments : AttemptInvariant(b)
      /\ \A d \in Children : ChildInvariant(d)
      /\ AgentInvariant /\ OneBusy
  BY DEF NodeInvariant
<1>1. /\ a \in pass.at /\ Accepts(a, Reconciled(a))
      /\ record' = [record EXCEPT ![a] = Reconciled(a)]
      /\ UNCHANGED <<family, tasks, owner, processes, host, agent, slots,
                     toImport, remote>>
  BY DEF ReconcileRecord
<1>2. /\ pass'.at = {} /\ pass'.left = pass.left /\ pass'.kids = pass.kids
      /\ \A b \in Assignments :
           pass'.snapshot[b] = IF b = a THEN NoRecord ELSE pass.snapshot[b]
  BY DecidedRow DEF ReconcileRecord
<1>3. /\ Writes(a, Reconciled(a)) /\ RecordMoved(a)
      /\ record'[a].phase = Verdict(pass.released)
      /\ record'[a].identity = pass.snapshot[a].identity
  BY <1>1, ReconciledRow, RecordWritten, AcceptedRow DEF Writes
<1>4. record'[a].phase = "released" =>
        pass.snapshot[a].identity # 0 /\ ~Living(leader[a])
  BY <1>0, <1>1, <1>3 DEF Verdict, AgentInvariant, ReadsTruly
<1>5. /\ pass.snapshot[a].identity # 0 => record[a].identity = pass.snapshot[a].identity
      /\ record'[a].identity \in {0, record[a].identity}
      /\ record'[a].phase \in {"released", "needs_reconciliation"}
  BY <1>0, <1>3 DEF AgentInvariant, ReadsTruly, Verdict
<1>6. /\ agent \notin {"down", "importing"} /\ a \notin slots
      /\ \A b \in Assignments : ~Awaited(b)
  BY <1>0, <1>1, PassFrame DEF AgentInvariant
<1>7. HostKept /\ \A b \in Assignments : LiveFamily(b)' <=> LiveFamily(b)
  BY <1>1, LivesOn DEF HostKept
<1>8. record'[a].phase = "released" => ~LiveFamily(a)
  BY <1>0, <1>3, <1>4, ReleaseIsEnd DEF ChildrenOf
<1>9. AttemptInvariant(a)'
  <2>0. /\ Replayable' <=> Replayable
        /\ Alive(a)' <=> Alive(a)
    BY <1>1 DEF Replayable, Alive
  <2>1. NotYetPrepared(a)'
    BY <1>0, <1>1, <1>3, <1>4, <1>5
       DEF AttemptInvariant, NotYetPrepared, At, RecordMoved
  <2>2. SeesTruly(a)'
    BY <1>0, <1>1 DEF AttemptInvariant, SeesTruly, At
  <2>3. IdentifiesLiving(a)'
    BY <1>0, <1>1, <1>5, <1>7, <2>0 DEF AttemptInvariant, IdentifiesLiving
  <2>4. Covered(a)'
    BY <1>1, <1>4, <1>5, <1>7, <1>8 DEF Covered, Held
  <2>5. Inventoried(a)'
    BY <1>0, <1>1, <1>5, <1>6, <1>7, <2>0 DEF AttemptInvariant, Inventoried
  <2>6. Authorized(a)'
    BY <1>0, <1>1, <1>3, <1>5, <2>0 DEF AttemptInvariant, Authorized, RecordMoved, Begun
  <2> QED BY <2>1, <2>2, <2>3, <2>4, <2>5, <2>6 DEF AttemptInvariant
<1>10. ASSUME NEW b \in Assignments \ {a} PROVE RowKept(b) /\ AttemptInvariant(b)'
  <2>1. RowKept(b)
    BY <1>1, <1>3 DEF RowKept, Writes
  <2> QED BY <1>0, <1>6, <1>7, <2>1, AttemptKept
<1>11. ASSUME NEW c \in Children PROVE ChildInvariant(c)'
  <2>1. ParentOf(c) \in Assignments /\ c \in ChildrenOf(ParentOf(c))
    BY ParentIsAssignment
  <2>2. CASE ParentOf(c) = a
    <3>1. RecordStep(a) /\ Covered(a)'
      BY <1>3, <1>9 DEF RecordStep, AttemptInvariant
    <3> QED BY <1>0, <1>1, <1>6, <1>7, <2>1, <2>2, <3>1, ChildOfWritten
            DEF ChildInvariant
  <2>3. CASE ParentOf(c) # a
    <3>1. KidKept(c) /\ ParentKept(ParentOf(c))
      BY <1>1, <1>10, <2>1, <2>3, SameParent DEF KidKept
    <3> QED BY <1>0, <1>6, <1>7, <2>1, <3>1, ChildKept
  <2> QED BY <2>2, <2>3
<1>12. OneBusy'
  <2>1. \A b \in Assignments : Held(b)' => Held(b)
    BY <1>3 DEF Held, Writes, RecordMoved
  <2> QED BY <1>0, <1>1, <1>7, <2>1, BusyKept DEF Busy, Alive
<1>13. AgentInvariant'
  <2>1. ReadsTruly'
    BY <1>0, <1>1, <1>2, <1>3, IdleRow DEF AgentInvariant, ReadsTruly, Writes
  <2> QED BY <1>0, <1>1, <1>2, <1>6, <2>1 DEF AgentInvariant
<1> QED BY <1>9, <1>10, <1>11, <1>12, <1>13 DEF NodeInvariant

-----------------------------------------------------------------------------
(* A journal that was lost.                                                *)

\* The old journal is set aside while nobody runs: what still lives is in the
\* coordinator's inventory.
LEMMA SessionStarts ==
  ASSUME TypeOK, NodeInvariant, StartReplaySession
  PROVE  NodeInvariant'
<1> USE DEF journal, processes, host, remote
<1>0. /\ \A a \in Assignments : AttemptInvariant(a)
      /\ \A d \in Children : ChildInvariant(d)
      /\ AgentInvariant /\ OneBusy
  BY DEF NodeInvariant
<1>1. /\ UNCHANGED <<leader, worker, boot, profile, slots, pass, open, registered,
                     leased>>
      /\ Replayable /\ agent = "down" /\ agent' = "importing" /\ toImport' = Inventory
      /\ \A a \in Assignments : sup[a].step \in {"none", "starting", "exited"}
  BY DEF StartReplaySession
<1>2. /\ \A a \in Assignments : record'[a].phase = "none" /\ record'[a].identity = 0
      /\ \A c \in Children : family'[c].phase = "none" /\ family'[c].identity = 0
  BY IdleRow DEF StartReplaySession, NoChild
<1>3. /\ \A a \in Assignments :
           \/ sup'[a] = sup[a] /\ sup[a].step # "starting"
           \/ sup'[a].step = "exited" /\ ~sup'[a].seen
      /\ \A c \in Children : mediated'[c] = "none"
  <2>1. Exit({a \in Assignments : At(a, "starting")})
    BY DEF StartReplaySession
  <2>2. \A c \in Children : mediated[c] = "none"
    BY <1>0, <1>1, ParentIsAssignment DEF ChildInvariant
  <2> QED BY <2>1, <2>2, ExitRows DEF At
<1>4. ASSUME NEW a \in Assignments
      PROVE  /\ ~Alive(a)' /\ ~Held(a)'
             /\ LiveFamily(a)' <=> LiveFamily(a)
             /\ Replayable' <=> Replayable
  BY <1>1, <1>2, <1>3, LivesOn DEF Alive, Held, Replayable
<1>5. ASSUME NEW a \in Assignments, LiveFamily(a)
      PROVE  open[a] = "open" /\ Awaited(a)'
  <2>1. open[a] = "open"
    BY <1>0, <1>1, <1>5 DEF AttemptInvariant, Inventoried
  <2> QED BY <1>1, <1>2, <1>4, <2>1 DEF Awaited, Inventory
<1>6. ASSUME NEW a \in Assignments PROVE AttemptInvariant(a)'
  <2>1. NotYetPrepared(a)' /\ SeesTruly(a)'
    BY <1>0, <1>1, <1>2, <1>3 DEF AttemptInvariant, NotYetPrepared, SeesTruly, At
  <2>2. IdentifiesLiving(a)'
    BY <1>0, <1>1, <1>2, <1>4 DEF AttemptInvariant, IdentifiesLiving
  <2>3. Covered(a)'
    BY <1>1, <1>2, <1>5 DEF Covered, LiveFamily
  <2>4. Inventoried(a)'
    BY <1>1, <1>4, <1>5 DEF Inventoried
  <2>5. Authorized(a)'
    BY <1>0, <1>1, <1>3, <1>4 DEF AttemptInvariant, Authorized
  <2> QED BY <2>1, <2>2, <2>3, <2>4, <2>5 DEF AttemptInvariant
<1>7. ASSUME NEW c \in Children PROVE ChildInvariant(c)'
  <2>1. ParentOf(c) \in Assignments /\ c \in ChildrenOf(ParentOf(c))
    BY ParentIsAssignment
  <2>2. Living(worker[c]) => Awaited(ParentOf(c))'
    BY <1>5, <2>1 DEF LiveFamily
  <2>3. ~HeldChild(c)' /\ (Replayable' <=> Replayable)
    BY <1>2, <1>4, <2>1 DEF HeldChild
  <2> QED BY <1>0, <1>1, <1>2, <1>3, <2>2, <2>3 DEF ChildInvariant
<1>8. OneBusy'
  BY <1>0, <1>4, BusyKept DEF Busy
<1>9. AgentInvariant'
  <2>1. pass' = Idle /\ slots' = {}
    BY <1>0, <1>1 DEF AgentInvariant
  <2> QED BY <1>1, <2>1, IdleReads DEF AgentInvariant, Replayable
<1> QED BY <1>6, <1>7, <1>8, <1>9 DEF NodeInvariant

\* What was awaited is charged again, in doubt.
LEMMA ImportSafe ==
  ASSUME TypeOK, NodeInvariant, NEW a \in Assignments, Import(a)
  PROVE  NodeInvariant'
<1> USE DEF owner, processes, host, remote
<1>0. /\ \A b \in Assignments : AttemptInvariant(b)
      /\ \A d \in Children : ChildInvariant(d)
      /\ AgentInvariant /\ OneBusy
  BY DEF NodeInvariant
<1>1. /\ UNCHANGED <<family, sup, mediated, leader, worker, boot, profile, agent, slots,
                     pass, open, registered, leased>>
      /\ agent = "importing" /\ toImport' = toImport \ {a}
  BY DEF Import
<1>2. /\ record'[a].phase = "needs_reconciliation" /\ record'[a].identity = registered[a]
      /\ \A b \in Assignments \ {a} : record'[b] = record[b]
  BY ImportedRow
<1>3. Replayable /\ pass = Idle /\ slots = {}
  BY <1>0, <1>1 DEF AgentInvariant
<1>4. ASSUME NEW b \in Assignments
      PROVE  /\ ~Alive(b) /\ ~Alive(b)'
             /\ LiveFamily(b)' <=> LiveFamily(b)
             /\ Replayable' <=> Replayable
  <2>1. ~Alive(b)
    BY <1>0, <1>1, <1>3 DEF AttemptInvariant, Inventoried
  <2> QED BY <1>1, <2>1, LivesOn DEF Alive, Replayable
<1>5. HostKept
  BY <1>1 DEF HostKept
<1>6. AttemptInvariant(a)'
  <2>1. NotYetPrepared(a)' /\ SeesTruly(a)'
    BY <1>0, <1>1, <1>4 DEF AttemptInvariant, NotYetPrepared, SeesTruly, At, Alive
  <2>2. IdentifiesLiving(a)'
    BY <1>0, <1>1, <1>2, <1>4 DEF AttemptInvariant, IdentifiesLiving
  <2>3. Covered(a)'
    BY <1>2 DEF Covered, Held
  <2>4. Inventoried(a)'
    BY <1>0, <1>1, <1>4 DEF AttemptInvariant, Inventoried
  <2>5. Authorized(a)'
    BY <1>0, <1>1, <1>2, <1>3, <1>4 DEF AttemptInvariant, Authorized, Begun
  <2> QED BY <2>1, <2>2, <2>3, <2>4, <2>5 DEF AttemptInvariant
<1>7. ASSUME NEW b \in Assignments \ {a}
      PROVE  RowKept(b) /\ (Awaited(b) => Awaited(b)') /\ AttemptInvariant(b)'
  <2>1. RowKept(b)
    BY <1>1, <1>2 DEF RowKept
  <2>2. Awaited(b) => Awaited(b)'
    BY <1>1, <1>2, <1>4 DEF Awaited
  <2> QED BY <1>0, <1>1, <1>4, <1>5, <2>1, <2>2, AttemptKept
<1>8. ASSUME NEW c \in Children PROVE ChildInvariant(c)'
  <2>1. ParentOf(c) \in Assignments
    BY ParentIsAssignment
  <2>2. CASE ParentOf(c) = a
    <3>1. (HeldChild(c)' <=> HeldChild(c)) /\ Held(a)'
      BY <1>1, <1>2 DEF HeldChild, Held
    <3> QED BY <1>0, <1>1, <1>2, <1>3, <1>4, <2>2, <3>1 DEF ChildInvariant
  <2>3. CASE ParentOf(c) # a
    <3>1. KidKept(c) /\ ParentKept(ParentOf(c))
      BY <1>1, <1>7, <2>1, <2>3, SameParent DEF KidKept
    <3> QED BY <1>0, <1>5, <1>7, <2>1, <2>3, <3>1, ChildKept
  <2> QED BY <2>2, <2>3
<1>9. OneBusy'
  BY <1>0, <1>4, BusyKept DEF Busy
<1>10. AgentInvariant'
  BY <1>0, <1>1, <1>3, IdleReads DEF AgentInvariant, Replayable
<1> QED BY <1>6, <1>7, <1>8, <1>9, <1>10 DEF NodeInvariant

-----------------------------------------------------------------------------
(* The invariant, and what follows from it.                                *)

\* A fresh node.
LEMMA NodeStarts ==
  ASSUME Init
  PROVE  NodeInvariant
<1>1. /\ \A a \in Assignments :
           /\ record[a].phase = "none" /\ record[a].identity = 0
           /\ sup[a].step = "none" /\ sup[a].identity = 0 /\ ~sup[a].seen
           /\ leader[a] = "none" /\ registered[a] = 0 /\ open[a] = "none"
      /\ \A c \in Children :
           family[c].phase = "none" /\ mediated[c] = "none" /\ worker[c] = "none"
      /\ agent = "down" /\ pass = Idle /\ slots = {} /\ leased = {}
  BY DEF Init, NoRecord, NoSupervisor, NoChild
<1>2. ASSUME NEW a \in Assignments PROVE ~LiveFamily(a) /\ ~Alive(a) /\ ~Held(a)
  BY <1>1 DEF LiveFamily, Living, ChildrenOf, Alive, Held
<1>3. ASSUME NEW a \in Assignments PROVE AttemptInvariant(a)
  BY <1>1, <1>2 DEF AttemptInvariant, NotYetPrepared, IdentifiesLiving, SeesTruly,
                    Covered, Inventoried, Authorized, At, Living
<1>4. ASSUME NEW c \in Children PROVE ChildInvariant(c)
  BY <1>1 DEF ChildInvariant, HeldChild, Living
<1>5. AgentInvariant
  <2>1. /\ Idle.at = {} /\ Idle.left = {} /\ Idle.kids = {}
        /\ \A a \in Assignments : Idle.snapshot[a].identity = 0
    BY DEF Idle, NoRecord
  <2> QED BY <1>1, <2>1 DEF AgentInvariant, ReadsTruly
<1> QED BY <1>2, <1>3, <1>4, <1>5 DEF NodeInvariant, OneBusy, Busy

\* Every action of the agent keeps the invariant of the node.
LEMMA AgentSafe ==
  ASSUME TypeOK, NodeInvariant, AgentNext
  PROVE  NodeInvariant'
BY ToldSafe, LaunchSafe, HarvestSafe, ReadingSafe, LeaderDecided, ChildDecided,
   RecordDecided, SessionStarts, ImportSafe, HostFades, FadesSafe DEF AgentNext

\* So does a step that changes nothing of the node.
LEMMA NodeKept ==
  ASSUME UNCHANGED vars, NodeInvariant
  PROVE  NodeInvariant'
<1> USE DEF vars, journal, owner, processes, host, service, remote
<1>1. ASSUME NEW a \in Assignments, AttemptInvariant(a) PROVE AttemptInvariant(a)'
  BY <1>1 DEF AttemptInvariant, NotYetPrepared, IdentifiesLiving, SeesTruly, Covered,
          Inventoried, Authorized, At, Alive, Held, LiveFamily, Awaited, Replayable
<1>2. ASSUME NEW c \in Children, ChildInvariant(c) PROVE ChildInvariant(c)'
  BY <1>2 DEF ChildInvariant, HeldChild, Held, Awaited, Replayable, Alive
<1>3. AgentInvariant => AgentInvariant'
  BY DEF AgentInvariant, ReadsTruly, Replayable
<1>4. OneBusy => OneBusy'
  BY DEF OneBusy, Busy, LiveFamily, Held, Alive
<1> QED BY <1>1, <1>2, <1>3, <1>4 DEF NodeInvariant

(***************************************************************************)
(* The inductive invariant of a node: it holds in every state, through     *)
(* crashes of agents and supervisors, reboots, and the loss of the journal *)
(* on a node that may lose it.                                             *)
(***************************************************************************)
THEOREM NodeInductive == Spec => []NodeInvariant
<1>1. Init => NodeInvariant
  BY NodeStarts
<1>2. TypeOK /\ ChildrenNamed /\ NodeInvariant /\ [Next]_vars => NodeInvariant'
  <2> SUFFICES ASSUME TypeOK, ChildrenNamed, NodeInvariant, [Next]_vars
               PROVE  NodeInvariant'
    OBVIOUS
  <2>1. ASSUME NEW a \in Assignments, SupervisorNext(a) PROVE NodeInvariant'
    BY <2>1, SupervisorSafe, SupervisorBusy, SupervisorReads DEF NodeInvariant
  <2>2. ASSUME NEW c \in Children, ChildNext(c) PROVE NodeInvariant'
    BY <2>2, ChildSafe
  <2>3. CASE AgentNext
    BY <2>3, AgentSafe
  <2>4. CASE HostNext
    BY <2>4, HostFades, FadesSafe
  <2>5. CASE UNCHANGED vars
    BY <2>5, NodeKept
  <2> QED BY <2>1, <2>2, <2>3, <2>4, <2>5 DEF Next
<1> QED BY <1>1, <1>2, NodeTyping, NamesInductive, PTL DEF Spec

(***************************************************************************)
(* A released reservation has no process left, whoever wrote the release:  *)
(* finish, cleanup_after_launch_error and reconcile_guarded.               *)
(***************************************************************************)
THEOREM ReleasedAreGone == Spec => []ReleasedIsGone
<1>1. NodeInvariant => ReleasedIsGone
  BY DEF NodeInvariant, AttemptInvariant, Covered, ReleasedIsGone
<1> QED BY <1>1, NodeInductive, PTL

(***************************************************************************)
(* Two attempts of one task never have processes at the same time: a held  *)
(* reservation keeps the next generation out (reserve_generation).         *)
(***************************************************************************)
THEOREM OneLives == Spec => []OneLiveAttempt
<1>1. NodeInvariant => OneLiveAttempt
  BY DEF NodeInvariant, OneBusy, Busy, OneLiveAttempt
<1> QED BY <1>1, NodeInductive, PTL

(***************************************************************************)
(* User code runs only under an authorization that is recorded and was not *)
(* reported to the coordinator as over.                                    *)
(***************************************************************************)
THEOREM RunsRecorded == Spec => []RunsAreRecorded
<1>1. NodeInvariant => AuthorizedFirst
  BY DEF NodeInvariant, AttemptInvariant, Authorized, ChildInvariant, Begun,
         AuthorizedFirst
<1>2. NodeInvariant => ClosedNeverRuns
  <2> SUFFICES ASSUME NodeInvariant, NEW a \in Assignments, open[a] = "closed"
               PROVE  leader[a] # "user" /\ \A c \in ChildrenOf(a) : worker[c] # "user"
    BY DEF ClosedNeverRuns
  <2>1. /\ AttemptInvariant(a)
        /\ \A c \in ChildrenOf(a) : ChildInvariant(c) /\ ParentOf(c) = a
    BY DEF NodeInvariant, ChildrenOf
  <2>2. ~LiveFamily(a) \/ a \notin leased
    BY <2>1 DEF AttemptInvariant, Inventoried, Authorized, Covered
  <2> QED BY <2>1, <2>2
          DEF LiveFamily, Living, AttemptInvariant, Authorized, ChildInvariant
<1> QED BY <1>1, <1>2, NodeInductive, PTL DEF RunsAreRecorded
=============================================================================
