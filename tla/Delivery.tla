------------------------------ MODULE Delivery ------------------------------
(***************************************************************************)
(* From a committed publication to the coordinator's receipt, and from the *)
(* receipt to an empty spool.  The supervisor journals Released, lets its  *)
(* publisher drain and writes the outcome file; the agent polls heads and  *)
(* outcomes, uploads artifacts, reports results and failures (agent.rs),   *)
(* and collects what a delivered attempt left behind (publication_gc.rs).  *)
(* Supervisors and the agent may die between any two steps.                *)
(*                                                                         *)
(* The coordinator is external here: it stores artifacts, keeps the first  *)
(* final report of an attempt and answers a repeated one alike.  Pin rows  *)
(* are not a variable: a pin whose owner lives is exactly an open          *)
(* publisher or an agent task, and rows of dead owners are removed by the  *)
(* collector without effect.                                               *)
(***************************************************************************)
EXTENDS Publication

CONSTANTS
    WorkerWaits,  \* the leader does not exit before its last request is answered
    MaxCrash      \* bound: deaths of supervisors and of the agent

VARIABLES
    leader,       \* running, or how it exited: ok, bad
    phase,        \* execution journal: running, released
    sup,          \* supervisor process: up, gone
    outcome,      \* execution-outcome.json: none, ok, bad
    queue,        \* a result commit accepted by the supervisor, not yet begun
    agent,        \* agent process up
    slots,        \* attempts this agent process started
    reported,     \* slots whose final report was acknowledged
    poll,         \* what the agent's loop read of an attempt and not yet used
    task,         \* publications in flight
    sent,         \* the checkpoint last acknowledged to this agent process
    receipt,      \* result.receipt.json, failure.receipt.json
    collected,    \* spool-reclaimed.json
    stored,       \* coordinator: artifacts it holds
    accepted,     \* coordinator: the final report it keeps
    crashes

local == <<leader, phase, sup, outcome, queue>>
agentv == <<agent, slots, reported, poll, task, sent>>
remote == <<receipt, collected, stored, accepted>>
vars == <<pvars, local, agentv, remote, crashes>>

Command == "command"
Failed == "failed"
NoTask == [desc |-> None, left |-> {}]
Task(a, d) == [desc |-> d, left |-> IF d = Command THEN {} ELSE pub[<<a, d>>].arts]

DeliveryConstants ==
    /\ WorkerWaits \in BOOLEAN /\ MaxCrash \in Nat
    /\ {Command, Failed} \cap (Pub \cup {None}) = {}

(***************************************************************************)
(* The supervisor and the publisher inside it.                             *)
(***************************************************************************)
Launch(a) ==
    /\ sup[a] = "up" /\ phase[a] = "running"
    /\ Open(a)
    /\ UNCHANGED <<local, agentv, remote, crashes>>

\* The leader's requests; it waits for each answer, except perhaps the last.
Request(a) ==
    /\ leader[a] = "running"
    /\ queue[a] = {}
    /\ Serve(a)
    /\ UNCHANGED <<local, agentv, remote, crashes>>

SubmitResult(a, p, arts) ==
    /\ leader[a] = "running" /\ a \in open
    /\ queue[a] = {}
    /\ queue' = [queue EXCEPT ![a] = {<<p, arts>>}]
    /\ UNCHANGED <<pvars, leader, phase, sup, outcome, agentv, remote, crashes>>

\* The publisher takes the request; one that may not proceed is answered.
TakeResult(a) ==
    /\ Free(a) /\ queue[a] # {}
    /\ queue' = [queue EXCEPT ![a] = {}]
    /\ \E r \in queue[a] :
          IF MayCommit(a, r[1], "result", r[2])
          THEN CommitInsert(a, r[1], "result", r[2])
          ELSE UNCHANGED pvars
    /\ UNCHANGED <<leader, phase, sup, outcome, agentv, remote, crashes>>

Publish(a) ==
    /\ Progress(a)
    /\ UNCHANGED <<local, agentv, remote, crashes>>

LeaderExit(a) ==
    /\ leader[a] = "running" /\ a \in open
    /\ WorkerWaits => queue[a] = {} /\ job[a] = Idle
    /\ \E s \in {"ok", "bad"} : leader' = [leader EXCEPT ![a] = s]
    /\ UNCHANGED <<pvars, phase, sup, outcome, queue, agentv, remote, crashes>>

\* Released is journalled while the publisher may still have work.
Release(a) ==
    /\ sup[a] = "up" /\ leader[a] # "running" /\ phase[a] = "running"
    /\ phase' = [phase EXCEPT ![a] = "released"]
    /\ UNCHANGED <<pvars, leader, sup, outcome, queue, agentv, remote, crashes>>

\* Dropping the publisher joins its thread, which serves what is queued; only
\* then is the outcome file written.
Drain(a) ==
    /\ sup[a] = "up" /\ phase[a] = "released" /\ a \in open
    /\ queue[a] = {} /\ job[a] = Idle
    /\ open' = open \ {a}
    /\ outcome' = [outcome EXCEPT ![a] = leader[a]]
    /\ UNCHANGED <<rows, files, job, reopens, power, leader, phase, sup, queue, agentv, remote, crashes>>

Exit(a) ==
    /\ sup[a] = "up" /\ outcome[a] # "none"
    /\ sup' = [sup EXCEPT ![a] = "gone"]
    /\ UNCHANGED <<pvars, leader, phase, outcome, queue, agentv, remote, crashes>>

SupervisorDies(a) ==
    /\ crashes < MaxCrash /\ crashes' = crashes + 1
    /\ sup[a] = "up" /\ Die(a)
    /\ sup' = [sup EXCEPT ![a] = "gone"]
    /\ queue' = [queue EXCEPT ![a] = {}]
    /\ leader' = [leader EXCEPT ![a] = IF @ = "running" THEN "bad" ELSE @]
    /\ UNCHANGED <<phase, outcome, agentv, remote>>

\* Reconciliation proves a dead supervisor's processes gone.
Recover(a) ==
    /\ agent /\ sup[a] = "gone" /\ phase[a] = "running"
    /\ phase' = [phase EXCEPT ![a] = "released"]
    /\ UNCHANGED <<pvars, leader, sup, outcome, queue, agentv, remote, crashes>>

(***************************************************************************)
(* The agent's loop over its slots.                                        *)
(***************************************************************************)
InFlight(a, k) == task[a][k] # NoTask

\* read_head refuses to answer "none" while a candidate is undecided.
HeadReadable(a, k) ==
    head[<<a, k>>] = None => \A p \in UnresolvedOf(a) : pub[<<a, p>>].kind # k

PollCheckpoint(a) ==
    /\ agent /\ a \in slots /\ ~reported[a]
    /\ \A k \in Kind : ~InFlight(a, k)
    /\ HeadReadable(a, "checkpoint")
    /\ head[<<a, "checkpoint">>] \notin {None, sent[a]}
    /\ task' = [task EXCEPT ![a]["checkpoint"] = Task(a, head[<<a, "checkpoint">>])]
    /\ UNCHANGED <<pvars, local, agent, slots, reported, poll, sent, remote, crashes>>

\* The head is read first, with whether the supervisor had been reaped ...
PollResult(a) ==
    /\ agent /\ a \in slots /\ ~reported[a]
    /\ \A k \in Kind : ~InFlight(a, k)
    /\ poll[a] = {}
    /\ phase[a] = "released"
    /\ HeadReadable(a, "result")
    /\ poll' = [poll EXCEPT ![a] = {<<head[<<a, "result">>], sup[a] = "gone">>}]
    /\ UNCHANGED <<pvars, local, agent, slots, reported, task, sent, remote, crashes>>

Report(a) == CHOOSE r \in poll[a] : TRUE
Used(a) == poll' = [poll EXCEPT ![a] = {}]

\* ... and the outcome afterwards.  No outcome yet: look again later.
PollAgain(a) ==
    /\ agent /\ poll[a] # {}
    /\ outcome[a] = "none" /\ ~Report(a)[2]
    /\ Used(a)
    /\ UNCHANGED <<pvars, local, agent, slots, reported, task, sent, remote, crashes>>

\* Faulty: only a normal exit lets the result go out.
PollFinalNormal(a) ==
    /\ agent /\ poll[a] # {}
    /\ outcome[a] = "ok"
    /\ Used(a)
    /\ task' = [task EXCEPT ![a]["result"] =
                   IF Report(a)[1] = None THEN [NoTask EXCEPT !.desc = Command]
                   ELSE Task(a, Report(a)[1])]
    /\ UNCHANGED <<pvars, local, agent, slots, reported, sent, remote, crashes>>

\* A normal exit, or a committed result: the final report goes out.
PollFinal(a) ==
    /\ agent /\ poll[a] # {}
    /\ outcome[a] # "none" \/ Report(a)[2]
    /\ outcome[a] = "ok" \/ Report(a)[1] # None
    /\ Used(a)
    /\ task' = [task EXCEPT ![a]["result"] =
                   IF Report(a)[1] = None THEN [NoTask EXCEPT !.desc = Command]
                   ELSE Task(a, Report(a)[1])]
    /\ UNCHANGED <<pvars, local, agent, slots, reported, sent, remote, crashes>>

\* Neither: the failure is reported; without an answer it is tried again.
FailAnswered(a) ==
    /\ accepted[a] \in {None, Failed}
    /\ accepted' = [accepted EXCEPT ![a] = Failed]
    /\ \/ /\ receipt' = [receipt EXCEPT ![a] = Failed]
          /\ reported' = [reported EXCEPT ![a] = TRUE]
       \/ UNCHANGED <<receipt, reported>>

PollFail(a) ==
    /\ agent /\ poll[a] # {}
    /\ outcome[a] # "none" \/ Report(a)[2]
    /\ outcome[a] # "ok" /\ Report(a)[1] = None
    /\ Used(a)
    /\ FailAnswered(a)
    /\ UNCHANGED <<pvars, local, agent, slots, task, sent, collected, stored, crashes>>

\* publish(): every artifact is sent before the submission.
SendArtifact(a, k) ==
    /\ agent
    /\ \E u \in task[a][k].left :
          /\ "art" \in link[<<a, u>>]
          /\ stored' = [stored EXCEPT ![a] = @ \cup {u}]
          /\ task' = [task EXCEPT ![a][k].left = @ \ {u}]
    /\ UNCHANGED <<pvars, local, agent, slots, reported, poll, sent, receipt, collected, accepted, crashes>>

\* The answer may be lost after the coordinator accepted; no receipt then.
SubmitCheckpoint(a) ==
    /\ agent /\ InFlight(a, "checkpoint") /\ task[a]["checkpoint"].left = {}
    /\ sent' \in {[sent EXCEPT ![a] = task[a]["checkpoint"].desc], sent}
    /\ task' = [task EXCEPT ![a]["checkpoint"] = NoTask]
    /\ UNCHANGED <<pvars, local, agent, slots, reported, poll, remote, crashes>>

SubmitFinal(a) ==
    /\ agent /\ InFlight(a, "result") /\ task[a]["result"].left = {}
    /\ LET d == task[a]["result"].desc
       IN  IF accepted[a] \in {None, d}
           THEN /\ accepted' = [accepted EXCEPT ![a] = d]
                /\ \/ /\ receipt' = [receipt EXCEPT ![a] = d]
                      /\ reported' = [reported EXCEPT ![a] = TRUE]
                   \/ UNCHANGED <<receipt, reported>>
           ELSE UNCHANGED <<accepted, receipt, reported>>
    /\ task' = [task EXCEPT ![a]["result"] = NoTask]
    /\ UNCHANGED <<pvars, local, agent, slots, poll, sent, collected, stored, crashes>>

\* Durable outbox of an attempt without a slot: here the outcome is read
\* before the head.
Outbox(a) ==
    /\ agent /\ a \notin slots /\ phase[a] = "released"
    /\ receipt[a] = None /\ ~InFlight(a, "result")
    /\ HeadReadable(a, "result")
    /\ \/ /\ head[<<a, "result">>] # None \/ outcome[a] = "ok"
          /\ task' = [task EXCEPT ![a]["result"] =
                         IF head[<<a, "result">>] = None THEN [NoTask EXCEPT !.desc = Command]
                         ELSE Task(a, head[<<a, "result">>])]
          /\ UNCHANGED <<reported, receipt, accepted>>
       \/ /\ head[<<a, "result">>] = None /\ outcome[a] # "ok"
          /\ FailAnswered(a)
          /\ UNCHANGED task
    /\ UNCHANGED <<pvars, local, agent, slots, poll, sent, collected, stored, crashes>>

\* Slots, tasks and what was acknowledged are in the agent's memory only.
AgentGone ==
    /\ agent /\ crashes < MaxCrash /\ crashes' = crashes + 1
    /\ agent' = FALSE
    /\ slots' = {} /\ reported' = [a \in Attempt |-> FALSE]
    /\ poll' = [a \in Attempt |-> {}]
    /\ task' = [a \in Attempt |-> [k \in Kind |-> NoTask]]
    /\ sent' = [a \in Attempt |-> None]

AgentDies ==
    /\ AgentGone
    /\ UNCHANGED <<pvars, local, remote>>

AgentStarts ==
    /\ ~agent
    /\ agent' = TRUE
    /\ UNCHANGED <<pvars, local, slots, reported, poll, task, sent, remote, crashes>>

(***************************************************************************)
(* Collection of a delivered attempt.                                      *)
(***************************************************************************)
LivePin(a) == a \in open \/ poll[a] # {} \/ \E k \in Kind : InFlight(a, k)

\* Faulty: the collector trusts the journal and looks for no receipt.
CollectableUnreceipted(a) ==
    /\ agent /\ ~collected[a]
    /\ phase[a] = "released" /\ sup[a] = "gone"
    /\ ~LivePin(a)
    /\ UnresolvedOf(a) = {}

Collectable(a) ==
    /\ agent /\ ~collected[a]
    /\ phase[a] = "released" /\ sup[a] = "gone"
    /\ receipt[a] \notin {None, Failed}
    /\ ~LivePin(a)
    /\ head[<<a, "result">>] = None => receipt[a] = Command
    /\ head[<<a, "result">>] # None => receipt[a] = head[<<a, "result">>]
    /\ UnresolvedOf(a) = {}

SpoolPaths(a) == {Stage(a, u) : u \in Upload} \cup {Art(a, u) : u \in Upload} \cup {Input(a)}

\* Each name is removed and its directory synced before its charge goes.
Collect(a) ==
    /\ Collectable(a)
    /\ link' = [b \in Attempt \X Upload |-> IF b[1] = a THEN {} ELSE link[b]]
    /\ input' = [input EXCEPT ![a] = 0]
    /\ ledger' = Drop(ledger, SpoolPaths(a))
    /\ collected' = [collected EXCEPT ![a] = TRUE]
    /\ UNCHANGED <<up, pub, head, data, dirty, desc, log, want, job, open, reopens, power,
                   local, agentv, receipt, stored, accepted, crashes>>

\* The agent dies in the middle: names are gone, the transaction is not.
CollectInterrupted(a) ==
    /\ Collectable(a)
    /\ \E S \in SUBSET Upload :
          link' = [b \in Attempt \X Upload |-> IF b[1] = a /\ b[2] \in S THEN {} ELSE link[b]]
    /\ AgentGone
    /\ UNCHANGED <<rows, data, dirty, desc, log, input, want, job, open, reopens, power, local, remote>>

(***************************************************************************)
(* Specification.                                                          *)
(***************************************************************************)
Init ==
    /\ PubInit
    /\ leader = [a \in Attempt |-> "running"]
    /\ phase = [a \in Attempt |-> "running"]
    /\ sup = [a \in Attempt |-> "up"]
    /\ outcome = [a \in Attempt |-> "none"]
    /\ queue = [a \in Attempt |-> {}]
    /\ agent = TRUE /\ slots = Attempt
    /\ reported = [a \in Attempt |-> FALSE]
    /\ poll = [a \in Attempt |-> {}]
    /\ task = [a \in Attempt |-> [k \in Kind |-> NoTask]]
    /\ sent = [a \in Attempt |-> None]
    /\ receipt = [a \in Attempt |-> None]
    /\ collected = [a \in Attempt |-> FALSE]
    /\ stored = [a \in Attempt |-> {}]
    /\ accepted = [a \in Attempt |-> None]
    /\ crashes = 0

SupervisorStep(a) == Launch(a) \/ Publish(a) \/ TakeResult(a) \/ Release(a) \/ Drain(a) \/ Exit(a)

AgentStep(a) ==
    \/ PollCheckpoint(a) \/ PollResult(a) \/ PollAgain(a) \/ PollFinal(a) \/ PollFail(a)
    \/ SubmitCheckpoint(a) \/ SubmitFinal(a) \/ Outbox(a) \/ Recover(a) \/ Collect(a)
    \/ \E k \in Kind : SendArtifact(a, k)

Next ==
    \/ \E a \in Attempt :
          \/ SupervisorStep(a) \/ AgentStep(a) \/ Request(a) \/ LeaderExit(a)
          \/ \E p \in Pub, arts \in SUBSET Upload : SubmitResult(a, p, arts)
          \/ SupervisorDies(a) \/ CollectInterrupted(a)
    \/ AgentDies \/ AgentStarts

Spec == Init /\ [][Next]_vars

(* A worker ends, the supervisor and the agent run while they live, a dead *)
(* agent is restarted, and a request it repeats is at last answered.       *)
Fairness ==
    /\ WF_vars(AgentStarts)
    /\ \A a \in Attempt :
          /\ WF_vars(SupervisorStep(a)) /\ SF_vars(LeaderExit(a)) /\ WF_vars(Recover(a))
          /\ WF_vars(PollResult(a)) /\ WF_vars(PollAgain(a)) /\ WF_vars(PollFinal(a))
          /\ WF_vars(PollFail(a)) /\ WF_vars(Outbox(a))
          /\ \A k \in Kind : WF_vars(SendArtifact(a, k))
          /\ WF_vars(SubmitCheckpoint(a))
          /\ SF_vars(SubmitCheckpoint(a) /\ sent'[a] = task[a]["checkpoint"].desc)
          /\ SF_vars(SubmitFinal(a) /\ receipt'[a] # None)
LiveSpec == Spec /\ Fairness

(***************************************************************************)
(* Properties.                                                             *)
(***************************************************************************)

(* A plain exit status is never accepted as the result of an attempt that  *)
(* has a committed or an undecided native result (agent.rs 2147-2152).     *)
NoPlainFallback ==
    \A a \in Attempt : accepted[a] = Command =>
        /\ head[<<a, "result">>] = None
        /\ \A p \in UnresolvedOf(a) : pub[<<a, p>>].kind # "result"

(* What a publication in flight still has to send is on disk: collection   *)
(* never takes it away (publication_gc.rs 137-151, agent.rs 2762-2766).    *)
SendableWhileInFlight ==
    \A a \in Attempt, k \in Kind : \A u \in task[a][k].left : "art" \in link[<<a, u>>]

(* An artifact of the final result leaves the disk only when the           *)
(* coordinator holds it and keeps that very result.                        *)
GoneIsDelivered ==
    \A a \in Attempt :
        LET p == head[<<a, "result">>]
        IN  p # None => \A u \in pub[<<a, p>>].arts :
                link[<<a, u>>] = {} => accepted[a] = p /\ u \in stored[a]

(* A committed native result reaches the coordinator, whatever dies on the *)
(* way and whatever the exit status was.                                   *)
ResultDelivered ==
    \A a \in Attempt : head[<<a, "result">>] # None ~> accepted[a] = head[<<a, "result">>]
=============================================================================
