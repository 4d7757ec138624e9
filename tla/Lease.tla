-------------------------------- MODULE Lease --------------------------------
(***************************************************************************)
(* The life of one lease, from the coordinator's grant to the reducer in   *)
(* the supervisor that ends the workload: Prepared and Renew with late,    *)
(* lost and abandoned requests (coordinator.rs grant, agent.rs slot loop), *)
(* the pipe to the supervisor (PipeControl) and Lifecycle (supervision.rs).*)
(*                                                                         *)
(* Nobody shares a clock reading: a grant travels as a duration, the agent *)
(* takes off the time since it asked, and the supervisor anchors what is   *)
(* left where it began to poll.  All clocks are assumed to run at one      *)
(* speed; `now' is the time that has passed on each of them.               *)
(***************************************************************************)
EXTENDS Integers, FiniteSets, Sequences

CONSTANTS
    Opportunistic,          \* the class of the allocation
    LeaseMs, DrainMs, TermMs, \* lease_ms, drain_timeout_ms, term_grace_ms
    Interval,               \* heartbeat_interval_ms
    MaxTime, MaxEpoch,      \* bounds: time, coordinator starts
    MaxAsked, MaxPipe       \* bounds: requests on the way, controls not applied

ASSUME LeaseAssumption ==
    /\ Opportunistic \in BOOLEAN
    /\ LeaseMs \in Nat \ {0} /\ DrainMs \in Nat /\ TermMs \in Nat /\ Interval \in Nat \ {0}
    /\ MaxTime \in Nat /\ MaxEpoch \in Nat \ {0} /\ MaxAsked \in Nat /\ MaxPipe \in Nat

VARIABLES
    now,
    coord,   \* reservation row: uncertain, fenced, lease_sequence, deadline, drain; and the epoch
    asked,   \* requests the coordinator has not handled
    slot,    \* agent slot: sequence, epoch, last_renew, the RPC it waits for, drained by a heartbeat
    pipe,    \* controls on their way to the supervisor; closed when the agent dies
    sup,     \* supervisor: step, epoch it accepts, poll entry, commands read, journalled drain
    life     \* Lifecycle

vars == <<now, coord, asked, slot, pipe, sup, life>>

\* Faulty: a plain subtraction.
SatSubPlain(a, b) == a - b

\* u64::saturating_sub.
SatSub(a, b) == IF a > b THEN a - b ELSE 0
Least(a, b) == IF a < b THEN a ELSE b
NoLease == [epoch |-> 0, seq |-> 0, valid |-> 0, drain |-> FALSE]
NoRpc == [state |-> "none", sent |-> 0, prev |-> 0, lease |-> NoLease]
\* The gate was opened and the supervisor has not been left.
Live == sup.step \in {"loop", "read", "apply"}

\* The allocation was just offered; its gated process is prepared.
Init ==
    /\ now = 0
    /\ coord = [uncertain |-> FALSE, fenced |-> FALSE, seq |-> 0, deadline |-> LeaseMs,
                drain |-> FALSE, epoch |-> 1]
    /\ asked = {}
    /\ slot = [seq |-> 0, epoch |-> 1, last |-> 0, rpc |-> NoRpc, alive |-> TRUE, told |-> FALSE]
    /\ pipe = <<>>
    /\ sup = [step |-> "gated", epoch |-> 1, at |-> 0, commands |-> <<>>, lost |-> FALSE,
              local |-> FALSE, draining |-> FALSE]
    /\ life = [phase |-> "running", seq |-> 0, deadline |-> 0, drainAt |-> 0]

Tick ==
    /\ now < MaxTime
    /\ now' = now + 1
    /\ UNCHANGED <<coord, asked, slot, pipe, sup, life>>

-----------------------------------------------------------------------------
(* The coordinator. *)
\* Every request first expires what is due; an expired row is fenced.  A row that
\* a restart made uncertain waits for a report.
Due == Opportunistic /\ ~coord.uncertain /\ coord.deadline <= now

Expire ==
    /\ Due
    /\ coord' = [coord EXCEPT !.uncertain = TRUE, !.fenced = TRUE]
    /\ UNCHANGED <<now, asked, slot, pipe, sup, life>>

\* Preemption, cancellation, a node drain.
RequestDrain ==
    /\ ~coord.drain
    /\ coord' = [coord EXCEPT !.drain = TRUE]
    /\ UNCHANGED <<now, asked, slot, pipe, sup, life>>

Restart ==
    /\ coord.epoch < MaxEpoch
    /\ coord' = [coord EXCEPT !.epoch = @ + 1, !.uncertain = TRUE]
    /\ UNCHANGED <<now, asked, slot, pipe, sup, life>>

Grantable(r) ==
    /\ r.epoch = coord.epoch
    /\ ~coord.uncertain
    /\ r.prev # 0 => coord.seq > 0 /\ (r.prev = coord.seq \/ r.prev + 1 = coord.seq)

\* A repeat of what was granted already; prev = 0 stands for Prepared.
Retry(r) == coord.seq > 0 /\ r.prev # coord.seq

ValidFor(deadline) == Least(SatSub(deadline, now), LeaseMs)

Handle(r) ==
    LET extend == Grantable(r) /\ ~Retry(r) /\ ~coord.drain
        seq == IF extend THEN coord.seq + 1 ELSE coord.seq
        deadline == IF extend THEN now + LeaseMs ELSE coord.deadline
        lease == [epoch |-> coord.epoch, seq |-> seq, valid |-> ValidFor(deadline),
                  drain |-> coord.drain]
        awaited == slot.rpc.state = "waiting" /\ slot.rpc.sent = r.sent /\ slot.rpc.prev = r.prev IN
    /\ r \in asked /\ ~Due
    /\ asked' = asked \ {r}
    /\ coord' = IF extend THEN [coord EXCEPT !.seq = seq, !.deadline = deadline] ELSE coord
    /\ slot' = IF ~awaited THEN slot
               ELSE [slot EXCEPT !.rpc = IF Grantable(r)
                                           THEN [@ EXCEPT !.state = "answered", !.lease = lease]
                                           ELSE NoRpc]
    /\ UNCHANGED <<now, pipe, sup, life>>

-----------------------------------------------------------------------------
(* The agent's slot loop. *)
\* A bound: controls that were sent and not applied yet.
Room == Len(pipe) + Len(sup.commands) < MaxPipe
Idle == slot.alive /\ slot.rpc = NoRpc

Asks(last) ==
    /\ Cardinality(asked) < MaxAsked
    /\ asked' = asked \cup {[prev |-> slot.seq, epoch |-> slot.epoch, sent |-> now]}
    /\ slot' = [slot EXCEPT !.last = last,
                            !.rpc = [NoRpc EXCEPT !.state = "waiting", !.sent = now, !.prev = slot.seq]]
    /\ UNCHANGED <<now, coord, pipe, sup, life>>

AskPrepared == Idle /\ slot.seq = 0 /\ sup.step = "gated" /\ Asks(slot.last)

\* One renewal per interval; the schedule keeps its phase when slots are missed.
AskRenewal ==
    /\ Idle /\ slot.seq > 0 /\ (Live \/ sup.step = "authorized") /\ ~sup.draining
    /\ now - slot.last >= Interval
    /\ Asks(now - ((now - slot.last) % Interval))

\* The reply is lost or late: the RPC fails, the request may still arrive.
GiveUp ==
    /\ slot.rpc # NoRpc
    /\ slot' = [slot EXCEPT !.rpc = NoRpc]
    /\ UNCHANGED <<now, coord, asked, pipe, sup, life>>

\* Faulty: the duration is counted from the arrival of the reply.
RemainingFromReply(rpc) == rpc.lease.valid

\* The duration is counted from the moment the request was sent.
Remaining(rpc) == SatSub(rpc.lease.valid, now - rpc.sent)

Receive ==
    LET rpc == slot.rpc
        kind == IF rpc.prev = 0 THEN "authorize" ELSE "renewal" IN
    /\ slot.alive /\ rpc.state = "answered"
    /\ IF Remaining(rpc) = 0
          THEN UNCHANGED pipe /\ slot' = [slot EXCEPT !.rpc = NoRpc]
          ELSE /\ Room
               /\ pipe' = Append(pipe, [kind |-> kind, epoch |-> rpc.lease.epoch, seq |-> rpc.lease.seq,
                                        valid |-> rpc.lease.valid, drain |-> rpc.lease.drain,
                                        expires |-> now + Remaining(rpc)])
               /\ slot' = [slot EXCEPT !.rpc = NoRpc, !.seq = rpc.lease.seq,
                                       !.last = IF rpc.prev = 0 THEN now ELSE @]
    /\ UNCHANGED <<now, coord, asked, sup, life>>

DrainMessage == [kind |-> "drain", epoch |-> 0, seq |-> 0, valid |-> 0, drain |-> TRUE, expires |-> 0]

\* A heartbeat reports the allocation: a row that is not fenced is certain again,
\* and a drain that the node began is recorded.  The reply brings the epoch and
\* the drains; an uncertain row, or a stale report, drains opportunistic work.
Heartbeat ==
    /\ Idle /\ sup.step # "refused" /\ ~Due
    /\ coord' = IF coord.fenced THEN coord
                ELSE [coord EXCEPT !.uncertain = FALSE, !.drain = @ \/ sup.draining]
    /\ \E stale \in BOOLEAN :
          IF coord'.drain \/ (Opportunistic /\ (coord'.uncertain \/ stale))
            THEN /\ Room
                 /\ pipe' = Append(pipe, DrainMessage)
                 /\ slot' = [slot EXCEPT !.epoch = coord.epoch, !.told = TRUE]
            ELSE pipe' = pipe /\ slot' = [slot EXCEPT !.epoch = coord.epoch]
    /\ UNCHANGED <<now, asked, sup, life>>

\* The node's own policy, a full spool or the agent's shutdown.
AgentDrain ==
    /\ Idle /\ ~sup.local /\ Room
    /\ pipe' = Append(pipe, DrainMessage)
    /\ sup' = [sup EXCEPT !.local = TRUE]
    /\ UNCHANGED <<now, coord, asked, slot, life>>

AgentDies ==
    /\ slot.alive
    /\ slot' = [slot EXCEPT !.alive = FALSE, !.rpc = NoRpc]
    /\ UNCHANGED <<now, coord, asked, pipe, sup, life>>

-----------------------------------------------------------------------------
(* Lifecycle: the pure reducer. *)
Drained(l, t) ==
    IF l.phase = "running" THEN [l EXCEPT !.phase = "draining", !.drainAt = t] ELSE l

\* Faulty: the drain is counted from the late observation.
TickedFromNow(l, t) ==
    LET d == IF l.phase = "running" /\ Opportunistic /\ t >= l.deadline THEN Drained(l, t) ELSE l IN
    IF d.phase = "running" THEN d
    ELSE [d EXCEPT !.phase = IF SatSub(t, d.drainAt) >= DrainMs + TermMs THEN "kill"
                             ELSE IF SatSub(t, d.drainAt) >= DrainMs THEN "terminating" ELSE @]

\* tick: expiry is a deadline, whenever it is observed.
Ticked(l, t) ==
    LET d == IF l.phase = "running" /\ Opportunistic /\ t >= l.deadline
               THEN Drained(l, l.deadline) ELSE l IN
    IF d.phase = "running" THEN d
    ELSE [d EXCEPT !.phase = IF SatSub(t, d.drainAt) >= DrainMs + TermMs THEN "kill"
                             ELSE IF SatSub(t, d.drainAt) >= DrainMs THEN "terminating" ELSE @]

\* Faulty: a renewal that was waiting is applied before the clock is looked at.
RenewedUnticked(l, c, t) ==
    IF l.phase = "running" /\ c.seq > l.seq
      THEN [l EXCEPT !.seq = c.seq, !.deadline = Least(t + LeaseMs, sup.at + c.remaining)]
      ELSE l

\* coordinator_renewal, then cap_lease_remaining from the poll's entry.
Renewed(l, c, t) ==
    LET d == Ticked(l, t) IN
    IF d.phase = "running" /\ c.seq > d.seq
      THEN [d EXCEPT !.seq = c.seq, !.deadline = Least(t + LeaseMs, sup.at + c.remaining)]
      ELSE d

AgentFailed(l, t) == IF Opportunistic THEN Drained(l, t) ELSE l

Applied(l, c, t) ==
    CASE c.kind = "renew" -> Renewed(l, c, t)
      [] c.kind = "drain" -> Drained(l, t)
      [] OTHER -> AgentFailed(l, t)

-----------------------------------------------------------------------------
(* The supervisor. *)
\* validate_lease.
ValidLease(m) == m.epoch >= sup.epoch /\ m.seq > 0
Left(m) == SatSub(m.expires, now)

\* The first control is an authorization that is still valid, or the gate is
\* never opened.  Until the reducer starts, deadline is the end of that grant.
Authorize ==
    /\ sup.step = "gated" /\ pipe # <<>>
    /\ LET m == Head(pipe) IN
       IF m.kind = "authorize" /\ ValidLease(m) /\ ~m.drain /\ Left(m) > 0 /\ Left(m) <= m.valid
         THEN /\ sup' = [sup EXCEPT !.step = "authorized"]
              /\ life' = [life EXCEPT !.deadline = m.expires]
         ELSE sup' = [sup EXCEPT !.step = "refused"] /\ UNCHANGED life
    /\ pipe' = Tail(pipe)
    /\ UNCHANGED <<now, coord, asked, slot>>

\* The authorization is committed, EXEC is sent, and the reducer starts with
\* what is left by then.
OpenGate ==
    /\ sup.step = "authorized"
    /\ sup' = [sup EXCEPT !.step = "loop"]
    /\ life' = [life EXCEPT !.deadline = now + Least(LeaseMs, SatSub(life.deadline, now))]
    /\ UNCHANGED <<now, coord, asked, slot, pipe>>

\* The preparation times out, or the agent is gone: the gate stays blocked.
GateStaysBlocked ==
    /\ sup.step \in {"gated", "authorized"}
    /\ sup' = [sup EXCEPT !.step = "refused"]
    /\ UNCHANGED <<now, coord, asked, slot, pipe, life>>

BeginPoll ==
    /\ sup.step = "loop"
    /\ sup' = [sup EXCEPT !.step = "read", !.at = now]
    /\ UNCHANGED <<now, coord, asked, slot, pipe, life>>

\* pending_commands: one control becomes one command, or is dropped.
ReadControl ==
    /\ sup.step = "read" /\ pipe # <<>>
    /\ LET m == Head(pipe)
           lease == m.kind = "renewal" /\ ValidLease(m) /\ Left(m) > 0 /\ Left(m) <= m.valid
           c == IF m.drain \/ m.kind = "drain"
                THEN [kind |-> "drain", seq |-> m.seq, remaining |-> 0]
                ELSE [kind |-> "renew", seq |-> m.seq, remaining |-> Left(m)] IN
       sup' = IF lease \/ m.kind = "drain"
                THEN [sup EXCEPT !.epoch = IF lease THEN m.epoch ELSE @, !.commands = Append(@, c)]
                ELSE sup
    /\ pipe' = Tail(pipe)
    /\ UNCHANGED <<now, coord, asked, slot, life>>

\* The pipe is empty; at its end the agent is lost, once.  The policy may add
\* a drain of its own.
EndRead ==
    /\ sup.step = "read" /\ pipe = <<>>
    /\ LET lost == ~slot.alive /\ ~sup.lost
           gone == IF lost THEN <<[kind |-> "lost", seq |-> 0, remaining |-> 0]>> ELSE <<>> IN
       \E local \in BOOLEAN :
          LET own == IF local THEN <<[kind |-> "drain", seq |-> 0, remaining |-> 0]>> ELSE <<>> IN
          sup' = [sup EXCEPT !.step = "apply", !.lost = @ \/ lost, !.local = @ \/ local,
                             !.commands = @ \o gone \o own]
    /\ UNCHANGED <<now, coord, asked, slot, pipe, life>>

ApplyCommand ==
    /\ sup.step = "apply" /\ sup.commands # <<>>
    /\ life' = Applied(life, Head(sup.commands), now)
    /\ sup' = [sup EXCEPT !.commands = Tail(@)]
    /\ UNCHANGED <<now, coord, asked, slot, pipe>>

EndPoll ==
    /\ sup.step = "apply" /\ sup.commands = <<>>
    /\ life' = Ticked(life, now)
    /\ sup' = [sup EXCEPT !.step = "loop", !.at = 0, !.draining = life'.phase # "running"]
    /\ UNCHANGED <<now, coord, asked, slot, pipe>>

Next ==
    \/ Tick \/ Expire \/ RequestDrain \/ Restart
    \/ \E r \in asked : Handle(r)
    \/ AskPrepared \/ AskRenewal \/ GiveUp \/ Receive \/ Heartbeat \/ AgentDrain \/ AgentDies
    \/ Authorize \/ OpenGate \/ GateStaysBlocked \/ BeginPoll \/ ReadControl \/ EndRead \/ ApplyCommand \/ EndPoll

Spec == Init /\ [][Next]_vars

-----------------------------------------------------------------------------
CoordType == [uncertain : BOOLEAN, fenced : BOOLEAN, seq : Nat, deadline : Nat,
              drain : BOOLEAN, epoch : Nat]
LeaseType == [epoch : Nat, seq : Nat, valid : Nat, drain : BOOLEAN]
RpcType == [state : {"none", "waiting", "answered"}, sent : Nat, prev : Nat, lease : LeaseType]
SlotType == [seq : Nat, epoch : Nat, last : Nat, alive : BOOLEAN, told : BOOLEAN,
             rpc : RpcType]
MessageType == [kind : {"authorize", "renewal", "drain"}, epoch : Nat, seq : Nat, valid : Nat,
                drain : BOOLEAN, expires : Nat]
CommandType == [kind : {"renew", "drain", "lost"}, seq : Nat, remaining : Nat]
SupType == [step : {"gated", "authorized", "refused", "loop", "read", "apply"}, epoch : Nat,
            at : Nat, commands : Seq(CommandType), lost : BOOLEAN, local : BOOLEAN,
            draining : BOOLEAN]
LifeType == [phase : {"running", "draining", "terminating", "kill"}, seq : Nat,
             deadline : Nat, drainAt : Nat]
TypeOK ==
    /\ now \in Nat
    /\ coord \in CoordType
    /\ asked \subseteq [prev : Nat, epoch : Nat, sent : Nat]
    /\ slot \in SlotType
    /\ pipe \in Seq(MessageType)
    /\ sup \in SupType
    /\ life \in LifeType

\* What the supervisor makes of its state at this moment.
Observed == Ticked(life, now)

\* The node never believes in a lease longer than the coordinator does, however
\* late, lost or repeated the messages between them were: a deadline of the
\* supervisor that is still to come lies at or before the one in the reservation
\* row (valid_for_ms, requested.elapsed(), expires_monotonic_ms, polled_at).
NodeExpiresFirst == Live => life.deadline <= coord.deadline \/ life.deadline <= now

\* An opportunistic workload that is still entitled to run, or to launch a
\* child, is one the coordinator has not given up: when the row expires and is
\* fenced, so that its task may run elsewhere after release, no node considers
\* the lease valid.
AuthorityIsCurrent ==
    Opportunistic /\ Live /\ Observed.phase = "running" => ~coord.fenced /\ now < coord.deadline

\* When nothing but the deadline ends the lease, the kill is due at the deadline
\* plus the drain and term times, also when the supervisor slept through all of
\* them (tick).
KillIsDue == now >= life.deadline + DrainMs + TermMs => Observed.phase = "kill"
Undisturbed == ~coord.drain /\ ~slot.told /\ ~sup.local /\ ~sup.lost
ExpiryIsDeadline == Opportunistic /\ Live /\ Undisturbed => KillIsDue

\* supervision.rs:161: "Expiry is a deadline, not the (potentially late)
\* observation time", whatever else is observed at the same time.
ExpiryIsAlwaysDeadline == Opportunistic /\ Live => KillIsDue

\* A drain is irrevocable: no late renewal revives an allocation whose deadline
\* has passed or whose drain was requested (coordinator_renewal).
NeverRevived ==
    [][Live /\ Observed.phase # "running" => Observed'.phase # "running"]_vars

\* Guaranteed work is ended by the coordinator or the local policy, never by
\* a lost agent, a lost coordinator or an expired lease.
GuaranteedContinues ==
    ~Opportunistic /\ life.phase # "running" => coord.drain \/ sup.local
=============================================================================
