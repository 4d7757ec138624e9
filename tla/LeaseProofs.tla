----------------------------- MODULE LeaseProofs -----------------------------
(***************************************************************************)
(* Proofs about Lease, for every lease, drain and term time, every         *)
(* renewal interval, both classes and whatever the bounds.                 *)
(***************************************************************************)
EXTENDS Lease, SequenceTheorems, TLAPS

USE LeaseAssumption DEF LeaseAssumption

\* The row never promises more than one lease from now, it is fenced only after
\* its deadline, and a fenced row is never certain again.
RowBound ==
    /\ coord.deadline <= now + LeaseMs
    /\ coord.fenced => coord.uncertain /\ coord.deadline <= now
\* Whatever is on its way ends, where its receiver will anchor it, no later than
\* the row does.
RpcBound ==
    /\ slot.rpc.sent <= now /\ slot.last <= now
    /\ slot.rpc.lease.valid > 0 => slot.rpc.sent + slot.rpc.lease.valid <= coord.deadline
    /\ \A r \in asked : r.sent <= now
PipeBound == \A i \in 1..Len(pipe) : pipe[i].expires <= coord.deadline
CommandBound ==
    \A i \in 1..Len(sup.commands) :
        sup.commands[i].kind = "renew" => sup.at + sup.commands[i].remaining <= coord.deadline
PollBound ==
    /\ sup.at <= now
    /\ sup.step \notin {"read", "apply"} => sup.commands = <<>>
GrantBound == sup.step = "authorized" => life.deadline <= coord.deadline
\* Every drain was asked for by the coordinator or by the node, and a heartbeat
\* drains guaranteed work only when a drain was requested.
Asked == coord.drain \/ slot.told \/ sup.local
ToldOrigin == slot.told => coord.drain \/ Opportunistic
DrainOrigin ==
    /\ slot.rpc.lease.drain => Asked
    /\ \A i \in 1..Len(pipe) : pipe[i].drain \/ pipe[i].kind = "drain" => Asked
    /\ \A i \in 1..Len(sup.commands) :
          /\ sup.commands[i].kind = "drain" => Asked
          /\ sup.commands[i].kind = "lost" => sup.lost
\* The reducer leaves "running" only once it was started, and either on request
\* or with the deadline as the start of its drain.
PhaseOrigin ==
    /\ ~Live => life.phase = "running"
    /\ life.phase # "running" /\ ~Asked =>
          Opportunistic /\ (sup.lost \/ life.drainAt = life.deadline)

Inv ==
    /\ TypeOK
    /\ RowBound /\ RpcBound /\ PipeBound /\ CommandBound /\ PollBound /\ GrantBound
    /\ NodeExpiresFirst /\ ToldOrigin /\ DrainOrigin /\ PhaseOrigin

-----------------------------------------------------------------------------
(* The reducer. *)

\* saturating_sub of naturals is a natural, and never larger than its argument.
LEMMA SatSubNat ==
    ASSUME NEW a \in Nat, NEW b \in Nat
    PROVE  /\ SatSub(a, b) \in Nat /\ SatSub(a, b) <= a
           /\ SatSub(a, b) > 0 => SatSub(a, b) = a - b
           /\ a >= b => SatSub(a, b) = a - b
  BY DEF SatSub

\* The smaller of two naturals.
LEMMA LeastNat ==
    ASSUME NEW a \in Nat, NEW b \in Nat
    PROVE  Least(a, b) \in Nat /\ Least(a, b) <= a /\ Least(a, b) <= b
  BY DEF Least

\* request_drain moves a running reducer to draining and touches no other.
LEMMA DrainedStep ==
    ASSUME NEW l \in LifeType, NEW t \in Nat
    PROVE  /\ Drained(l, t) \in LifeType
           /\ Drained(l, t).deadline = l.deadline
           /\ l.phase = "running" => Drained(l, t).phase = "draining" /\ Drained(l, t).drainAt = t
           /\ l.phase # "running" => Drained(l, t) = l
           /\ Drained(l, t).phase # "running"
  BY DEF Drained, LifeType

\* tick never moves the deadline; it leaves "running" exactly when an
\* opportunistic deadline has passed, and then counts from that deadline.
LEMMA TickedStep ==
    ASSUME NEW l \in LifeType, NEW t \in Nat
    PROVE  /\ Ticked(l, t) \in LifeType
           /\ Ticked(l, t).deadline = l.deadline
           /\ Ticked(l, t).phase = "running" <=>
                 l.phase = "running" /\ ~(Opportunistic /\ t >= l.deadline)
           /\ l.phase = "running" /\ Ticked(l, t).phase # "running" =>
                 Ticked(l, t).drainAt = l.deadline
           /\ l.phase # "running" => Ticked(l, t).drainAt = l.drainAt
           /\ l.phase = "running" /\ Ticked(l, t).phase = "running" => Ticked(l, t) = l
<1> DEFINE d == IF l.phase = "running" /\ Opportunistic /\ t >= l.deadline
                  THEN Drained(l, l.deadline) ELSE l
<1> DEFINE p == IF SatSub(t, d.drainAt) >= DrainMs + TermMs THEN "kill"
                ELSE IF SatSub(t, d.drainAt) >= DrainMs THEN "terminating" ELSE d.phase
<1>1. l.deadline \in Nat /\ l.phase \in {"running", "draining", "terminating", "kill"}
  BY DEF LifeType
<1>2. /\ d \in LifeType /\ d.deadline = l.deadline
      /\ d.phase = "running" <=> l.phase = "running" /\ ~(Opportunistic /\ t >= l.deadline)
      /\ l.phase = "running" /\ d.phase # "running" => d.drainAt = l.deadline
      /\ l.phase # "running" => d = l
      /\ l.phase = "running" /\ d.phase = "running" => d = l
  <2>1. CASE l.phase = "running" /\ Opportunistic /\ t >= l.deadline
    <3>1. d = Drained(l, l.deadline)  BY <2>1
    <3> QED  BY <1>1, <2>1, <3>1, DrainedStep
  <2>2. CASE ~(l.phase = "running" /\ Opportunistic /\ t >= l.deadline)
    <3>1. d = l  BY <2>2
    <3> QED  BY <1>1, <2>2, <3>1
  <2> QED  BY <2>1, <2>2
<1>3. Ticked(l, t) = IF d.phase = "running" THEN d ELSE [d EXCEPT !.phase = p]
  BY DEF Ticked
<1>4. d.phase # "running" => p \in {"draining", "terminating", "kill"}
  BY <1>2 DEF LifeType
<1> HIDE DEF d, p
<1> QED  BY <1>2, <1>3, <1>4 DEF LifeType

\* One command: the deadline moves only by a renewal, to at most what was left
\* at the poll; nothing revives; without a request only the deadline ends it.
LEMMA AppliedStep ==
    ASSUME NEW l \in LifeType, NEW c \in CommandType, NEW t \in Nat, sup.at \in Nat
    PROVE  /\ Applied(l, c, t) \in LifeType
           /\ \/ Applied(l, c, t).deadline = l.deadline
              \/ c.kind = "renew" /\ Applied(l, c, t).deadline <= sup.at + c.remaining
           /\ l.phase # "running" =>
                 /\ Applied(l, c, t).phase # "running" /\ Applied(l, c, t).drainAt = l.drainAt
                 /\ Applied(l, c, t).deadline = l.deadline
           /\ l.phase = "running" /\ Applied(l, c, t).phase # "running" =>
                 \/ c.kind = "drain"
                 \/ Opportunistic /\ (c.kind = "lost" \/ Applied(l, c, t).drainAt = Applied(l, c, t).deadline)
           /\ Opportunistic /\ t >= l.deadline => Applied(l, c, t).phase # "running"
<1> DEFINE d == Ticked(l, t)
<1>1. c.kind \in {"renew", "drain", "lost"} /\ c.seq \in Nat /\ c.remaining \in Nat
  BY DEF CommandType
<1>2. CASE c.kind = "renew"
  <2>1. Applied(l, c, t) = Renewed(l, c, t)  BY <1>2 DEF Applied
  <2>2. d \in LifeType /\ d.deadline = l.deadline  BY TickedStep
  <2>3. CASE d.phase = "running" /\ c.seq > d.seq
    <3> DEFINE e == Least(t + LeaseMs, sup.at + c.remaining)
    <3>1. Renewed(l, c, t) = [d EXCEPT !.seq = c.seq, !.deadline = e]
      BY <2>3 DEF Renewed
    <3>n. t + LeaseMs \in Nat /\ sup.at + c.remaining \in Nat  BY <1>1
    <3>2. e \in Nat /\ e <= sup.at + c.remaining  BY <3>n, LeastNat
    <3>3. l.phase = "running" /\ ~(Opportunistic /\ t >= l.deadline)  BY <2>3, TickedStep
    <3> HIDE DEF d, e
    <3>4. /\ Renewed(l, c, t) \in LifeType /\ Renewed(l, c, t).deadline = e
          /\ Renewed(l, c, t).phase = "running"
      BY <1>1, <2>2, <2>3, <3>1, <3>2 DEF LifeType
    <3> QED  BY <1>2, <2>1, <3>2, <3>3, <3>4
  <2>4. CASE ~(d.phase = "running" /\ c.seq > d.seq)
    <3>1. Renewed(l, c, t) = Ticked(l, t)  BY <2>4 DEF Renewed
    <3> HIDE DEF d
    <3> QED  BY <1>2, <2>1, <3>1, TickedStep
  <2> QED  BY <2>3, <2>4
<1>3. CASE c.kind = "drain"
  <2>1. Applied(l, c, t) = Drained(l, t)  BY <1>3 DEF Applied
  <2> QED  BY <1>3, <2>1, DrainedStep
<1>4. CASE c.kind = "lost"
  <2>1. Applied(l, c, t) = IF Opportunistic THEN Drained(l, t) ELSE l
    BY <1>4 DEF Applied, AgentFailed
  <2> QED  BY <1>4, <2>1, DrainedStep
<1> QED  BY <1>1, <1>2, <1>3, <1>4

-----------------------------------------------------------------------------
(* The invariant. *)
\* It holds of a freshly offered allocation.
LEMMA InvInit == Init => Inv
  BY DEF Init, Inv, TypeOK, RowBound, RpcBound, PipeBound, CommandBound, PollBound, GrantBound,
         NodeExpiresFirst, ToldOrigin, DrainOrigin, PhaseOrigin, Live, NoRpc, NoLease, LeaseType, Asked,
         CoordType, SlotType, RpcType, SupType, LifeType

\* The types of the fields the bounds are about.
FieldTypes ==
    /\ now \in Nat
    /\ coord.deadline \in Nat /\ coord.drain \in BOOLEAN /\ coord.epoch \in Nat /\ coord.seq \in Nat
    /\ slot.rpc.sent \in Nat /\ slot.last \in Nat /\ slot.rpc.lease.valid \in Nat
    /\ slot.rpc.lease.drain \in BOOLEAN /\ slot.rpc.lease.seq \in Nat /\ slot.rpc.lease.epoch \in Nat
    /\ \A r \in asked : r.sent \in Nat
    /\ pipe \in Seq(MessageType) /\ Len(pipe) \in Nat
    /\ \A i \in 1..Len(pipe) : pipe[i] \in MessageType /\ pipe[i].expires \in Nat
    /\ sup.at \in Nat /\ sup.local \in BOOLEAN /\ sup.lost \in BOOLEAN /\ sup.epoch \in Nat
    /\ sup.step \in {"gated", "authorized", "refused", "loop", "read", "apply"}
    /\ sup.commands \in Seq(CommandType) /\ Len(sup.commands) \in Nat
    /\ \A i \in 1..Len(sup.commands) :
          sup.commands[i] \in CommandType /\ sup.commands[i].remaining \in Nat
    /\ life \in LifeType /\ life.deadline \in Nat /\ life.drainAt \in Nat

\* They follow from the type invariant.
LEMMA Fields == ASSUME TypeOK PROVE FieldTypes
<1>1. pipe \in Seq(MessageType) /\ sup.commands \in Seq(CommandType)
  BY DEF TypeOK, SupType
<1>2. /\ Len(pipe) \in Nat /\ \A i \in 1..Len(pipe) : pipe[i] \in MessageType
      /\ Len(sup.commands) \in Nat
      /\ \A i \in 1..Len(sup.commands) : sup.commands[i] \in CommandType
  BY <1>1, ElementOfSeq, LenProperties
<1>3. /\ \A i \in 1..Len(pipe) : pipe[i].expires \in Nat
      /\ \A i \in 1..Len(sup.commands) : sup.commands[i].remaining \in Nat
  BY <1>2 DEF MessageType, CommandType
<1>4. life \in LifeType  BY DEF TypeOK
<1>5. life.deadline \in Nat /\ life.drainAt \in Nat  BY <1>4 DEF LifeType
<1>6. /\ slot.rpc.sent \in Nat /\ slot.last \in Nat /\ slot.rpc.lease.valid \in Nat
      /\ slot.rpc.lease.drain \in BOOLEAN /\ slot.rpc.lease.seq \in Nat /\ slot.rpc.lease.epoch \in Nat
  BY DEF TypeOK, SlotType, RpcType, LeaseType
<1>7. /\ now \in Nat
      /\ coord.deadline \in Nat /\ coord.drain \in BOOLEAN /\ coord.epoch \in Nat /\ coord.seq \in Nat
      /\ \A r \in asked : r.sent \in Nat
  BY DEF TypeOK, CoordType
<1>8. /\ sup.at \in Nat /\ sup.local \in BOOLEAN /\ sup.lost \in BOOLEAN /\ sup.epoch \in Nat
      /\ sup.step \in {"gated", "authorized", "refused", "loop", "read", "apply"}
  BY DEF TypeOK, SupType
<1> QED  BY <1>1, <1>2, <1>3, <1>4, <1>5, <1>6, <1>7, <1>8 DEF FieldTypes

\* What was promised stays within the row when time passes and the row's
\* deadline only grows.
LEMMA Later ==
    ASSUME Inv, TypeOK', RowBound', RpcBound', slot'.rpc.lease.drain => Asked',
           now <= now', coord.deadline <= coord'.deadline, coord.drain => coord'.drain,
           slot'.told = slot.told, UNCHANGED <<pipe, sup, life>>
    PROVE  Inv'
<1>1. FieldTypes  BY Fields DEF Inv
<1>2. now' \in Nat /\ coord'.deadline \in Nat  BY DEF TypeOK, CoordType
<1>3. Asked => Asked'  BY DEF Asked
<1>n. coord.deadline \in Nat  BY <1>1 DEF FieldTypes
<1>4. PipeBound'
  <2>1. SUFFICES ASSUME NEW i \in 1..Len(pipe) PROVE pipe[i].expires <= coord'.deadline
    BY DEF PipeBound
  <2>2. pipe[i].expires \in Nat /\ pipe[i].expires <= coord.deadline
    BY <1>1 DEF Inv, PipeBound, FieldTypes
  <2> QED  BY <1>2, <1>n, <2>2
<1>5. CommandBound'
  <2>1. SUFFICES ASSUME NEW i \in 1..Len(sup.commands), sup.commands[i].kind = "renew"
                 PROVE  sup.at + sup.commands[i].remaining <= coord'.deadline
    BY DEF CommandBound
  <2>2. sup.commands[i].remaining \in Nat /\ sup.at \in Nat  BY <1>1 DEF FieldTypes
  <2>3. sup.at + sup.commands[i].remaining <= coord.deadline  BY <2>1 DEF Inv, CommandBound
  <2> QED  BY <1>2, <1>n, <2>2, <2>3
<1>6. PollBound' /\ GrantBound' /\ NodeExpiresFirst'
  BY SMTT(30), <1>1, <1>2 DEF Inv, PollBound, GrantBound, NodeExpiresFirst, Live, FieldTypes
<1>7. DrainOrigin'  BY <1>3 DEF Inv, DrainOrigin
<1>8. PhaseOrigin'  BY <1>3 DEF Inv, PhaseOrigin, Live
<1>9. ToldOrigin'  BY DEF Inv, ToldOrigin
<1> QED  BY <1>4, <1>5, <1>6, <1>7, <1>8, <1>9 DEF Inv

\* Time passes.
LEMMA TickKeeps == ASSUME Inv, Tick PROVE Inv'
<1>1. FieldTypes  BY Fields DEF Inv
<1>2. TypeOK'  BY DEF Tick, TypeOK, Inv
<1>3. now' = now + 1 /\ UNCHANGED <<coord, asked, slot, pipe, sup, life>>  BY DEF Tick
<1>n. now \in Nat /\ coord.deadline \in Nat  BY <1>1 DEF FieldTypes
<1>4. RowBound'  BY <1>3, <1>n DEF Inv, RowBound
<1>5. RpcBound'
  <2>1. \A r \in asked : r.sent <= now'
    <3>1. SUFFICES ASSUME NEW r \in asked PROVE r.sent <= now'  OBVIOUS
    <3>2. r.sent <= now  BY DEF Inv, RpcBound
    <3>3. r.sent \in Nat  BY <1>1 DEF FieldTypes
    <3> QED  BY <1>3, <1>n, <3>2, <3>3
  <2>2. slot.rpc.sent <= now' /\ slot.last <= now'  BY SMTT(30), <1>1, <1>3 DEF Inv, RpcBound, FieldTypes
  <2> QED  BY <1>3, <2>1, <2>2 DEF Inv, RpcBound
<1>6. slot'.rpc.lease.drain => Asked'  BY <1>3 DEF Inv, DrainOrigin, Asked
<1>7. now <= now' /\ coord.deadline <= coord'.deadline /\ (coord.drain => coord'.drain)
  BY <1>1, <1>3 DEF FieldTypes
<1> QED  BY <1>2, <1>3, <1>4, <1>5, <1>6, <1>7, Later

\* The coordinator alone.
LEMMA CoordinatorKeeps == ASSUME Inv, Expire \/ RequestDrain \/ Restart PROVE Inv'
<1>1. FieldTypes  BY Fields DEF Inv
<1>2. coord \in CoordType  BY DEF Inv, TypeOK
<1>3. /\ coord' \in CoordType
      /\ coord'.deadline = coord.deadline /\ (coord.drain => coord'.drain)
      /\ coord'.fenced => coord'.uncertain /\ coord.deadline <= now
  <2>f. coord.fenced => coord.uncertain /\ coord.deadline <= now  BY DEF Inv, RowBound
  <2>1. CASE Expire
    <3>1. /\ coord' = [coord EXCEPT !.uncertain = TRUE, !.fenced = TRUE]
          /\ coord.deadline <= now
      BY <2>1 DEF Expire, Due
    <3>2. coord' \in CoordType /\ coord'.deadline = coord.deadline
      BY <1>2, <3>1 DEF CoordType
    <3>3. coord'.uncertain = TRUE /\ coord'.drain = coord.drain  BY <1>2, <3>1, Zenon DEF CoordType
    <3> QED  BY <3>1, <3>2, <3>3
  <2>2. CASE RequestDrain
    <3>1. coord' = [coord EXCEPT !.drain = TRUE]  BY <2>2 DEF RequestDrain
    <3>2. coord' \in CoordType /\ coord'.deadline = coord.deadline
      BY <1>2, <3>1 DEF CoordType
    <3>3. coord'.drain = TRUE /\ coord'.uncertain = coord.uncertain /\ coord'.fenced = coord.fenced
      BY <1>2, <3>1, Zenon DEF CoordType
    <3> QED  BY <2>f, <3>2, <3>3
  <2>3. CASE Restart
    <3> DEFINE e == coord.epoch + 1
    <3>1. coord' = [coord EXCEPT !.epoch = e, !.uncertain = TRUE]  BY <2>3 DEF Restart
    <3>2. e \in Nat  BY <1>2 DEF CoordType
    <3> HIDE DEF e
    <3>3. coord' \in CoordType /\ coord'.deadline = coord.deadline
      BY <1>2, <3>1, <3>2 DEF CoordType
    <3>4. coord'.uncertain = TRUE /\ coord'.drain = coord.drain /\ coord'.fenced = coord.fenced
      BY <1>2, <3>1, Zenon DEF CoordType
    <3> QED  BY <2>f, <3>3, <3>4
  <2> QED  BY <2>1, <2>2, <2>3
<1>4. UNCHANGED <<now, asked, slot, pipe, sup, life>>  BY DEF Expire, RequestDrain, Restart
<1>5. TypeOK'  BY <1>3, <1>4 DEF Inv, TypeOK
<1>6. RowBound'  BY <1>1, <1>3, <1>4 DEF Inv, RowBound, FieldTypes
<1>7. RpcBound'  BY <1>3, <1>4 DEF Inv, RpcBound
<1>8. slot'.rpc.lease.drain => Asked'  BY <1>3, <1>4 DEF Inv, DrainOrigin, Asked
<1>9. now <= now' /\ coord.deadline <= coord'.deadline  BY <1>1, <1>3, <1>4 DEF FieldTypes
<1> QED  BY <1>3, <1>4, <1>5, <1>6, <1>7, <1>8, <1>9, Later

\* No RPC is a value of its type, and promises nothing.
LEMMA NoRpcType ==
    /\ NoRpc \in RpcType /\ NoRpc.sent = 0 /\ NoRpc.lease.valid = 0
    /\ NoRpc.lease.drain = FALSE
  BY DEF NoRpc, NoLease, LeaseType, RpcType

\* A request is handled: the row's deadline grows, and the answer, counted from
\* the moment the request was sent, ends no later than the row.
LEMMA HandleKeeps == ASSUME Inv, NEW r \in asked, Handle(r) PROVE Inv'
<1> DEFINE extend == Grantable(r) /\ ~Retry(r) /\ ~coord.drain
           seq == IF extend THEN coord.seq + 1 ELSE coord.seq
           deadline == IF extend THEN now + LeaseMs ELSE coord.deadline
           lease == [epoch |-> coord.epoch, seq |-> seq, valid |-> ValidFor(deadline),
                     drain |-> coord.drain]
           awaited == slot.rpc.state = "waiting" /\ slot.rpc.sent = r.sent /\ slot.rpc.prev = r.prev
<1>1. FieldTypes  BY Fields DEF Inv
<1>2. /\ asked' = asked \ {r}
      /\ coord' = IF extend THEN [coord EXCEPT !.seq = seq, !.deadline = deadline]
                            ELSE coord
      /\ slot' = IF ~awaited THEN slot
                 ELSE [slot EXCEPT !.rpc = IF Grantable(r)
                                             THEN [@ EXCEPT !.state = "answered", !.lease = lease]
                                             ELSE NoRpc]
      /\ UNCHANGED <<now, pipe, sup, life>>
  BY DEF Handle
<1>t. now \in Nat /\ coord.deadline \in Nat /\ coord.seq \in Nat /\ coord.deadline <= now + LeaseMs
  BY <1>1 DEF FieldTypes, Inv, RowBound
<1>3. /\ seq \in Nat /\ deadline \in Nat /\ coord.deadline <= deadline
      /\ deadline <= now + LeaseMs
  BY <1>t
<1>4. /\ ValidFor(deadline) \in Nat
      /\ ValidFor(deadline) > 0 => now + ValidFor(deadline) <= deadline
  <2>1. SatSub(deadline, now) \in Nat /\ (SatSub(deadline, now) > 0 => SatSub(deadline, now) = deadline - now)
    BY <1>1, <1>3, SatSubNat DEF FieldTypes
  <2>2. ValidFor(deadline) \in Nat /\ ValidFor(deadline) <= SatSub(deadline, now)
    BY <2>1, LeastNat DEF ValidFor
  <2> HIDE DEF deadline
  <2> QED  BY <1>1, <1>3, <2>1, <2>2 DEF FieldTypes
<1> HIDE DEF seq, deadline
<1>5. lease \in LeaseType /\ lease.valid = ValidFor(deadline) /\ lease.drain = coord.drain
  BY <1>1, <1>3, <1>4 DEF LeaseType, FieldTypes
<1>6. extend => ~coord.uncertain  BY DEF Grantable
<1> HIDE DEF lease, extend, awaited
<1>7. /\ coord' \in CoordType
      /\ coord'.deadline = IF extend THEN deadline ELSE coord.deadline
      /\ coord'.drain = coord.drain
      /\ coord'.uncertain = coord.uncertain /\ coord'.fenced = coord.fenced
  <2>1. coord \in CoordType  BY DEF Inv, TypeOK
  <2>2. /\ coord' \in CoordType
        /\ coord'.deadline = IF extend THEN deadline ELSE coord.deadline
    BY <1>2, <1>3, <2>1 DEF CoordType
  <2>3. /\ coord'.drain = coord.drain
        /\ coord'.uncertain = coord.uncertain /\ coord'.fenced = coord.fenced
    BY <1>2, <2>1, Zenon DEF CoordType
  <2> QED  BY <2>2, <2>3
<1>8. coord'.deadline = deadline
  BY <1>7 DEF deadline
<1>9. /\ slot' \in SlotType
      /\ slot'.last = slot.last /\ slot'.told = slot.told
      /\ \/ slot'.rpc = slot.rpc
         \/ slot'.rpc = NoRpc
         \/ slot'.rpc.sent = slot.rpc.sent /\ slot'.rpc.lease = lease
  <2>1. CASE ~awaited  BY <1>2, <2>1 DEF Inv, TypeOK
  <2>2. CASE awaited /\ Grantable(r)
    <3>1. slot' = [slot EXCEPT !.rpc = [slot.rpc EXCEPT !.state = "answered", !.lease = lease]]
      BY <1>2, <2>2
    <3> QED  BY <1>5, <3>1 DEF Inv, TypeOK, SlotType, RpcType
  <2>3. CASE awaited /\ ~Grantable(r)
    <3>1. slot' = [slot EXCEPT !.rpc = NoRpc]  BY <1>2, <2>3
    <3> QED  BY <3>1, NoRpcType DEF Inv, TypeOK, SlotType
  <2> QED  BY <2>1, <2>2, <2>3
<1>10. TypeOK'  BY <1>2, <1>7, <1>9 DEF Inv, TypeOK
<1>11. RowBound'
  <2>1. coord'.deadline <= now' + LeaseMs  BY <1>2, <1>3, <1>8
  <2>2. coord'.fenced => coord'.uncertain /\ coord'.deadline <= now'
    BY <1>2, <1>6, <1>7 DEF Inv, RowBound
  <2> QED  BY <2>1, <2>2 DEF RowBound
<1>n. /\ now \in Nat /\ coord.deadline \in Nat /\ slot.rpc.sent \in Nat /\ slot.rpc.lease.valid \in Nat
      /\ slot.rpc.sent <= now
      /\ slot.rpc.lease.valid > 0 => slot.rpc.sent + slot.rpc.lease.valid <= coord.deadline
  BY <1>1 DEF FieldTypes, Inv, RpcBound
<1>12. RpcBound'
  <2>1. (\A q \in asked' : q.sent <= now') /\ slot'.last <= now'  BY <1>2, <1>9 DEF Inv, RpcBound
  <2>2. /\ slot'.rpc.sent <= now
        /\ slot'.rpc.lease.valid > 0 => slot'.rpc.sent + slot'.rpc.lease.valid <= deadline
    <3>1. CASE slot'.rpc = slot.rpc  BY <1>3, <1>n, <3>1
    <3>2. CASE slot'.rpc = NoRpc  BY <1>n, <3>2, NoRpcType
    <3>3. CASE slot'.rpc.sent = slot.rpc.sent /\ slot'.rpc.lease = lease
      <4>1. lease.valid > 0 => slot.rpc.sent + lease.valid <= deadline
        BY <1>3, <1>4, <1>5, <1>n
      <4> QED  BY <1>n, <3>3, <4>1
    <3> QED  BY <1>9, <3>1, <3>2, <3>3
  <2> QED  BY <1>2, <1>8, <2>1, <2>2 DEF RpcBound
<1>13. slot'.rpc.lease.drain => Asked'
  <2>1. Asked => Asked'  BY <1>2, <1>7, <1>9 DEF Asked
  <2>2. CASE slot'.rpc = slot.rpc  BY <2>1, <2>2 DEF Inv, DrainOrigin
  <2>3. CASE slot'.rpc = NoRpc  BY <2>3, NoRpcType
  <2>4. CASE slot'.rpc.lease = lease  BY <1>5, <1>7, <2>4 DEF Asked
  <2> QED  BY <1>9, <2>2, <2>3, <2>4
<1>14. now <= now' /\ coord.deadline <= coord'.deadline /\ (coord.drain => coord'.drain)
  BY <1>2, <1>3, <1>7, <1>8, <1>n
<1> QED  BY <1>2, <1>9, <1>10, <1>11, <1>12, <1>13, <1>14, Later

\* The agent asks, or stops waiting: nothing new is promised.
LEMMA AgentKeeps == ASSUME Inv, AskPrepared \/ AskRenewal \/ GiveUp \/ AgentDies PROVE Inv'
<1>1. FieldTypes  BY Fields DEF Inv
<1>2. slot \in SlotType /\ asked \subseteq [prev : Nat, epoch : Nat, sent : Nat]  BY DEF Inv, TypeOK
<1>3. now \in Nat /\ slot.last \in Nat /\ slot.last <= now /\ slot.seq \in Nat /\ slot.epoch \in Nat
  BY <1>1, <1>2 DEF FieldTypes, Inv, RpcBound, SlotType
<1>4. UNCHANGED <<now, coord, pipe, sup, life>>
  BY DEF AskPrepared, AskRenewal, Asks, GiveUp, AgentDies
<1>5. ASSUME NEW last \in Nat, last <= now, Asks(last)
      PROVE  /\ slot' \in SlotType /\ slot'.last <= now /\ slot'.told = slot.told
             /\ slot'.rpc.sent <= now /\ slot'.rpc.lease.valid = 0 /\ slot'.rpc.lease.drain = FALSE
             /\ asked' \subseteq [prev : Nat, epoch : Nat, sent : Nat]
             /\ \A r \in asked' : r.sent <= now
  <2> DEFINE rpc == [NoRpc EXCEPT !.state = "waiting", !.sent = now, !.prev = slot.seq]
             q == [prev |-> slot.seq, epoch |-> slot.epoch, sent |-> now]
  <2>1. slot' = [slot EXCEPT !.last = last, !.rpc = rpc] /\ asked' = asked \cup {q}
    BY <1>5 DEF Asks
  <2>2. /\ rpc \in RpcType /\ rpc.sent = now /\ rpc.lease.valid = 0 /\ rpc.lease.drain = FALSE
    BY <1>3, NoRpcType DEF RpcType
  <2>3. q \in [prev : Nat, epoch : Nat, sent : Nat] /\ q.sent <= now  BY <1>3
  <2> HIDE DEF rpc, q
  <2>4. slot' \in SlotType /\ slot'.last = last /\ slot'.rpc = rpc /\ slot'.told = slot.told
    BY <1>2, <1>5, <2>1, <2>2 DEF SlotType
  <2>5. \A r \in asked' : r.sent <= now  BY <2>1, <2>3 DEF Inv, RpcBound
  <2>6. rpc.sent <= now  BY <1>3, <2>2
  <2> QED  BY <1>2, <1>5, <2>1, <2>2, <2>3, <2>4, <2>5, <2>6
<1>6. /\ slot' \in SlotType /\ slot'.last <= now /\ slot'.told = slot.told
      /\ slot'.rpc.sent <= now /\ slot'.rpc.lease.valid = 0 /\ slot'.rpc.lease.drain = FALSE
      /\ asked' \subseteq [prev : Nat, epoch : Nat, sent : Nat]
      /\ \A r \in asked' : r.sent <= now
  <2>1. CASE AskPrepared
    <3>1. Asks(slot.last)  BY <2>1 DEF AskPrepared
    <3> QED  BY <1>3, <1>5, <3>1
  <2>2. CASE AskRenewal
    <3> DEFINE n == now - slot.last
               last == now - (n % Interval)
    <3>1. n \in Nat /\ Interval \in Nat \ {0}  BY <1>3
    <3>2. n % Interval \in 0..n  BY <3>1
    <3>3. last \in Nat /\ last <= now  BY <1>3, <3>1, <3>2
    <3>4. Asks(last)  BY <2>2 DEF AskRenewal
    <3> HIDE DEF last
    <3> QED  BY <1>5, <3>3, <3>4
  <2>3. CASE GiveUp \/ AgentDies
    <3>1. \/ slot' = [slot EXCEPT !.rpc = NoRpc]
          \/ slot' = [slot EXCEPT !.alive = FALSE, !.rpc = NoRpc]
      BY <2>3 DEF GiveUp, AgentDies
    <3>2. asked' = asked  BY <2>3 DEF GiveUp, AgentDies
    <3>3. slot' \in SlotType /\ slot'.last = slot.last /\ slot'.rpc = NoRpc /\ slot'.told = slot.told
      BY <1>2, <3>1, NoRpcType DEF SlotType
    <3> QED  BY <1>2, <1>3, <3>2, <3>3, NoRpcType DEF Inv, RpcBound
  <2> QED  BY <2>1, <2>2, <2>3
<1>7. TypeOK'  BY <1>4, <1>6 DEF Inv, TypeOK
<1>8. RowBound'  BY <1>4 DEF Inv, RowBound
<1>9. RpcBound'  BY <1>4, <1>6 DEF RpcBound
<1>10. now <= now' /\ coord.deadline <= coord'.deadline /\ (coord.drain => coord'.drain)
  BY <1>1, <1>4 DEF FieldTypes
<1> QED  BY <1>4, <1>6, <1>7, <1>8, <1>9, <1>10, Later

\* A control is sent: the agent's receipt of a grant, a heartbeat or a drain of
\* its own adds at most one message, which ends no later than the row.
LEMMA Sent ==
    ASSUME Inv, UNCHANGED <<now, asked, life>>,
           coord' \in CoordType, coord'.deadline = coord.deadline, coord.drain => coord'.drain, RowBound',
           slot' \in SlotType, slot'.last <= now, slot'.rpc = slot.rpc \/ slot'.rpc = NoRpc,
           slot.told => slot'.told, ToldOrigin',
           sup' = sup \/ sup' = [sup EXCEPT !.local = TRUE],
           NEW m \in MessageType, m.expires <= coord.deadline,
           m.drain \/ m.kind = "drain" => Asked',
           pipe' = pipe \/ pipe' = Append(pipe, m)
    PROVE  Inv'
<1>1. FieldTypes  BY Fields DEF Inv
<1>2. sup \in SupType  BY DEF Inv, TypeOK
<1>3. /\ sup' \in SupType /\ sup'.at = sup.at /\ sup'.step = sup.step /\ sup'.commands = sup.commands
      /\ sup'.lost = sup.lost /\ (sup.local => sup'.local)
  <2>1. CASE sup' = sup  BY <1>2, <2>1
  <2>2. CASE sup' = [sup EXCEPT !.local = TRUE]
    <3>1. /\ sup' \in SupType /\ sup'.at = sup.at /\ sup'.step = sup.step
          /\ sup'.commands = sup.commands /\ sup'.lost = sup.lost
      BY <1>2, <2>2 DEF SupType
    <3>2. sup'.local = TRUE  BY <1>2, <2>2, Zenon DEF SupType
    <3> QED  BY <3>1, <3>2
  <2> QED  BY <2>1, <2>2
<1>4. Asked => Asked'  BY <1>3 DEF Asked
<1>5. /\ pipe' \in Seq(MessageType)
      /\ \A i \in 1..Len(pipe') : pipe'[i].expires <= coord.deadline
      /\ \A i \in 1..Len(pipe') : pipe'[i].drain \/ pipe'[i].kind = "drain" => Asked'
  <2>1. /\ pipe \in Seq(MessageType)
        /\ \A i \in 1..Len(pipe) : pipe[i].expires <= coord.deadline
        /\ \A i \in 1..Len(pipe) : pipe[i].drain \/ pipe[i].kind = "drain" => Asked'
    BY <1>1, <1>4 DEF FieldTypes, Inv, PipeBound, DrainOrigin
  <2>2. CASE pipe' = pipe  BY <2>1, <2>2
  <2>3. CASE pipe' = Append(pipe, m)
    <3>1. pipe' \in Seq(MessageType) /\ Len(pipe') = Len(pipe) + 1 /\ Len(pipe) \in Nat
      BY <2>1, <2>3, AppendProperties, LenProperties
    <3>2. \A i \in 1..Len(pipe') : pipe'[i] = m \/ (i \in 1..Len(pipe) /\ pipe'[i] = pipe[i])
      BY <2>1, <2>3, <3>1, AppendProperties
    <3> QED  BY <2>1, <3>1, <3>2
  <2> QED  BY <2>2, <2>3
<1>6. TypeOK'  BY <1>3, <1>5 DEF Inv, TypeOK
<1>8. RpcBound'
  <2>1. CASE slot'.rpc = slot.rpc  BY <2>1 DEF Inv, RpcBound
  <2>2. CASE slot'.rpc = NoRpc
    <3>1. now \in Nat  BY <1>1 DEF FieldTypes
    <3>2. slot'.rpc.sent <= now' /\ ~(slot'.rpc.lease.valid > 0)  BY <2>2, <3>1, NoRpcType
    <3> QED  BY <3>2 DEF Inv, RpcBound
  <2> QED  BY <2>1, <2>2
<1>9. PipeBound' /\ CommandBound'  BY <1>3, <1>5 DEF Inv, PipeBound, CommandBound
<1>10. PollBound' /\ GrantBound' /\ NodeExpiresFirst'
  BY <1>3 DEF Inv, PollBound, GrantBound, NodeExpiresFirst, Live
<1>11. DrainOrigin'
  <2>1. slot'.rpc.lease.drain => Asked'
    <3>1. CASE slot'.rpc = slot.rpc  BY <1>4, <3>1 DEF Inv, DrainOrigin
    <3>2. CASE slot'.rpc = NoRpc  BY <3>2, NoRpcType
    <3> QED  BY <3>1, <3>2
  <2>2. \A i \in 1..Len(sup'.commands) : /\ sup'.commands[i].kind = "drain" => Asked'
                                         /\ sup'.commands[i].kind = "lost" => sup'.lost
    BY <1>3, <1>4 DEF Inv, DrainOrigin
  <2> QED  BY <1>5, <2>1, <2>2 DEF DrainOrigin
<1>12. PhaseOrigin'  BY <1>3, <1>4 DEF Inv, PhaseOrigin, Live
<1> QED  BY <1>6, <1>8, <1>9, <1>10, <1>11, <1>12 DEF Inv

\* A drain message is a control that promises nothing.
LEMMA DrainMessageType ==
    DrainMessage \in MessageType /\ DrainMessage.expires = 0
  BY DEF DrainMessage, MessageType

\* The agent's receipt of an answer.
LEMMA ReceiveKeeps == ASSUME Inv, Receive PROVE Inv'
<1> DEFINE rpc == slot.rpc
           kind == IF rpc.prev = 0 THEN "authorize" ELSE "renewal"
           m == [kind |-> kind, epoch |-> rpc.lease.epoch, seq |-> rpc.lease.seq,
                 valid |-> rpc.lease.valid, drain |-> rpc.lease.drain, expires |-> now + Remaining(rpc)]
<1>1. FieldTypes  BY Fields DEF Inv
<1>2. slot \in SlotType  BY DEF Inv, TypeOK
<1>3. /\ now \in Nat /\ rpc.sent \in Nat /\ rpc.sent <= now /\ rpc.lease.valid \in Nat
      /\ coord.deadline \in Nat /\ slot.last <= now
      /\ rpc.lease.valid > 0 => rpc.sent + rpc.lease.valid <= coord.deadline
  BY <1>1 DEF FieldTypes, Inv, RpcBound
<1>4. /\ Remaining(rpc) \in Nat
      /\ Remaining(rpc) > 0 => now + Remaining(rpc) <= coord.deadline
  <2>1. now - rpc.sent \in Nat  BY <1>3
  <2>2. /\ Remaining(rpc) \in Nat /\ Remaining(rpc) <= rpc.lease.valid
        /\ Remaining(rpc) > 0 => Remaining(rpc) = rpc.lease.valid - (now - rpc.sent)
    BY <1>3, <2>1, SatSubNat DEF Remaining
  <2> HIDE DEF rpc
  <2> QED  BY <1>3, <2>2
<1>5. UNCHANGED <<now, coord, asked, life, sup>>  BY DEF Receive
<1>c. coord' \in CoordType /\ RowBound'  BY <1>5 DEF Inv, TypeOK, RowBound
<1>6. CASE Remaining(rpc) = 0
  <2>1. pipe' = pipe /\ slot' = [slot EXCEPT !.rpc = NoRpc]  BY <1>6 DEF Receive
  <2>2. slot' \in SlotType /\ slot'.last = slot.last /\ slot'.rpc = NoRpc /\ slot'.told = slot.told
    BY <1>2, <2>1, NoRpcType DEF SlotType
  <2>3. DrainMessage \in MessageType /\ DrainMessage.expires <= coord.deadline
    BY <1>3, DrainMessageType
  <2>4. ToldOrigin'  BY <1>5, <2>2 DEF Inv, ToldOrigin
  <2> DEFINE e == [DrainMessage EXCEPT !.kind = "renewal", !.drain = FALSE]
  <2>5. /\ e \in MessageType /\ e.expires <= coord.deadline
        /\ e.drain = FALSE /\ e.kind = "renewal"
    BY <2>3 DEF MessageType
  <2> HIDE DEF e
  <2> QED  BY <1>3, <1>5, <1>c, <2>1, <2>2, <2>4, <2>5, Sent
<1>7. CASE Remaining(rpc) # 0
  <2>1. /\ pipe' = Append(pipe, m)
        /\ slot' = [slot EXCEPT !.rpc = NoRpc, !.seq = rpc.lease.seq,
                                !.last = IF rpc.prev = 0 THEN now ELSE slot.last]
    BY <1>7 DEF Receive
  <2>2. /\ rpc.lease.seq \in Nat /\ rpc.lease.epoch \in Nat /\ rpc.lease.drain \in BOOLEAN
        /\ slot.last \in Nat
    BY <1>1 DEF FieldTypes
  <2> DEFINE last == IF rpc.prev = 0 THEN now ELSE slot.last
  <2>l. last \in Nat /\ last <= now  BY <1>3, <2>2
  <2>s. slot' = [slot EXCEPT !.rpc = NoRpc, !.seq = rpc.lease.seq, !.last = last]  BY <2>1
  <2> HIDE DEF last, rpc
  <2>3. slot' \in SlotType /\ slot'.last <= now /\ slot'.rpc = NoRpc /\ slot'.told = slot.told
    BY <1>2, <2>2, <2>l, <2>s, NoRpcType DEF SlotType
  <2> USE DEF rpc
  <2>4. /\ m \in MessageType /\ m.expires <= coord.deadline /\ m.kind # "drain"
        /\ m.drain = rpc.lease.drain
    BY <1>3, <1>4, <1>7, <2>2 DEF MessageType
  <2>5. rpc.lease.drain => Asked'  BY <1>5, <2>3 DEF Inv, DrainOrigin, Asked
  <2>6. ToldOrigin'  BY <1>5, <2>3 DEF Inv, ToldOrigin
  <2> HIDE DEF m, rpc
  <2> QED  BY <1>5, <1>c, <2>1, <2>3, <2>4, <2>5, <2>6, Sent
<1> QED  BY <1>6, <1>7

\* A report that reaches the coordinator, and the reply to it.
LEMMA HeartbeatKeeps == ASSUME Inv, Heartbeat PROVE Inv'
<1>1. FieldTypes  BY Fields DEF Inv
<1>2. slot \in SlotType /\ coord \in CoordType /\ coord.epoch \in Nat /\ sup.draining \in BOOLEAN
  BY <1>1 DEF Inv, TypeOK, FieldTypes, SupType
<1>3. UNCHANGED <<now, asked, life, sup>>  BY DEF Heartbeat
<1>4. /\ coord' \in CoordType /\ coord'.deadline = coord.deadline
      /\ coord.drain => coord'.drain
      /\ coord'.fenced => coord.fenced /\ coord' = coord
  <2>1. CASE coord.fenced
    <3>1. coord' = coord  BY <2>1 DEF Heartbeat
    <3> QED  BY <1>2, <2>1, <3>1
  <2>2. CASE ~coord.fenced
    <3> DEFINE d == coord.drain \/ sup.draining
    <3>1. coord' = [coord EXCEPT !.uncertain = FALSE, !.drain = d]  BY <2>2 DEF Heartbeat
    <3>2. d \in BOOLEAN /\ (coord.drain => d)  BY <1>2
    <3> HIDE DEF d
    <3>3. coord' \in CoordType /\ coord'.deadline = coord.deadline  BY <1>2, <3>1, <3>2 DEF CoordType
    <3>4. coord'.drain = d /\ coord'.fenced = coord.fenced  BY <1>2, <3>1, Zenon DEF CoordType
    <3> QED  BY <2>2, <3>2, <3>3, <3>4
  <2> QED  BY <2>1, <2>2
<1>5. RowBound'  BY <1>3, <1>4 DEF Inv, RowBound
<1>6. DrainMessage \in MessageType /\ DrainMessage.expires <= coord.deadline
  BY <1>1, DrainMessageType DEF FieldTypes
<1>7. PICK stale \in BOOLEAN :
         IF coord'.drain \/ (Opportunistic /\ (coord'.uncertain \/ stale))
           THEN /\ Room
                /\ pipe' = Append(pipe, DrainMessage)
                /\ slot' = [slot EXCEPT !.epoch = coord.epoch, !.told = TRUE]
           ELSE pipe' = pipe /\ slot' = [slot EXCEPT !.epoch = coord.epoch]
  BY DEF Heartbeat
<1>8. CASE coord'.drain \/ (Opportunistic /\ (coord'.uncertain \/ stale))
  <2>1. /\ pipe' = Append(pipe, DrainMessage)
        /\ slot' = [slot EXCEPT !.epoch = coord.epoch, !.told = TRUE]
    BY <1>7, <1>8
  <2>2. slot' \in SlotType /\ slot'.last = slot.last /\ slot'.rpc = slot.rpc
    BY <1>2, <2>1 DEF SlotType
  <2>3. slot'.told = TRUE  BY <1>2, <2>1, Zenon DEF SlotType
  <2>4. Asked' /\ ToldOrigin'  BY <1>8, <2>3 DEF Asked, ToldOrigin
  <2>5. slot'.last <= now  BY <2>2 DEF Inv, RpcBound
  <2> QED  BY <1>3, <1>4, <1>5, <1>6, <2>1, <2>2, <2>3, <2>4, <2>5, Sent
<1>9. CASE ~(coord'.drain \/ (Opportunistic /\ (coord'.uncertain \/ stale)))
  <2>1. pipe' = pipe /\ slot' = [slot EXCEPT !.epoch = coord.epoch]  BY <1>7, <1>9
  <2>2. slot' \in SlotType /\ slot'.last = slot.last /\ slot'.rpc = slot.rpc /\ slot'.told = slot.told
    BY <1>2, <2>1 DEF SlotType
  <2>3. ToldOrigin'  BY <1>4, <2>2 DEF Inv, ToldOrigin
  <2>4. slot'.last <= now  BY <2>2 DEF Inv, RpcBound
  <2> DEFINE e == [DrainMessage EXCEPT !.kind = "renewal", !.drain = FALSE]
  <2>5. /\ e \in MessageType /\ e.expires <= coord.deadline
        /\ e.drain = FALSE /\ e.kind = "renewal"
    BY <1>6 DEF MessageType
  <2> HIDE DEF e
  <2> QED  BY <1>3, <1>4, <1>5, <2>1, <2>2, <2>3, <2>4, <2>5, Sent
<1> QED  BY <1>8, <1>9

\* The node drains the slot itself.
LEMMA AgentDrainKeeps == ASSUME Inv, AgentDrain PROVE Inv'
<1>1. FieldTypes  BY Fields DEF Inv
<1>2. slot \in SlotType /\ sup \in SupType  BY DEF Inv, TypeOK
<1>3. /\ UNCHANGED <<now, coord, asked, life, slot>> /\ pipe' = Append(pipe, DrainMessage)
      /\ sup' = [sup EXCEPT !.local = TRUE]
  BY DEF AgentDrain
<1>4. DrainMessage \in MessageType /\ DrainMessage.expires <= coord.deadline
  BY <1>1, DrainMessageType DEF FieldTypes
<1>5. sup'.local = TRUE  BY <1>2, <1>3, Zenon DEF SupType
<1>6. slot' \in SlotType /\ slot'.last <= now /\ slot'.rpc = slot.rpc
  BY <1>2, <1>3 DEF Inv, RpcBound
<1>7. Asked' /\ ToldOrigin'  BY <1>3, <1>5 DEF Asked, Inv, ToldOrigin
<1>8. coord' \in CoordType /\ RowBound'  BY <1>3 DEF Inv, TypeOK, RowBound
<1> QED  BY <1>3, <1>4, <1>6, <1>7, <1>8, Sent

-----------------------------------------------------------------------------
(* The supervisor's steps. *)

\* The supervisor moves: its own state and the reducer may change, the controls
\* in the pipe may only become fewer.
LEMMA SupervisorMoves ==
    ASSUME Inv, UNCHANGED <<now, coord, asked, slot>>,
           sup' \in SupType, life' \in LifeType, pipe' = pipe \/ (pipe # <<>> /\ pipe' = Tail(pipe)),
           Asked => Asked', CommandBound', PollBound', GrantBound', NodeExpiresFirst', PhaseOrigin',
           \A i \in 1..Len(sup'.commands) : /\ sup'.commands[i].kind = "drain" => Asked'
                                            /\ sup'.commands[i].kind = "lost" => sup'.lost
    PROVE  Inv'
<1>1. FieldTypes  BY Fields DEF Inv
<1>2. /\ pipe \in Seq(MessageType)
      /\ \A i \in 1..Len(pipe) : pipe[i].expires <= coord.deadline
      /\ \A i \in 1..Len(pipe) : pipe[i].drain \/ pipe[i].kind = "drain" => Asked'
  BY <1>1 DEF FieldTypes, Inv, PipeBound, DrainOrigin
<1>3. /\ pipe' \in Seq(MessageType)
      /\ \A i \in 1..Len(pipe') : pipe'[i].expires <= coord.deadline
      /\ \A i \in 1..Len(pipe') : pipe'[i].drain \/ pipe'[i].kind = "drain" => Asked'
  <2>1. CASE pipe' = pipe  BY <1>2, <2>1
  <2>2. CASE pipe # <<>> /\ pipe' = Tail(pipe)
    <3>1. /\ pipe' \in Seq(MessageType) /\ Len(pipe') = Len(pipe) - 1 /\ Len(pipe) \in Nat
          /\ \A i \in 1..Len(pipe') : pipe'[i] = pipe[i + 1]
      BY <1>2, <2>2, HeadTailProperties, LenProperties
    <3>2. \A i \in 1..Len(pipe') : i + 1 \in 1..Len(pipe)  BY <3>1
    <3> QED  BY <1>2, <3>1, <3>2
  <2> QED  BY <2>1, <2>2
<1>4. TypeOK'  BY <1>3 DEF Inv, TypeOK
<1>5. RowBound' /\ RpcBound' /\ PipeBound' /\ ToldOrigin'
  BY <1>3 DEF Inv, RowBound, RpcBound, PipeBound, ToldOrigin
<1>6. DrainOrigin'
  <2>1. slot'.rpc.lease.drain => Asked'  BY DEF Inv, DrainOrigin
  <2> QED  BY <1>3, <2>1 DEF DrainOrigin
<1> QED  BY <1>4, <1>5, <1>6 DEF Inv

\* The steps before the loop.
LEMMA GateKeeps == ASSUME Inv, Authorize \/ OpenGate \/ GateStaysBlocked PROVE Inv'
<1>1. FieldTypes  BY Fields DEF Inv
<1>2. sup \in SupType /\ life \in LifeType  BY DEF Inv, TypeOK
<1>3. UNCHANGED <<now, coord, asked, slot>>  BY DEF Authorize, OpenGate, GateStaysBlocked
<1>n. /\ now \in Nat /\ coord.deadline \in Nat /\ life.deadline \in Nat /\ sup.at \in Nat /\ sup.at <= now
  BY <1>1 DEF FieldTypes, Inv, PollBound
<1>4. sup.step \in {"gated", "authorized"}  BY DEF Authorize, OpenGate, GateStaysBlocked
<1>5. sup.commands = <<>> /\ life.phase = "running"
  BY <1>4 DEF Inv, PollBound, PhaseOrigin, Live
<1>6. ASSUME NEW s \in {"authorized", "refused", "loop"}, sup' = [sup EXCEPT !.step = s]
      PROVE  /\ sup' \in SupType /\ sup'.step = s /\ sup'.at = sup.at /\ sup'.commands = <<>>
             /\ sup'.local = sup.local /\ sup'.lost = sup.lost
  BY <1>2, <1>5, <1>6 DEF SupType
<1>7. \E s \in {"authorized", "refused", "loop"} : sup' = [sup EXCEPT !.step = s]
  BY DEF Authorize, OpenGate, GateStaysBlocked
<1>8. PICK s \in {"authorized", "refused", "loop"} : sup' = [sup EXCEPT !.step = s]  BY <1>7
<1>9. /\ sup' \in SupType /\ sup'.step = s /\ sup'.at = sup.at /\ sup'.commands = <<>>
      /\ sup'.local = sup.local /\ sup'.lost = sup.lost
  BY <1>6, <1>8
<1>10. /\ life' \in LifeType /\ life'.phase = "running"
       /\ s = "authorized" => life'.deadline <= coord.deadline
       /\ s = "loop" => life'.deadline <= coord.deadline \/ life'.deadline <= now
       /\ pipe' = pipe \/ (pipe # <<>> /\ pipe' = Tail(pipe))
  <2>1. CASE Authorize
    <3>1. pipe # <<>> /\ pipe' = Tail(pipe)  BY <2>1 DEF Authorize
    <3>2. /\ Head(pipe) = pipe[1] /\ 1 \in 1..Len(pipe)
      BY <1>1, <3>1, HeadTailProperties, LenProperties, EmptySeq DEF FieldTypes
    <3>3. Head(pipe).expires \in Nat /\ Head(pipe).expires <= coord.deadline
      BY <1>1, <3>2 DEF FieldTypes, Inv, PipeBound
    <3>4. CASE sup' = [sup EXCEPT !.step = "authorized"] /\ life' = [life EXCEPT !.deadline = Head(pipe).expires]
      <4>1. life' \in LifeType /\ life'.phase = "running" /\ life'.deadline = Head(pipe).expires
        BY <1>2, <1>5, <3>3, <3>4 DEF LifeType
      <4>2. s = "authorized"  BY <1>9, <3>4, <1>2 DEF SupType
      <4> QED  BY <3>1, <3>3, <4>1, <4>2
    <3>5. CASE sup' = [sup EXCEPT !.step = "refused"] /\ life' = life
      <4>1. s = "refused"  BY <1>9, <3>5, <1>2 DEF SupType
      <4> QED  BY <1>2, <1>5, <3>1, <3>5, <4>1
    <3> QED  BY <2>1, <3>4, <3>5 DEF Authorize
  <2>2. CASE OpenGate
    <3> DEFINE left == SatSub(life.deadline, now)
               d == now + Least(LeaseMs, left)
    <3>1. left \in Nat /\ (left > 0 => left = life.deadline - now)  BY <1>n, SatSubNat
    <3>2. Least(LeaseMs, left) \in Nat /\ Least(LeaseMs, left) <= left  BY <3>1, LeastNat
    <3>3. life' = [life EXCEPT !.deadline = d] /\ pipe' = pipe /\ sup.step = "authorized"
      BY <2>2 DEF OpenGate
    <3>4. life.deadline <= coord.deadline  BY <3>3 DEF Inv, GrantBound
    <3>5. s = "loop"
      <4>1. sup' = [sup EXCEPT !.step = "loop"]  BY <2>2 DEF OpenGate
      <4> QED  BY <1>2, <1>9, <4>1 DEF SupType
    <3> HIDE DEF left
    <3>6. d \in Nat /\ (d <= coord.deadline \/ d <= now)  BY <1>n, <3>1, <3>2, <3>4
    <3> HIDE DEF d
    <3>7. life' \in LifeType /\ life'.phase = "running" /\ life'.deadline = d
      BY <1>2, <1>5, <3>3, <3>6 DEF LifeType
    <3> QED  BY <3>3, <3>5, <3>6, <3>7
  <2>3. CASE GateStaysBlocked
    <3>1. life' = life /\ pipe' = pipe /\ sup' = [sup EXCEPT !.step = "refused"]
      BY <2>3 DEF GateStaysBlocked
    <3>2. s = "refused"  BY <1>2, <1>9, <3>1 DEF SupType
    <3> QED  BY <1>2, <1>5, <3>1, <3>2
  <2> QED  BY <2>1, <2>2, <2>3
<1>11. Asked => Asked'  BY <1>3, <1>9 DEF Asked
<1>12. Len(sup'.commands) = 0  BY <1>9
<1>13. CommandBound'  BY <1>12 DEF CommandBound
<1>14. PollBound'  BY <1>3, <1>9, <1>n DEF PollBound
<1>15. GrantBound' /\ NodeExpiresFirst'
  BY <1>3, <1>9, <1>10 DEF GrantBound, NodeExpiresFirst, Live
<1>16. PhaseOrigin'  BY <1>10 DEF PhaseOrigin
<1>17. \A i \in 1..Len(sup'.commands) : /\ sup'.commands[i].kind = "drain" => Asked'
                                        /\ sup'.commands[i].kind = "lost" => sup'.lost
  BY <1>12
<1> QED  BY <1>3, <1>9, <1>10, <1>11, <1>13, <1>14, <1>15, <1>16, <1>17, SupervisorMoves

\* A poll begins with no command, and is anchored here.
LEMMA BeginPollKeeps == ASSUME Inv, BeginPoll PROVE Inv'
<1>1. FieldTypes  BY Fields DEF Inv
<1>2. sup \in SupType /\ life \in LifeType /\ now \in Nat  BY <1>1 DEF Inv, TypeOK
<1>3. UNCHANGED <<now, coord, asked, slot, pipe, life>> /\ sup.step = "loop"  BY DEF BeginPoll
<1>4. /\ sup' \in SupType /\ sup'.step = "read" /\ sup'.at = now /\ sup'.commands = sup.commands
      /\ sup'.local = sup.local /\ sup'.lost = sup.lost
  BY <1>2 DEF BeginPoll, SupType
<1>5. sup'.commands = <<>> /\ Len(sup'.commands) = 0  BY <1>3, <1>4 DEF Inv, PollBound
<1>6. Asked => Asked'  BY <1>3, <1>4 DEF Asked
<1>7. CommandBound'  BY <1>5 DEF CommandBound
<1>8. PollBound' /\ GrantBound' /\ NodeExpiresFirst'
  BY <1>2, <1>3, <1>4 DEF Inv, PollBound, GrantBound, NodeExpiresFirst, Live
<1>9. PhaseOrigin'  BY <1>3, <1>4 DEF Inv, PhaseOrigin, Live, Asked
<1> QED  BY <1>2, <1>3, <1>4, <1>5, <1>6, <1>7, <1>8, <1>9, SupervisorMoves

\* What holds of a command that was read.
CommandOK(c) ==
    /\ c.kind = "renew" => sup.at + c.remaining <= coord.deadline
    /\ c.kind = "drain" => Asked
    /\ c.kind = "lost" => sup.lost

\* One control is read: the command it becomes is anchored at the poll's entry.
LEMMA ReadControlKeeps == ASSUME Inv, ReadControl PROVE Inv'
<1> DEFINE m == Head(pipe)
           lease == m.kind = "renewal" /\ ValidLease(m) /\ Left(m) > 0 /\ Left(m) <= m.valid
           c == IF m.drain \/ m.kind = "drain"
                THEN [kind |-> "drain", seq |-> m.seq, remaining |-> 0]
                ELSE [kind |-> "renew", seq |-> m.seq, remaining |-> Left(m)]
<1>1. FieldTypes  BY Fields DEF Inv
<1>2. sup \in SupType /\ life \in LifeType  BY DEF Inv, TypeOK
<1>3. /\ UNCHANGED <<now, coord, asked, slot, life>> /\ sup.step = "read"
      /\ pipe # <<>> /\ pipe' = Tail(pipe)
      /\ sup' = IF lease \/ m.kind = "drain"
                  THEN [sup EXCEPT !.epoch = IF lease THEN m.epoch ELSE sup.epoch,
                                   !.commands = Append(sup.commands, c)]
                  ELSE sup
  BY DEF ReadControl
<1>4. m = pipe[1] /\ 1 \in 1..Len(pipe)
  BY <1>1, <1>3, HeadTailProperties, LenProperties, EmptySeq DEF FieldTypes
<1> HIDE DEF m
<1>5. /\ m \in MessageType /\ m.expires \in Nat /\ m.expires <= coord.deadline
      /\ m.drain \/ m.kind = "drain" => Asked
  BY <1>1, <1>4 DEF FieldTypes, Inv, PipeBound, DrainOrigin
<1>6. m.seq \in Nat /\ m.epoch \in Nat /\ m.drain \in BOOLEAN  BY <1>5 DEF MessageType
<1>n. /\ now \in Nat /\ sup.at \in Nat /\ sup.at <= now /\ coord.deadline \in Nat
      /\ sup.commands \in Seq(CommandType)
  BY <1>1 DEF FieldTypes, Inv, PollBound
<1>7. Left(m) \in Nat /\ (Left(m) > 0 => Left(m) = m.expires - now)
  BY <1>5, <1>n, SatSubNat DEF Left
<1>8. c \in CommandType  BY <1>6, <1>7 DEF CommandType
<1>9. ASSUME lease \/ m.kind = "drain"  PROVE CommandOK(c)
  <2>1. CASE m.drain \/ m.kind = "drain"
    <3>1. c.kind = "drain"  BY <2>1
    <3> HIDE DEF c
    <3> QED  BY <1>5, <2>1, <3>1 DEF CommandOK
  <2>2. CASE ~(m.drain \/ m.kind = "drain") /\ lease
    <3>1. c.kind = "renew" /\ c.remaining = Left(m) /\ Left(m) > 0  BY <2>2
    <3> HIDE DEF c
    <3>2. sup.at + Left(m) <= coord.deadline  BY <1>5, <1>7, <1>n, <3>1
    <3> QED  BY <3>1, <3>2 DEF CommandOK
  <2> QED  BY <1>9, <2>1, <2>2
<1> HIDE DEF c, lease
<1>10. /\ sup' \in SupType /\ sup'.step = "read" /\ sup'.at = sup.at
       /\ sup'.local = sup.local /\ sup'.lost = sup.lost
       /\ sup'.commands = sup.commands \/ (CommandOK(c) /\ sup'.commands = Append(sup.commands, c))
  <2>1. CASE lease \/ m.kind = "drain"
    <3> DEFINE e == IF lease THEN m.epoch ELSE sup.epoch
    <3>1. e \in Nat  BY <1>1, <1>6 DEF FieldTypes
    <3>2. sup' = [sup EXCEPT !.epoch = e, !.commands = Append(sup.commands, c)]  BY <1>3, <2>1
    <3>3. Append(sup.commands, c) \in Seq(CommandType)  BY <1>8, <1>n, AppendProperties
    <3> HIDE DEF e
    <3>4. /\ sup' \in SupType /\ sup'.step = sup.step /\ sup'.at = sup.at
          /\ sup'.local = sup.local /\ sup'.lost = sup.lost
          /\ sup'.commands = Append(sup.commands, c)
      BY <1>2, <3>1, <3>2, <3>3 DEF SupType
    <3> QED  BY <1>3, <1>9, <2>1, <3>4
  <2>2. CASE ~(lease \/ m.kind = "drain")  BY <1>2, <1>3, <2>2
  <2> QED  BY <2>1, <2>2
<1>11. Asked' <=> Asked  BY <1>3, <1>10 DEF Asked
<1>12. \A i \in 1..Len(sup'.commands) : CommandOK(sup'.commands[i])
  <2>1. \A i \in 1..Len(sup.commands) : CommandOK(sup.commands[i])
    BY DEF Inv, CommandBound, DrainOrigin, CommandOK
  <2>2. CASE sup'.commands = sup.commands  BY <2>1, <2>2
  <2>3. CASE CommandOK(c) /\ sup'.commands = Append(sup.commands, c)
    <3>1. Len(sup'.commands) = Len(sup.commands) + 1 /\ Len(sup.commands) \in Nat
      BY <1>8, <1>n, <2>3, AppendProperties, LenProperties
    <3>2. \A i \in 1..Len(sup'.commands) :
             sup'.commands[i] = c \/ (i \in 1..Len(sup.commands) /\ sup'.commands[i] = sup.commands[i])
      BY <1>8, <1>n, <2>3, <3>1, AppendProperties
    <3> QED  BY <2>1, <2>3, <3>2
  <2> QED  BY <1>10, <2>2, <2>3
<1>13. CommandBound'  BY <1>3, <1>10, <1>12 DEF CommandBound, CommandOK
<1>14. \A i \in 1..Len(sup'.commands) : /\ sup'.commands[i].kind = "drain" => Asked'
                                        /\ sup'.commands[i].kind = "lost" => sup'.lost
  BY <1>10, <1>11, <1>12 DEF CommandOK
<1>15. PollBound' /\ GrantBound' /\ NodeExpiresFirst'
  BY <1>3, <1>10 DEF Inv, PollBound, GrantBound, NodeExpiresFirst, Live
<1>16. PhaseOrigin'  BY <1>3, <1>10, <1>11 DEF Inv, PhaseOrigin, Live
<1> QED  BY <1>2, <1>3, <1>10, <1>11, <1>13, <1>14, <1>15, <1>16, SupervisorMoves

\* The read ends: a lost agent and the local policy may add a command.
LEMMA EndReadKeeps == ASSUME Inv, EndRead PROVE Inv'
<1> DEFINE lost == ~slot.alive /\ ~sup.lost
           gone == IF lost THEN <<[kind |-> "lost", seq |-> 0, remaining |-> 0]>> ELSE <<>>
<1>1. FieldTypes  BY Fields DEF Inv
<1>2. sup \in SupType /\ life \in LifeType  BY DEF Inv, TypeOK
<1>3. UNCHANGED <<now, coord, asked, slot, pipe, life>> /\ sup.step = "read"  BY DEF EndRead
<1>4. PICK local \in BOOLEAN :
         LET own == IF local THEN <<[kind |-> "drain", seq |-> 0, remaining |-> 0]>> ELSE <<>> IN
         sup' = [sup EXCEPT !.step = "apply", !.lost = @ \/ lost, !.local = @ \/ local,
                            !.commands = @ \o gone \o own]
  BY DEF EndRead
<1> DEFINE own == IF local THEN <<[kind |-> "drain", seq |-> 0, remaining |-> 0]>> ELSE <<>>
           all == (sup.commands \o gone) \o own
<1>5. sup' = [sup EXCEPT !.step = "apply", !.lost = sup.lost \/ lost, !.local = sup.local \/ local,
                         !.commands = all]
  BY <1>4
<1>6. /\ gone \in Seq(CommandType) /\ Len(gone) \in Nat
      /\ \A i \in 1..Len(gone) : lost /\ gone[i].kind = "lost"
  <2> DEFINE c == [kind |-> "lost", seq |-> 0, remaining |-> 0]
  <2>1. c \in CommandType /\ c.kind = "lost"  BY DEF CommandType
  <2> HIDE DEF c
  <2>2. CASE lost
    <3>1. gone = <<c>>  BY <2>2 DEF c
    <3>2. gone \in Seq(CommandType) /\ Len(gone) = 1 /\ gone[1] = c  BY <2>1, <3>1
    <3> QED  BY <2>1, <2>2, <3>2
  <2>3. CASE ~lost
    <3>1. gone = <<>>  BY <2>3
    <3> QED  BY <3>1
  <2> QED  BY <2>2, <2>3
<1>7. /\ own \in Seq(CommandType) /\ Len(own) \in Nat
      /\ \A i \in 1..Len(own) : local /\ own[i].kind = "drain"
  <2> DEFINE c == [kind |-> "drain", seq |-> 0, remaining |-> 0]
  <2>1. c \in CommandType /\ c.kind = "drain"  BY DEF CommandType
  <2> HIDE DEF c
  <2>2. CASE local
    <3>1. own = <<c>>  BY <2>2 DEF c
    <3>2. own \in Seq(CommandType) /\ Len(own) = 1 /\ own[1] = c  BY <2>1, <3>1
    <3> QED  BY <2>1, <2>2, <3>2
  <2>3. CASE ~local
    <3>1. own = <<>>  BY <2>3
    <3> QED  BY <3>1
  <2> QED  BY <2>2, <2>3
<1> HIDE DEF gone, own
<1>8. /\ all \in Seq(CommandType)
      /\ \A i \in 1..Len(all) : \/ \E j \in 1..Len(sup.commands) : all[i] = sup.commands[j]
                                \/ \E j \in 1..Len(gone) : all[i] = gone[j]
                                \/ \E j \in 1..Len(own) : all[i] = own[j]
  <2> DEFINE first == sup.commands \o gone
  <2>1. sup.commands \in Seq(CommandType) /\ Len(sup.commands) \in Nat  BY <1>1 DEF FieldTypes
  <2>2. /\ first \in Seq(CommandType) /\ Len(first) = Len(sup.commands) + Len(gone)
        /\ \A i \in 1..Len(first) : first[i] = IF i <= Len(sup.commands) THEN sup.commands[i]
                                                ELSE gone[i - Len(sup.commands)]
    BY <1>6, <2>1, ConcatProperties
  <2>3. \A i \in 1..Len(first) : \/ \E j \in 1..Len(sup.commands) : first[i] = sup.commands[j]
                                 \/ \E j \in 1..Len(gone) : first[i] = gone[j]
    <3>1. SUFFICES ASSUME NEW i \in 1..Len(first)
                   PROVE  \/ \E j \in 1..Len(sup.commands) : first[i] = sup.commands[j]
                          \/ \E j \in 1..Len(gone) : first[i] = gone[j]
      OBVIOUS
    <3> HIDE DEF first
    <3>2. CASE i <= Len(sup.commands)
      <4>1. i \in 1..Len(sup.commands) /\ first[i] = sup.commands[i]  BY <2>1, <2>2, <3>2
      <4> QED  BY <4>1
    <3>3. CASE ~(i <= Len(sup.commands))
      <4>1. i - Len(sup.commands) \in 1..Len(gone) /\ first[i] = gone[i - Len(sup.commands)]
        BY SMTT(30), <1>6, <2>1, <2>2, <3>3
      <4> QED  BY <4>1
    <3> QED  BY <3>2, <3>3
  <2> HIDE DEF first
  <2>4. all = first \o own  BY DEF first
  <2>5. /\ all \in Seq(CommandType) /\ Len(all) = Len(first) + Len(own) /\ Len(first) \in Nat
        /\ \A i \in 1..Len(all) : all[i] = IF i <= Len(first) THEN first[i] ELSE own[i - Len(first)]
    BY <1>7, <2>2, <2>4, ConcatProperties, LenProperties
  <2> HIDE DEF all
  <2>6. ASSUME NEW i \in 1..Len(all)
        PROVE  \/ \E j \in 1..Len(sup.commands) : all[i] = sup.commands[j]
               \/ \E j \in 1..Len(gone) : all[i] = gone[j]
               \/ \E j \in 1..Len(own) : all[i] = own[j]
    <3>1. CASE i <= Len(first)
      <4>1. i \in 1..Len(first) /\ all[i] = first[i]  BY <2>5, <3>1
      <4> QED  BY <2>3, <4>1
    <3>2. CASE ~(i <= Len(first))
      <4>1. i - Len(first) \in 1..Len(own) /\ all[i] = own[i - Len(first)]  BY <1>7, <2>5, <3>2
      <4> QED  BY <4>1
    <3> QED  BY <3>1, <3>2
  <2> QED  BY <2>5, <2>6
<1> HIDE DEF all
<1>9. /\ sup' \in SupType /\ sup'.step = "apply" /\ sup'.at = sup.at /\ sup'.commands = all
      /\ sup'.lost = (sup.lost \/ lost) /\ sup'.local = (sup.local \/ local)
  <2>1. (sup.lost \/ lost) \in BOOLEAN /\ (sup.local \/ local) \in BOOLEAN  BY <1>1 DEF FieldTypes
  <2> DEFINE a == (sup.lost \/ lost)
             b == (sup.local \/ local)
  <2>2. a \in BOOLEAN /\ b \in BOOLEAN  BY <2>1
  <2>3. sup' = [sup EXCEPT !.step = "apply", !.lost = a, !.local = b, !.commands = all]  BY <1>5
  <2> HIDE DEF a, b
  <2>4. /\ sup' \in SupType /\ sup'.step = "apply" /\ sup'.at = sup.at /\ sup'.commands = all
        /\ sup'.lost = a /\ sup'.local = b
    BY <1>2, <1>8, <2>2, <2>3 DEF SupType
  <2> QED  BY <2>4 DEF a, b
<1>10. (Asked => Asked') /\ (local => Asked') /\ (sup.lost => sup'.lost) /\ (lost => sup'.lost)
  BY <1>3, <1>9 DEF Asked
<1>11. ASSUME NEW i \in 1..Len(all)
       PROVE  /\ all[i].kind = "renew" => sup.at + all[i].remaining <= coord.deadline
              /\ all[i].kind = "drain" => Asked'
              /\ all[i].kind = "lost" => sup'.lost
  <2>1. CASE \E j \in 1..Len(sup.commands) : all[i] = sup.commands[j]
    BY <1>10, <2>1 DEF Inv, CommandBound, DrainOrigin
  <2>2. CASE \E j \in 1..Len(gone) : all[i] = gone[j]  BY <1>6, <1>10, <2>2
  <2>3. CASE \E j \in 1..Len(own) : all[i] = own[j]  BY <1>7, <1>10, <2>3
  <2> QED  BY <1>8, <2>1, <2>2, <2>3
<1>12. CommandBound'  BY <1>3, <1>9, <1>11 DEF CommandBound
<1>13. \A i \in 1..Len(sup'.commands) : /\ sup'.commands[i].kind = "drain" => Asked'
                                        /\ sup'.commands[i].kind = "lost" => sup'.lost
  BY <1>9, <1>11
<1>14. PollBound' /\ GrantBound' /\ NodeExpiresFirst'
  BY <1>3, <1>9 DEF Inv, PollBound, GrantBound, NodeExpiresFirst, Live
<1>15. PhaseOrigin'  BY <1>3, <1>9, <1>10 DEF Inv, PhaseOrigin, Live
<1> QED  BY <1>2, <1>3, <1>9, <1>10, <1>12, <1>13, <1>14, <1>15, SupervisorMoves

\* One command is applied.
LEMMA ApplyKeeps == ASSUME Inv, ApplyCommand PROVE Inv'
<1> DEFINE c == Head(sup.commands)
           l == Applied(life, c, now)
<1>1. FieldTypes  BY Fields DEF Inv
<1>2. sup \in SupType /\ life \in LifeType /\ now \in Nat /\ sup.at \in Nat /\ sup.commands \in Seq(CommandType)
  BY <1>1 DEF Inv, TypeOK, FieldTypes
<1>3. /\ UNCHANGED <<now, coord, asked, slot, pipe>> /\ sup.step = "apply" /\ sup.commands # <<>>
      /\ life' = l /\ sup' = [sup EXCEPT !.commands = Tail(sup.commands)]
  BY DEF ApplyCommand
<1>4. /\ c = sup.commands[1] /\ 1 \in 1..Len(sup.commands) /\ Len(sup.commands) \in Nat
      /\ Tail(sup.commands) \in Seq(CommandType) /\ Len(Tail(sup.commands)) = Len(sup.commands) - 1
      /\ \A i \in 1..Len(Tail(sup.commands)) : Tail(sup.commands)[i] = sup.commands[i + 1]
  BY SMTT(30), <1>2, <1>3, HeadTailProperties, LenProperties, EmptySeq
<1> HIDE DEF c
<1>5. /\ c \in CommandType
      /\ c.kind = "renew" => sup.at + c.remaining <= coord.deadline
      /\ c.kind = "drain" => Asked
      /\ c.kind = "lost" => sup.lost
  BY <1>1, <1>4 DEF FieldTypes, Inv, CommandBound, DrainOrigin
<1>6. /\ l \in LifeType
      /\ \/ l.deadline = life.deadline
         \/ c.kind = "renew" /\ l.deadline <= sup.at + c.remaining
      /\ life.phase # "running" =>
            l.phase # "running" /\ l.drainAt = life.drainAt /\ l.deadline = life.deadline
      /\ life.phase = "running" /\ l.phase # "running" =>
            c.kind = "drain" \/ (Opportunistic /\ (c.kind = "lost" \/ l.drainAt = l.deadline))
  <2>1. /\ Applied(life, c, now) \in LifeType
        /\ \/ Applied(life, c, now).deadline = life.deadline
           \/ c.kind = "renew" /\ Applied(life, c, now).deadline <= sup.at + c.remaining
    BY <1>2, <1>5, AppliedStep, Zenon
  <2>2. life.phase # "running" =>
           /\ Applied(life, c, now).phase # "running" /\ Applied(life, c, now).drainAt = life.drainAt
           /\ Applied(life, c, now).deadline = life.deadline
    BY <1>2, <1>5, AppliedStep, Zenon
  <2>3. life.phase = "running" /\ Applied(life, c, now).phase # "running" =>
           \/ c.kind = "drain"
           \/ Opportunistic /\ (c.kind = "lost" \/ Applied(life, c, now).drainAt = Applied(life, c, now).deadline)
    BY <1>2, <1>5, AppliedStep, Zenon
  <2>4. l = Applied(life, c, now)  OBVIOUS
  <2> HIDE DEF l
  <2>5. /\ l \in LifeType
        /\ l.deadline = life.deadline \/ (c.kind = "renew" /\ l.deadline <= sup.at + c.remaining)
    BY <2>1, <2>4
  <2>6. life.phase # "running" =>
           l.phase # "running" /\ l.drainAt = life.drainAt /\ l.deadline = life.deadline
    BY <2>2, <2>4
  <2>7. life.phase = "running" /\ l.phase # "running" =>
           c.kind = "drain" \/ (Opportunistic /\ (c.kind = "lost" \/ l.drainAt = l.deadline))
    BY <2>3, <2>4
  <2> QED  BY <2>5, <2>6, <2>7
<1> HIDE DEF l
<1>7. /\ sup' \in SupType /\ sup'.step = "apply" /\ sup'.at = sup.at /\ sup'.commands = Tail(sup.commands)
      /\ sup'.local = sup.local /\ sup'.lost = sup.lost
  <2> DEFINE t == Tail(sup.commands)
  <2>1. t \in Seq(CommandType) /\ sup' = [sup EXCEPT !.commands = t] /\ sup.step = "apply"  BY <1>3, <1>4
  <2> HIDE DEF t
  <2>2. /\ sup' \in SupType /\ sup'.step = "apply" /\ sup'.at = sup.at /\ sup'.commands = t
        /\ sup'.local = sup.local /\ sup'.lost = sup.lost
    BY <1>2, <2>1 DEF SupType
  <2> QED  BY <2>2 DEF t
<1>8. Asked' <=> Asked  BY <1>3, <1>7 DEF Asked
<1>9. \A i \in 1..Len(sup'.commands) :
         i + 1 \in 1..Len(sup.commands) /\ sup'.commands[i] = sup.commands[i + 1]
  BY <1>4, <1>7
<1>10. CommandBound'  BY <1>3, <1>7, <1>9 DEF Inv, CommandBound
<1>11. \A i \in 1..Len(sup'.commands) : /\ sup'.commands[i].kind = "drain" => Asked'
                                        /\ sup'.commands[i].kind = "lost" => sup'.lost
  BY <1>7, <1>8, <1>9 DEF Inv, DrainOrigin
<1>12. NodeExpiresFirst'
  <2>1. life.deadline <= coord.deadline \/ life.deadline <= now
    BY <1>3 DEF Inv, NodeExpiresFirst, Live
  <2>a. l.deadline \in Nat  BY <1>6 DEF LifeType
  <2>b. coord.deadline \in Nat  BY <1>1 DEF FieldTypes
  <2>c. c.remaining \in Nat  BY <1>5 DEF CommandType
  <2>2. /\ l.deadline \in Nat /\ coord.deadline \in Nat /\ sup.at + c.remaining \in Nat
    BY <1>2, <2>a, <2>b, <2>c
  <2>3. l.deadline <= coord.deadline \/ l.deadline <= now  BY <1>5, <1>6, <2>1, <2>2
  <2> QED  BY <1>3, <2>3 DEF NodeExpiresFirst
<1>13. PollBound' /\ GrantBound'  BY <1>3, <1>7 DEF Inv, PollBound, GrantBound
<1>14. PhaseOrigin'
  <2>1. Live'  BY <1>7 DEF Live
  <2>2. l.phase # "running" /\ ~Asked => Opportunistic /\ (sup.lost \/ l.drainAt = l.deadline)
    <3>1. CASE life.phase = "running"  BY <1>5, <1>6, <3>1
    <3>2. CASE life.phase # "running"  BY <1>6, <3>2 DEF Inv, PhaseOrigin
    <3> QED  BY <3>1, <3>2
  <2> QED  BY <1>3, <1>7, <1>8, <2>1, <2>2 DEF PhaseOrigin
<1> QED  BY <1>3, <1>6, <1>7, <1>8, <1>10, <1>11, <1>12, <1>13, <1>14, SupervisorMoves

\* The tick that ends a poll.
LEMMA EndPollKeeps == ASSUME Inv, EndPoll PROVE Inv'
<1> DEFINE l == Ticked(life, now)
<1>1. FieldTypes  BY Fields DEF Inv
<1>2. sup \in SupType /\ life \in LifeType /\ now \in Nat  BY <1>1 DEF Inv, TypeOK
<1>3. /\ UNCHANGED <<now, coord, asked, slot, pipe>> /\ sup.step = "apply" /\ sup.commands = <<>>
      /\ life' = l /\ sup' = [sup EXCEPT !.step = "loop", !.at = 0, !.draining = life'.phase # "running"]
  BY DEF EndPoll
<1>4. /\ l \in LifeType /\ l.deadline = life.deadline
      /\ l.phase = "running" <=> life.phase = "running" /\ ~(Opportunistic /\ now >= life.deadline)
      /\ life.phase = "running" /\ l.phase # "running" => l.drainAt = life.deadline
      /\ life.phase # "running" => l.drainAt = life.drainAt
  BY <1>2, TickedStep
<1> HIDE DEF l
<1>5. /\ sup' \in SupType /\ sup'.step = "loop" /\ sup'.at = 0 /\ sup'.commands = <<>>
      /\ sup'.local = sup.local /\ sup'.lost = sup.lost
  BY <1>2, <1>3 DEF SupType
<1>6. Len(sup'.commands) = 0  BY <1>5
<1>7. Asked' <=> Asked  BY <1>3, <1>5 DEF Asked
<1>8. CommandBound'  BY <1>6 DEF CommandBound
<1>9. \A i \in 1..Len(sup'.commands) : /\ sup'.commands[i].kind = "drain" => Asked'
                                       /\ sup'.commands[i].kind = "lost" => sup'.lost
  BY <1>6
<1>10. PollBound' /\ GrantBound'  BY <1>2, <1>3, <1>5 DEF PollBound, GrantBound
<1>11. NodeExpiresFirst'
  BY <1>3, <1>4 DEF Inv, NodeExpiresFirst, Live
<1>12. PhaseOrigin'
  <2>1. Live'  BY <1>5 DEF Live
  <2>2. l.phase # "running" /\ ~Asked => Opportunistic /\ (sup.lost \/ l.drainAt = l.deadline)
    <3>1. CASE life.phase = "running"  BY <1>4, <3>1
    <3>2. CASE life.phase # "running"  BY <1>4, <3>2 DEF Inv, PhaseOrigin
    <3> QED  BY <3>1, <3>2
  <2> QED  BY <1>3, <1>5, <1>7, <2>1, <2>2 DEF PhaseOrigin
<1> QED  BY <1>3, <1>4, <1>5, <1>7, <1>8, <1>9, <1>10, <1>11, <1>12, SupervisorMoves

-----------------------------------------------------------------------------
(* The theorems. *)

\* Every step keeps it.
LEMMA InvNext == ASSUME Inv, [Next]_vars PROVE Inv'
<1>1. CASE UNCHANGED vars
  BY <1>1 DEF vars, Inv, TypeOK, RowBound, RpcBound, PipeBound, CommandBound, PollBound, GrantBound,
              NodeExpiresFirst, ToldOrigin, DrainOrigin, PhaseOrigin, Live, Asked
<1>2. CASE Tick  BY <1>2, TickKeeps
<1>3. CASE Expire \/ RequestDrain \/ Restart  BY <1>3, CoordinatorKeeps
<1>4. CASE \E r \in asked : Handle(r)  BY <1>4, HandleKeeps
<1>5. CASE AskPrepared \/ AskRenewal \/ GiveUp \/ AgentDies  BY <1>5, AgentKeeps
<1>6. CASE Receive  BY <1>6, ReceiveKeeps
<1>7. CASE Heartbeat  BY <1>7, HeartbeatKeeps
<1>8. CASE AgentDrain  BY <1>8, AgentDrainKeeps
<1>9. CASE Authorize \/ OpenGate \/ GateStaysBlocked  BY <1>9, GateKeeps
<1>10. CASE BeginPoll  BY <1>10, BeginPollKeeps
<1>11. CASE ReadControl  BY <1>11, ReadControlKeeps
<1>12. CASE EndRead  BY <1>12, EndReadKeeps
<1>13. CASE ApplyCommand  BY <1>13, ApplyKeeps
<1>14. CASE EndPoll  BY <1>14, EndPollKeeps
<1> QED
  BY <1>1, <1>2, <1>3, <1>4, <1>5, <1>6, <1>7, <1>8, <1>9, <1>10, <1>11, <1>12, <1>13, <1>14
  DEF Next

\* The conjunction above holds in every reachable state.
THEOREM InvHolds == Spec => []Inv
<1>1. Inv /\ [Next]_vars => Inv'  BY InvNext
<1> QED  BY InvInit, <1>1, PTL DEF Spec

\* Every field of every message, lease and deadline stays a natural: no
\* subtraction of the lease's path goes below zero.
THEOREM TypeHolds == Spec => []TypeOK
<1>1. Inv => TypeOK  BY DEF Inv
<1> QED  BY InvHolds, <1>1, PTL

\* For all times and all delays, losses and repetitions of the messages: the
\* node's deadline lies at or before the coordinator's.
THEOREM NodeExpiresFirstHolds == Spec => []NodeExpiresFirst
<1>1. Inv => NodeExpiresFirst  BY DEF Inv
<1> QED  BY InvHolds, <1>1, PTL

\* A node that still considers its opportunistic lease valid is not fenced by
\* the coordinator.
THEOREM AuthorityIsCurrentHolds == Spec => []AuthorityIsCurrent
<1>1. ASSUME Inv PROVE AuthorityIsCurrent
  <2>1. FieldTypes  BY <1>1, Fields DEF Inv
  <2>2. SUFFICES ASSUME Opportunistic, Live, Observed.phase = "running"
                 PROVE  ~coord.fenced /\ now < coord.deadline
    BY DEF AuthorityIsCurrent
  <2>n. life \in LifeType /\ now \in Nat /\ life.deadline \in Nat /\ coord.deadline \in Nat
    BY <2>1 DEF FieldTypes
  <2>3. ~(now >= life.deadline)  BY <2>2, <2>n, TickedStep DEF Observed
  <2>4. life.deadline <= coord.deadline \/ life.deadline <= now
    BY <1>1, <2>2 DEF Inv, NodeExpiresFirst
  <2>5. now < coord.deadline  BY <2>3, <2>4, <2>n
  <2>6. coord.fenced => coord.deadline <= now  BY <1>1 DEF Inv, RowBound
  <2> QED  BY <2>5, <2>6, <2>n
<1>2. Inv => AuthorityIsCurrent  BY <1>1
<1> QED  BY InvHolds, <1>2, PTL

\* Guaranteed work leaves "running" only when somebody asked for it.
THEOREM GuaranteedContinuesHolds == Spec => []GuaranteedContinues
<1>1. Inv => GuaranteedContinues
  BY DEF Inv, PhaseOrigin, ToldOrigin, Asked, GuaranteedContinues
<1> QED  BY InvHolds, <1>1, PTL

\* When nothing but the deadline ends a lease, the kill is due at the deadline
\* plus the drain and term times, however late the supervisor looks.
THEOREM ExpiryIsDeadlineHolds == Spec => []ExpiryIsDeadline
<1>1. ASSUME Inv PROVE ExpiryIsDeadline
  <2>1. FieldTypes  BY <1>1, Fields DEF Inv
  <2>2. SUFFICES ASSUME Opportunistic, Live, Undisturbed, now >= life.deadline + DrainMs + TermMs
                 PROVE  Observed.phase = "kill"
    BY DEF ExpiryIsDeadline, KillIsDue
  <2>n. life \in LifeType /\ now \in Nat /\ life.deadline \in Nat  BY <2>1 DEF FieldTypes
  <2> DEFINE d == IF life.phase = "running" /\ Opportunistic /\ now >= life.deadline
                    THEN Drained(life, life.deadline) ELSE life
  <2>3. d \in LifeType /\ d.phase # "running" /\ d.drainAt = life.deadline
    <3>1. CASE life.phase = "running"
      <4>1. now >= life.deadline  BY <2>2, <2>n
      <4>2. d = Drained(life, life.deadline)  BY <2>2, <3>1, <4>1
      <4> QED  BY <2>n, <3>1, <4>2, DrainedStep
    <3>2. CASE life.phase # "running"
      <4>1. d = life  BY <3>2
      <4>2. ~Asked /\ ~sup.lost  BY <2>2 DEF Undisturbed, Asked
      <4>3. life.drainAt = life.deadline  BY <1>1, <3>2, <4>2 DEF Inv, PhaseOrigin
      <4> QED  BY <2>n, <3>2, <4>1, <4>3
    <3> QED  BY <3>1, <3>2
  <2>4. SatSub(now, d.drainAt) >= DrainMs + TermMs
    <3>a. now >= life.deadline  BY <2>2, <2>n
    <3>1. SatSub(now, life.deadline) = now - life.deadline  BY <2>n, <3>a DEF SatSub
    <3> HIDE DEF d
    <3> QED  BY <2>2, <2>3, <2>n, <3>1
  <2>5. Ticked(life, now) = [d EXCEPT !.phase = "kill"]  BY <2>3, <2>4 DEF Ticked
  <2> HIDE DEF d
  <2> QED  BY <2>3, <2>5 DEF Observed, LifeType
<1>2. Inv => ExpiryIsDeadline  BY <1>1
<1> QED  BY InvHolds, <1>2, PTL

\* No step revives a lease that has ended, or a drain that was requested.
THEOREM NeverRevivedHolds == Spec => NeverRevived
<1>1. ASSUME Inv, Inv', [Next]_vars, Live, Observed.phase # "running"
      PROVE  Observed'.phase # "running"
  <2>1. FieldTypes /\ FieldTypes'
    <3>1. TypeOK /\ TypeOK'  BY <1>1 DEF Inv
    <3>2. FieldTypes  BY <3>1, Fields
    <3>3. TypeOK' => FieldTypes'  BY Fields, PTL
    <3> QED  BY <3>1, <3>2, <3>3
  <2>n. /\ life \in LifeType /\ life' \in LifeType /\ now \in Nat /\ now' \in Nat
        /\ life.deadline \in Nat /\ sup.at \in Nat
    BY <2>1 DEF FieldTypes
  <2>2. life.phase # "running" \/ (Opportunistic /\ now >= life.deadline)
    BY <1>1, <2>n, TickedStep DEF Observed
  <2>3. SUFFICES life'.phase # "running" \/ (Opportunistic /\ now' >= life'.deadline)
    <3>1. Observed' = Ticked(life', now')  BY DEF Observed, Ticked, Drained
    <3> QED  BY <2>n, <3>1, TickedStep
  <2>4. CASE ApplyCommand
    <3> DEFINE c == Head(sup.commands)
    <3>1. life' = Applied(life, c, now) /\ sup.commands # <<>>  BY <2>4 DEF ApplyCommand
    <3>2. c \in CommandType  BY <2>1, <3>1, HeadTailProperties DEF FieldTypes
    <3>3. /\ life.phase # "running" => Applied(life, c, now).phase # "running"
          /\ Opportunistic /\ now >= life.deadline => Applied(life, c, now).phase # "running"
      BY <2>n, <3>2, AppliedStep, ZenonT(30)
    <3> QED  BY <2>2, <3>1, <3>3
  <2>5. CASE EndPoll
    <3>1. life' = Ticked(life, now)  BY <2>5 DEF EndPoll
    <3> QED  BY <1>1, <3>1 DEF Observed
  <2>6. CASE Tick
    <3>1. life' = life /\ now' = now + 1  BY <2>6 DEF Tick
    <3> QED  BY <2>2, <2>n, <3>1
  <2>7. CASE ~(ApplyCommand \/ EndPoll \/ Tick)
    <3>1. UNCHANGED <<life, now>>
      BY <1>1, <2>7 DEF Next, vars, Live, Expire, RequestDrain, Restart, Handle, AskPrepared, AskRenewal,
         Asks, GiveUp, Receive, Heartbeat, AgentDrain, AgentDies, Authorize, OpenGate,
         GateStaysBlocked, BeginPoll, ReadControl, EndRead
    <3> QED  BY <2>2, <3>1
  <2> QED  BY <2>4, <2>5, <2>6, <2>7
<1>2. Inv /\ Inv' /\ [Next]_vars => [Live /\ Observed.phase # "running" => Observed'.phase # "running"]_vars
  BY <1>1
<1> QED  BY InvHolds, <1>2, PTL DEF Spec, NeverRevived
=============================================================================
