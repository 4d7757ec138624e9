--------------------------- MODULE DeliveryProofs ---------------------------
(***************************************************************************)
(* Proofs about Publication and Delivery, for any attempts, uploads,       *)
(* publications, sizes, quotas, deaths and power losses.                   *)
(*                                                                         *)
(* The first part is about publishers alone: PublisherInvariant, and what  *)
(* a step of one publisher leaves alone (Serves).  The second part is      *)
(* about delivery and collection around them.                              *)
(***************************************************************************)
EXTENDS MCDelivery, SequenceTheorems, TLAPS

(***************************************************************************)
(* What a publisher's rows and files agree on.                             *)
(***************************************************************************)
UploadRow == [state : {"none", "open", "sealed"}, off : Nat, sum : Seq(Byte)]
PubRow == [state : {"none", "pending", "uncertain", "committed", "rejected"},
           kind : Kind \cup {"none"}, seq : Nat, arts : SUBSET Upload]
Jobs == {Idle} \cup [op : {"create", "chunk"}, x : Upload]
               \cup [op : {"linked", "unlinked"}, x : Upload, sum : Seq(Byte)]
               \cup [op : {"desc", "head"}, x : Pub]

UploadTypes ==
    /\ up \in [Attempt \X Upload -> UploadRow]
    /\ data \in [Attempt \X Upload -> Seq(Byte)]
    /\ link \in [Attempt \X Upload -> SUBSET {"stage", "art"}]
    /\ dirty \in [Attempt \X Upload -> BOOLEAN]
PubTypes ==
    /\ pub \in [Attempt \X Pub -> PubRow]
    /\ desc \in [Attempt \X Pub -> {"absent", "torn", "whole", "synced"}]
    /\ head \in [Attempt \X Kind -> Pub \cup {None}]
ServiceTypes ==
    /\ job \in [Attempt -> Jobs] /\ open \subseteq Attempt
    /\ log \in [Attempt -> Nat] /\ input \in [Attempt -> Nat] /\ want \in [Attempt -> Nat]
LedgerTypes == ledger \in [DOMAIN ledger -> Nat]

(* An upload: its row never says more than the file holds for good.        *)
UploadAt(a, u) ==
    /\ up[<<a, u>>].state = "none" =>
           data[<<a, u>>] = <<>> /\ link[<<a, u>>] = {} /\ up[<<a, u>>].off = 0
    /\ up[<<a, u>>].off =< Len(data[<<a, u>>]) /\ Len(data[<<a, u>>]) =< Size
    /\ dirty[<<a, u>>] => up[<<a, u>>].off < Len(data[<<a, u>>])
    /\ up[<<a, u>>].state = "sealed" => data[<<a, u>>] = up[<<a, u>>].sum /\ up[<<a, u>>].off = Size

(* A publication: a committed one is on disk for good, an undecided result *)
(* has no result before it.                                                *)
PublicationAt(a, p) ==
    /\ pub[<<a, p>>].state = "none" => pub[<<a, p>>].seq = 0 /\ desc[<<a, p>>] = "absent"
    /\ pub[<<a, p>>].state # "none" =>
           pub[<<a, p>>].kind \in Kind /\ \A u \in pub[<<a, p>>].arts : up[<<a, u>>].state = "sealed"
    /\ pub[<<a, p>>].state = "committed" => desc[<<a, p>>] = "synced"
    /\ pub[<<a, p>>].state \in Unresolved /\ pub[<<a, p>>].kind = "result" =>
           head[<<a, "result">>] = None
HeadAt(a, k) ==
    head[<<a, k>>] # None =>
        pub[<<a, head[<<a, k>>]>>].state = "committed" /\ pub[<<a, head[<<a, k>>]>>].kind = k
UndecidedAt(a) ==
    \A p \in UnresolvedOf(a), q \in Pub : q # p => pub[<<a, q>>].seq < pub[<<a, p>>].seq
Newest(a) == \E n \in {pub[<<a, p>>].seq : p \in Pub} \cup {0} : \A p \in Pub : pub[<<a, p>>].seq =< n

(* The request a publisher is in the middle of.                            *)
JobAt(a) ==
    LET x == job[a].x IN
    /\ a \notin open => job[a] = Idle
    /\ job[a].op \in {"create", "chunk", "linked", "unlinked"} => up[<<a, x>>].state = "open"
    /\ job[a].op = "create" => link[<<a, x>>] = {}
    /\ job[a].op = "chunk" => up[<<a, x>>].off < Len(data[<<a, x>>])
    /\ job[a].op \in {"linked", "unlinked"} =>
           /\ "art" \in link[<<a, x>>] /\ ~dirty[<<a, x>>]
           /\ data[<<a, x>>] = job[a].sum /\ up[<<a, x>>].off = Size
    /\ job[a].op \in {"desc", "head"} => pub[<<a, x>>].state = "pending"
    /\ job[a].op = "head" => desc[<<a, x>>] = "synced"

(* What else of an attempt is charged.                                     *)
ChargeAt(a) ==
    /\ log[a] + want[a] =< At(ledger, Log(a))
    /\ input[a] =< At(ledger, Input(a))
    /\ \A p \in Pub : desc[<<a, p>>] # "absent" \/ pub[<<a, p>>].state \in Unresolved
                         => Desc(a, p) \in DOMAIN ledger

AttemptAt(a) ==
    /\ \A u \in Upload : UploadAt(a, u)
    /\ \A p \in Pub : PublicationAt(a, p)
    /\ \A k \in Kind : HeadAt(a, k)
    /\ UndecidedAt(a) /\ Newest(a) /\ JobAt(a) /\ ChargeAt(a)

PublisherTypes == UploadTypes /\ PubTypes /\ ServiceTypes /\ LedgerTypes
PublisherInvariant == PublisherTypes /\ \A a \in Attempt : AttemptAt(a)

(* Uploads are linked and charged, until they are collected.               *)
Linked(a) == \A u \in Upload : up[<<a, u>>].state = "sealed" => "art" \in link[<<a, u>>]
UploadsCharged(a) ==
    \A u \in Upload :
        /\ up[<<a, u>>].state = "open" => Size =< At(ledger, Stage(a, u))
        /\ up[<<a, u>>].state = "sealed" => Size =< At(ledger, Art(a, u))

(***************************************************************************)
(* Delivery.                                                               *)
(***************************************************************************)
Reports == Pub \cup {None, Command, Failed}
DeliveryTypes ==
    /\ leader \in [Attempt -> {"running", "ok", "bad"}]
    /\ phase \in [Attempt -> {"running", "released"}]
    /\ sup \in [Attempt -> {"up", "gone"}]
    /\ outcome \in [Attempt -> {"none", "running", "ok", "bad"}]
    /\ queue \in [Attempt -> SUBSET (Pub \X SUBSET Upload)]
    /\ slots \subseteq Attempt
    /\ reported \in [Attempt -> BOOLEAN]
    /\ poll \in [Attempt -> SUBSET ((Pub \cup {None}) \X BOOLEAN)]
    /\ task \in [Attempt -> [Kind -> [desc : Pub \cup {None, Command}, left : SUBSET Upload]]]
    /\ receipt \in [Attempt -> Reports] /\ accepted \in [Attempt -> Reports]
    /\ collected \in [Attempt -> BOOLEAN]
    /\ stored \in [Attempt -> SUBSET Upload]

(* Once the leader exited, no request of it is left to serve.              *)
SupervisorAt(a) ==
    /\ leader[a] # "running" => queue[a] = {} /\ job[a] = Idle
    /\ phase[a] = "released" \/ sup[a] = "gone" => leader[a] # "running"
    /\ sup[a] = "gone" => a \notin open
    /\ outcome[a] # "none" => a \notin open /\ phase[a] = "released"

(* No native result, and none undecided.                                   *)
NoResult(a) == head[<<a, "result">>] = None /\ HeadReadable(a, "result")
TaskAt(a, k) ==
    LET t == task[a][k] IN
    /\ t.desc = None => t = NoTask
    /\ t.desc = Command => t.left = {} /\ k = "result" /\ NoResult(a)
    /\ t.desc \in Pub => /\ pub[<<a, t.desc>>].state = "committed"
                         /\ k = "result" => head[<<a, "result">>] = t.desc
                         /\ t.left \subseteq pub[<<a, t.desc>>].arts
                         /\ pub[<<a, t.desc>>].arts \ t.left \subseteq stored[a]
ReportAt(a) ==
    /\ phase[a] = "running" =>
           receipt[a] = None /\ accepted[a] = None /\ poll[a] = {} /\ task[a]["result"] = NoTask
    /\ poll[a] # {} => /\ HeadReadable(a, "result")
                       /\ \E b \in BOOLEAN : poll[a] = {<<head[<<a, "result">>], b>>}
    /\ accepted[a] = Command => NoResult(a)
    /\ accepted[a] \in Pub => /\ head[<<a, "result">>] = accepted[a]
                              /\ pub[<<a, accepted[a]>>].arts \subseteq stored[a]
    /\ receipt[a] \notin {None, Failed} => accepted[a] = receipt[a]
    /\ a \in slots /\ receipt[a] # None => reported[a]

(* Nothing of the attempt is needed here any more.                         *)
Shipped(a) ==
    /\ sup[a] = "gone" /\ phase[a] = "released"
    /\ receipt[a] \notin {None, Failed}
    /\ receipt[a] = IF head[<<a, "result">>] = None THEN Command ELSE head[<<a, "result">>]
    /\ poll[a] = {} /\ \A k \in Kind : task[a][k] = NoTask
    /\ a \in slots => reported[a]
SpoolAt(a) ==
    /\ Linked(a) \/ Shipped(a)
    /\ ~collected[a] => UploadsCharged(a)
    /\ collected[a] => Shipped(a) /\ \A u \in Upload : link[<<a, u>>] = {}

DeliveryAt(a) ==
    SupervisorAt(a) /\ (\A k \in Kind : TaskAt(a, k)) /\ ReportAt(a) /\ SpoolAt(a)
DeliveryInvariant ==
    PublisherInvariant /\ DeliveryTypes /\ \A a \in Attempt : DeliveryAt(a)

-----------------------------------------------------------------------------
(* The ledger and the files.                                               *)
LedgerLike(l) == l \in [DOMAIN l -> Nat]

LEMMA AtNat ==
    ASSUME NEW l, LedgerLike(l), NEW path
    PROVE  At(l, path) \in Nat
BY DEF LedgerLike, At

LEMMA ChargeFacts ==
    ASSUME NEW l, LedgerLike(l), NEW path, NEW n \in Nat
    PROVE  /\ LedgerLike(Charge(l, path, n))
           /\ DOMAIN Charge(l, path, n) = DOMAIN l \cup {path}
           /\ At(Charge(l, path, n), path) = n
           /\ \A x : x # path => At(Charge(l, path, n), x) = At(l, x)
BY DEF LedgerLike, Charge, At

LEMMA DropFacts ==
    ASSUME NEW l, LedgerLike(l), NEW S
    PROVE  /\ LedgerLike(Drop(l, S))
           /\ DOMAIN Drop(l, S) = DOMAIN l \ S
           /\ \A x : x \notin S => At(Drop(l, S), x) = At(l, x)
BY DEF LedgerLike, Drop, Restrict, At

LEMMA MaxOfTwo ==
    ASSUME NEW x \in Nat, NEW y \in Nat
    PROVE  /\ Max({x, y}) \in Nat /\ x =< Max({x, y}) /\ y =< Max({x, y})
           /\ Max({x}) = x
BY DEF Max

\* The path of a file says what is in it.
SizeOf(kind, a, x) ==
    CASE kind \in {"staging", "artifacts"} -> Len(data[<<a, x>>])
      [] kind = "publications" -> 1
      [] kind = "log" -> log[a]
      [] OTHER -> input[a]
SizeAt(path) == SizeOf(path[1], path[2], path[3])

LEMMA OneFileEach ==
    ASSUME PublisherTypes, NEW f \in OnDisk
    PROVE  f[2] = SizeAt(f[1]) /\ f[2] \in Nat
<1> DEFINE F(a) ==
        {<<Stage(a, u), Len(data[<<a, u>>])>> : u \in {v \in Upload : "stage" \in link[<<a, v>>]}}
        \cup {<<Art(a, u), Len(data[<<a, u>>])>> : u \in {v \in Upload : "art" \in link[<<a, v>>]}}
        \cup {<<Desc(a, p), 1>> : p \in {q \in Pub : desc[<<a, q>>] # "absent"}}
        \cup {<<Log(a), log[a]>>} \cup {<<Input(a), input[a]>>}
<1>1. OnDisk = UNION {F(a) : a \in Attempt}
  BY DEF OnDisk
<1>2. PICK a \in Attempt : f \in F(a)
  <2> HIDE DEF F
  <2> QED
    BY <1>1
<1>3. \A u \in Upload : Len(data[<<a, u>>]) \in Nat
  BY LenProperties DEF PublisherTypes, UploadTypes
<1>4. log[a] \in Nat /\ input[a] \in Nat
  BY DEF PublisherTypes, ServiceTypes
<1>5. CASE f \in {<<Stage(a, u), Len(data[<<a, u>>])>> : u \in {v \in Upload : "stage" \in link[<<a, v>>]}}
  <2>1. PICK u \in Upload : f = <<Stage(a, u), Len(data[<<a, u>>])>>
    BY <1>5
  <2>2. f[1] = Stage(a, u) /\ f[2] = Len(data[<<a, u>>])
    BY <2>1
  <2>3. SizeAt(Stage(a, u)) = Len(data[<<a, u>>])
    BY DEF SizeAt, SizeOf, Stage
  <2> QED
    BY <1>3, <2>2, <2>3
<1>6. CASE f \in {<<Art(a, u), Len(data[<<a, u>>])>> : u \in {v \in Upload : "art" \in link[<<a, v>>]}}
  <2>1. PICK u \in Upload : f = <<Art(a, u), Len(data[<<a, u>>])>>
    BY <1>6
  <2>2. f[1] = Art(a, u) /\ f[2] = Len(data[<<a, u>>])
    BY <2>1
  <2>3. SizeAt(Art(a, u)) = Len(data[<<a, u>>])
    BY DEF SizeAt, SizeOf, Art
  <2> QED
    BY <1>3, <2>2, <2>3
<1>7. CASE f \in {<<Desc(a, p), 1>> : p \in {q \in Pub : desc[<<a, q>>] # "absent"}}
  <2>1. PICK p \in Pub : f = <<Desc(a, p), 1>>
    BY <1>7
  <2>2. f[1] = Desc(a, p) /\ f[2] = 1
    BY <2>1
  <2> QED
    BY <2>2 DEF SizeAt, SizeOf, Desc
<1>8. CASE f = <<Log(a), log[a]>>
  BY <1>4, <1>8 DEF SizeAt, SizeOf, Log
<1>9. CASE f = <<Input(a), input[a]>>
  BY <1>4, <1>9 DEF SizeAt, SizeOf, Input
<1> QED
  BY <1>2, <1>5, <1>6, <1>7, <1>8, <1>9

\* account_existing only adds.
LEMMA AccountedFacts ==
    ASSUME PublisherTypes
    PROVE  /\ LedgerLike(Accounted)
           /\ DOMAIN ledger \subseteq DOMAIN Accounted
           /\ \A path : At(ledger, path) =< At(Accounted, path)
<1> DEFINE seen == {f \in OnDisk : f[2] > 0 \/ f[1] \in DOMAIN ledger}
<1> DEFINE sizes(path) == {f[2] : f \in {g \in seen : g[1] = path}}
<1>0. LedgerLike(ledger)
  BY DEF PublisherTypes, LedgerTypes, LedgerLike
<1>1. ASSUME NEW path
      PROVE  sizes(path) = {} \/ \E n \in Nat : sizes(path) = {n}
  BY OneFileEach
<1>2. /\ DOMAIN Accounted = DOMAIN ledger \cup {f[1] : f \in seen}
      /\ \A path \in DOMAIN Accounted :
            Accounted[path] = Max({At(ledger, path)} \cup sizes(path))
      /\ Accounted = [path \in DOMAIN Accounted |-> Accounted[path]]
  BY DEF Accounted
<1> HIDE DEF seen, sizes
<1>3. ASSUME NEW path
      PROVE  /\ Max({At(ledger, path)} \cup sizes(path)) \in Nat
             /\ At(ledger, path) =< Max({At(ledger, path)} \cup sizes(path))
  <2>1. At(ledger, path) \in Nat
    BY <1>0, AtNat
  <2>2. CASE sizes(path) = {}
    <3>1. {At(ledger, path)} \cup sizes(path) = {At(ledger, path)}
      BY <2>2
    <3> QED
      BY <2>1, <3>1, MaxOfTwo
  <2>3. ASSUME NEW n \in Nat, sizes(path) = {n} PROVE <1>3!2
    <3>1. {At(ledger, path)} \cup sizes(path) = {At(ledger, path), n}
      BY <2>3
    <3> QED
      BY <2>1, <3>1, MaxOfTwo
  <2> QED
    BY <1>1, <2>2, <2>3
<1>4. LedgerLike(Accounted)
  BY <1>2, <1>3 DEF LedgerLike
<1>5. ASSUME NEW path PROVE At(ledger, path) =< At(Accounted, path)
  <2>1. CASE path \in DOMAIN Accounted
    <3>1. At(Accounted, path) = Max({At(ledger, path)} \cup sizes(path))
      BY <1>2, <2>1 DEF At
    <3> QED
      BY <1>3, <3>1
  <2>2. CASE path \notin DOMAIN Accounted
    <3>1. path \notin DOMAIN ledger
      BY <1>2, <2>2
    <3> QED
      BY <2>2, <3>1 DEF At
  <2> QED
    BY <2>1, <2>2
<1> QED
  BY <1>2, <1>4, <1>5

LEMMA Prefix ==
    ASSUME NEW s \in Seq(Byte), NEW n \in Nat, n =< Len(s)
    PROVE  /\ SubSeq(s, 1, n) \in Seq(Byte) /\ Len(SubSeq(s, 1, n)) = n
           /\ \A i \in 1 .. n : SubSeq(s, 1, n)[i] = s[i]
<1>1. Len(s) \in Nat /\ \A i \in 1 .. n : s[i] \in Byte
  BY LenProperties, ElementOfSeq
<1> QED
  BY <1>1, SubSeqProperties

LEMMA SamePrefix ==
    ASSUME NEW s \in Seq(Byte), NEW t \in Seq(Byte), NEW n \in Nat, n =< Len(s), n =< Len(t),
           \A i \in 1 .. n : s[i] = t[i]
    PROVE  SubSeq(t, 1, n) = SubSeq(s, 1, n)
<1> DEFINE v == SubSeq(s, 1, n)
           w == SubSeq(t, 1, n)
<1>1. v \in Seq(Byte) /\ Len(v) = n /\ \A i \in 1 .. n : v[i] = s[i]
  BY Prefix
<1>2. w \in Seq(Byte) /\ Len(w) = n /\ \A i \in 1 .. n : w[i] = t[i]
  BY Prefix
<1> HIDE DEF v, w
<1>3. v = w
  BY <1>1, <1>2, SeqEqual
<1> QED
  BY <1>3 DEF v, w

LEMMA Joined ==
    ASSUME NEW s \in Seq(Byte), NEW t \in Seq(Byte)
    PROVE  /\ s \o t \in Seq(Byte) /\ Len(s \o t) = Len(s) + Len(t)
           /\ \A i \in 1 .. Len(s) : (s \o t)[i] = s[i]
<1>1. Len(s) \in Nat /\ Len(t) \in Nat
  BY LenProperties
<1> QED
  BY <1>1, ConcatProperties

\* A chunk written at the offset keeps what is before it.
LEMMA Overwritten ==
    ASSUME NEW s \in Seq(Byte), NEW off \in Nat, off =< Len(s), NEW byte \in Byte
    PROVE  LET t == SubSeq(s, 1, off) \o <<byte>> \o SubSeq(s, off + 2, Len(s)) IN
           /\ t \in Seq(Byte)
           /\ Len(t) = IF off < Len(s) THEN Len(s) ELSE off + 1
           /\ SubSeq(t, 1, off) = SubSeq(s, 1, off)
<1> DEFINE h == SubSeq(s, 1, off)
           r == SubSeq(s, off + 2, Len(s))
           b == <<byte>>
           c == h \o b
           t == c \o r
<1>1. Len(s) \in Nat /\ \A i \in 1 .. Len(s) : s[i] \in Byte
  BY LenProperties, ElementOfSeq
<1>2. h \in Seq(Byte) /\ Len(h) = off /\ \A i \in 1..off : h[i] = s[i]
  BY Prefix
<1>3. r \in Seq(Byte) /\ Len(r) = IF off + 2 =< Len(s) THEN Len(s) - off - 1 ELSE 0
  BY <1>1, SubSeqProperties
<1>4. b \in Seq(Byte) /\ Len(b) = 1
  OBVIOUS
<1> HIDE DEF h, r, b
<1>5. c \in Seq(Byte) /\ Len(c) = off + 1 /\ \A i \in 1..off : c[i] = s[i]
  <2>1. c \in Seq(Byte) /\ Len(c) = Len(h) + Len(b) /\ \A i \in 1..Len(h) : c[i] = h[i]
    BY <1>2, <1>4, Joined
  <2> QED
    BY <1>2, <1>4, <2>1
<1> HIDE DEF c
<1>6. t \in Seq(Byte) /\ Len(t) = off + 1 + Len(r) /\ \A i \in 1..off : t[i] = s[i]
  <2>1. t \in Seq(Byte) /\ Len(t) = Len(c) + Len(r) /\ \A i \in 1..Len(c) : t[i] = c[i]
    BY <1>3, <1>5, Joined
  <2> QED
    BY <1>5, <2>1
<1> HIDE DEF t
<1>7. Len(t) = IF off < Len(s) THEN Len(s) ELSE off + 1
  <2>1. CASE off < Len(s)
    <3>1. Len(r) = Len(s) - off - 1
      BY <1>1, <1>3, <2>1
    <3> QED
      BY <1>1, <1>6, <2>1, <3>1
  <2>2. CASE off >= Len(s)
    <3>1. Len(r) = 0
      BY <1>1, <1>3, <2>2
    <3> QED
      BY <1>1, <1>6, <2>2, <3>1
  <2> QED
    BY <1>1, <2>1, <2>2
<1>8. SubSeq(t, 1, off) = SubSeq(s, 1, off)
  <2>1. off =< Len(t)
    BY <1>1, <1>7
  <2> QED
    BY <1>6, <2>1, SamePrefix
<1>9. t = SubSeq(s, 1, off) \o <<byte>> \o SubSeq(s, off + 2, Len(s))
  BY DEF t, c, h, b, r
<1> QED
  BY <1>6, <1>7, <1>8, <1>9

\* A power loss takes the last byte of a file that is not synced.
LEMMA Truncated ==
    ASSUME NEW s \in Seq(Byte), NEW off \in Nat, off < Len(s)
    PROVE  LET t == SubSeq(s, 1, Len(s) - 1) IN
           t \in Seq(Byte) /\ Len(t) = Len(s) - 1 /\ SubSeq(t, 1, off) = SubSeq(s, 1, off)
<1> DEFINE n == Len(s) - 1
           t == SubSeq(s, 1, n)
<1>1. Len(s) \in Nat /\ n \in Nat /\ n =< Len(s) /\ off =< n
  BY LenProperties
<1> HIDE DEF n
<1>2. t \in Seq(Byte) /\ Len(t) = n /\ \A i \in 1 .. n : t[i] = s[i]
  BY <1>1, Prefix
<1> HIDE DEF t
<1>3. SubSeq(t, 1, off) = SubSeq(s, 1, off)
  BY <1>1, <1>2, SamePrefix
<1> QED
  BY <1>2, <1>3 DEF t, n

-----------------------------------------------------------------------------
(* What the step of one publisher leaves of the others, and of its own.    *)
Same(b) ==
    /\ \A u \in Upload : /\ up'[<<b, u>>] = up[<<b, u>>] /\ data'[<<b, u>>] = data[<<b, u>>]
                         /\ link'[<<b, u>>] = link[<<b, u>>] /\ dirty'[<<b, u>>] = dirty[<<b, u>>]
    /\ \A p \in Pub : pub'[<<b, p>>] = pub[<<b, p>>] /\ desc'[<<b, p>>] = desc[<<b, p>>]
    /\ \A k \in Kind : head'[<<b, k>>] = head[<<b, k>>]
    /\ job'[b] = job[b] /\ (b \in open' <=> b \in open)
    /\ log'[b] = log[b] /\ input'[b] = input[b] /\ want'[b] = want[b]
LedgerKept(b) ==
    /\ \A u \in Upload : /\ At(ledger, Stage(b, u)) =< At(ledger', Stage(b, u))
                         /\ At(ledger, Art(b, u)) =< At(ledger', Art(b, u))
    /\ At(ledger, Log(b)) =< At(ledger', Log(b))
    /\ At(ledger, Input(b)) =< At(ledger', Input(b))
    /\ \A p \in Pub : Desc(b, p) \in DOMAIN ledger => Desc(b, p) \in DOMAIN ledger'

HeadsAdvance(a) ==
    \A k \in Kind :
        head'[<<a, k>>] # head[<<a, k>>] =>
            /\ head'[<<a, k>>] # None
            /\ k = "result" => head[<<a, k>>] = None
            /\ HeadSequence(a, k) < pub'[<<a, head'[<<a, k>>]>>].seq
AnsweredKept(a) ==
    \A u \in Upload :
        /\ up[<<a, u>>].off =< Len(data'[<<a, u>>])
        /\ SubSeq(data'[<<a, u>>], 1, up[<<a, u>>].off) = SubSeq(data[<<a, u>>], 1, up[<<a, u>>].off)
        /\ up'[<<a, u>>].state = "sealed" => data'[<<a, u>>] = up'[<<a, u>>].sum
CommittedKept(a) ==
    \A p \in Pub : pub[<<a, p>>].state = "committed" => pub'[<<a, p>>] = pub[<<a, p>>]
SpoolKept(a) ==
    /\ Linked(a) => Linked(a)'
    /\ UploadsCharged(a) => UploadsCharged(a)'

(* A step of the publisher of a.                                           *)
Serves(a) ==
    /\ PublisherTypes' /\ AttemptAt(a)'
    /\ HeadsAdvance(a) /\ AnsweredKept(a) /\ CommittedKept(a) /\ SpoolKept(a)
    /\ \A b \in Attempt \ {a} : Same(b) /\ LedgerKept(b)

LEMMA Facts ==
    ASSUME PublisherInvariant
    PROVE  /\ UploadTypes /\ PubTypes /\ ServiceTypes /\ LedgerTypes /\ PublisherTypes
           /\ LedgerLike(ledger)
           /\ \A a \in Attempt : AttemptAt(a)
BY DEF PublisherInvariant, PublisherTypes, LedgerTypes, LedgerLike

LEMMA LedgerStays ==
    ASSUME LedgerLike(ledger), ledger' = ledger
    PROVE  LedgerTypes' /\ \A b \in Attempt : LedgerKept(b)
<1>1. \A path : At(ledger, path) \in Nat /\ At(ledger', path) = At(ledger, path)
  BY AtNat
<1> QED
  BY <1>1 DEF LedgerKept, LedgerTypes, LedgerLike

\* account_existing on the way.
LEMMA LedgerAccounted ==
    ASSUME PublisherTypes, ledger' = Accounted
    PROVE  LedgerTypes' /\ \A b \in Attempt : LedgerKept(b)
BY AccountedFacts DEF LedgerKept, LedgerTypes, LedgerLike

LEMMA RestKept ==
    ASSUME PublisherInvariant, NEW b \in Attempt, Same(b), LedgerKept(b), LedgerTypes'
    PROVE  /\ AttemptAt(b)'
           /\ HeadsAdvance(b) /\ AnsweredKept(b) /\ CommittedKept(b) /\ SpoolKept(b)
<1>0. AttemptAt(b) /\ PublisherTypes /\ LedgerLike(ledger) /\ LedgerLike(ledger)'
  BY Facts DEF LedgerTypes, LedgerLike
<1>1. \A u \in Upload : UploadAt(b, u)'
  BY <1>0 DEF AttemptAt, UploadAt, Same
<1>2. \A p \in Pub : PublicationAt(b, p)'
  <2> SUFFICES ASSUME NEW p \in Pub PROVE PublicationAt(b, p)'
    OBVIOUS
  <2>1. PublicationAt(b, p) /\ pub'[<<b, p>>] = pub[<<b, p>>] /\ desc'[<<b, p>>] = desc[<<b, p>>]
    BY <1>0 DEF AttemptAt, Same
  <2>2. head'[<<b, "result">>] = head[<<b, "result">>]
    BY DEF Same, Kind
  <2>3. \A u \in Upload : up'[<<b, u>>] = up[<<b, u>>]
    BY DEF Same
  <2>4. pub[<<b, p>>].arts \subseteq Upload
    BY <1>0 DEF PublisherTypes, PubTypes, PubRow
  <2> QED
    BY <2>1, <2>2, <2>3, <2>4 DEF PublicationAt
<1>3. \A k \in Kind : HeadAt(b, k)'
  <2> SUFFICES ASSUME NEW k \in Kind PROVE HeadAt(b, k)'
    OBVIOUS
  <2>1. HeadAt(b, k) /\ head'[<<b, k>>] = head[<<b, k>>] /\ head[<<b, k>>] \in Pub \cup {None}
    BY <1>0 DEF AttemptAt, Same, PublisherTypes, PubTypes
  <2> QED
    BY <2>1 DEF HeadAt, Same
<1>4. UndecidedAt(b)' /\ Newest(b)'
  <2>1. \A p \in Pub : pub'[<<b, p>>] = pub[<<b, p>>]
    BY DEF Same
  <2>2. UnresolvedOf(b)' = UnresolvedOf(b)
    BY <2>1 DEF UnresolvedOf
  <2>3. UndecidedAt(b)'
    BY <1>0, <2>1, <2>2 DEF AttemptAt, UndecidedAt, UnresolvedOf
  <2>4. {pub'[<<b, p>>].seq : p \in Pub} = {pub[<<b, p>>].seq : p \in Pub}
    BY <2>1
  <2> QED
    BY <1>0, <2>1, <2>3, <2>4 DEF AttemptAt, Newest
<1>5. JobAt(b)'
  <2>1. JobAt(b) /\ job'[b] = job[b] /\ (b \in open' <=> b \in open) /\ job[b] \in Jobs
    BY <1>0 DEF AttemptAt, Same, PublisherTypes, ServiceTypes
  <2>2. job[b].op \in {"create", "chunk", "linked", "unlinked"} => job[b].x \in Upload
    BY <2>1 DEF Jobs, Idle
  <2>3. job[b].op \in {"desc", "head"} => job[b].x \in Pub
    BY <2>1 DEF Jobs, Idle
  <2> QED
    BY <2>1, <2>2, <2>3 DEF JobAt, Same
<1>6. ChargeAt(b)'
  <2>1. /\ log[b] \in Nat /\ want[b] \in Nat /\ input[b] \in Nat
        /\ At(ledger, Log(b)) \in Nat /\ At(ledger', Log(b)) \in Nat
        /\ At(ledger, Input(b)) \in Nat /\ At(ledger', Input(b)) \in Nat
    BY <1>0, AtNat DEF PublisherTypes, ServiceTypes
  <2>2. log'[b] + want'[b] =< At(ledger', Log(b)) /\ input'[b] =< At(ledger', Input(b))
    <3>1. log'[b] = log[b] /\ want'[b] = want[b] /\ input'[b] = input[b]
      BY DEF Same
    <3>2. log[b] + want[b] =< At(ledger, Log(b)) /\ input[b] =< At(ledger, Input(b))
      BY <1>0 DEF AttemptAt, ChargeAt
    <3>3. /\ At(ledger, Log(b)) =< At(ledger', Log(b))
          /\ At(ledger, Input(b)) =< At(ledger', Input(b))
      BY DEF LedgerKept
    <3> QED
      BY <2>1, <3>1, <3>2, <3>3
  <2> QED
    BY <1>0, <2>2 DEF AttemptAt, ChargeAt, Same, LedgerKept
<1>7. HeadsAdvance(b) /\ CommittedKept(b)
  BY DEF HeadsAdvance, CommittedKept, Same
<1>8. AnsweredKept(b)
  BY <1>0 DEF AnsweredKept, Same, AttemptAt, UploadAt
<1>9. SpoolKept(b)
  <2>1. Linked(b) => Linked(b)'
    BY DEF Linked, Same
  <2>2. ASSUME UploadsCharged(b) PROVE UploadsCharged(b)'
    <3> SUFFICES ASSUME NEW u \in Upload
                 PROVE  /\ up'[<<b, u>>].state = "open" => Size =< At(ledger', Stage(b, u))
                        /\ up'[<<b, u>>].state = "sealed" => Size =< At(ledger', Art(b, u))
      BY DEF UploadsCharged
    <3>1. /\ At(ledger, Stage(b, u)) \in Nat /\ At(ledger', Stage(b, u)) \in Nat
          /\ At(ledger, Art(b, u)) \in Nat /\ At(ledger', Art(b, u)) \in Nat
      BY <1>0, AtNat
    <3>2. Size \in Nat
      BY DeliveryAssumption DEF PublicationConstants
    <3>3. up'[<<b, u>>] = up[<<b, u>>]
      BY DEF Same
    <3>4. /\ At(ledger, Stage(b, u)) =< At(ledger', Stage(b, u))
          /\ At(ledger, Art(b, u)) =< At(ledger', Art(b, u))
      BY DEF LedgerKept
    <3>5. /\ up[<<b, u>>].state = "open" => Size =< At(ledger, Stage(b, u))
          /\ up[<<b, u>>].state = "sealed" => Size =< At(ledger, Art(b, u))
      BY <2>2 DEF UploadsCharged
    <3>6. /\ Size =< At(ledger, Stage(b, u)) => Size =< At(ledger', Stage(b, u))
          /\ Size =< At(ledger, Art(b, u)) => Size =< At(ledger', Art(b, u))
      BY <3>1, <3>2, <3>4
    <3> QED
      BY <3>3, <3>5, <3>6
  <2> QED
    BY <2>1, <2>2 DEF SpoolKept
<1> QED
  BY <1>1, <1>2, <1>3, <1>4, <1>5, <1>6, <1>7, <1>8, <1>9 DEF AttemptAt

LEMMA ServesKeeps ==
    ASSUME PublisherInvariant, NEW a \in Attempt, Serves(a)
    PROVE  /\ PublisherInvariant'
           /\ \A b \in Attempt :
                 HeadsAdvance(b) /\ AnsweredKept(b) /\ CommittedKept(b) /\ SpoolKept(b)
<1>1. LedgerTypes'
  BY DEF Serves, PublisherTypes
<1>2. ASSUME NEW b \in Attempt
      PROVE  /\ AttemptAt(b)'
             /\ HeadsAdvance(b) /\ AnsweredKept(b) /\ CommittedKept(b) /\ SpoolKept(b)
  <2>1. CASE b = a
    BY <2>1 DEF Serves
  <2>2. CASE b # a
    BY <1>1, <2>2, RestKept DEF Serves
  <2> QED
    BY <2>1, <2>2
<1> QED
  BY <1>2 DEF Serves, PublisherInvariant

-----------------------------------------------------------------------------
(* Uploads.                                                                *)
LEMMA PathsDiffer ==
    ASSUME NEW a, NEW b, NEW x, NEW y
    PROVE  /\ Stage(a, x) = Stage(b, y) => a = b /\ x = y
           /\ Art(a, x) = Art(b, y) => a = b /\ x = y
           /\ Desc(a, x) = Desc(b, y) => a = b /\ x = y
           /\ Log(a) = Log(b) => a = b
           /\ Input(a) = Input(b) => a = b
           /\ Stage(a, x) \notin {Art(b, y), Desc(b, y), Log(b), Input(b)}
           /\ Art(a, x) \notin {Desc(b, y), Log(b), Input(b)}
           /\ Desc(a, x) \notin {Log(b), Input(b)}
           /\ Log(a) # Input(b)
BY DEF Stage, Art, Desc, Log, Input

LEMMA LessThrough == \A x, y, z \in Nat : x =< y /\ y =< z => x =< z
OBVIOUS

\* A charge that grows at one path keeps what everybody has.
LEMMA ChargeKeeps ==
    ASSUME LedgerLike(ledger), NEW path, NEW n \in Nat, At(ledger, path) =< n,
           ledger' = Charge(ledger, path, n)
    PROVE  LedgerTypes' /\ \A b \in Attempt : LedgerKept(b)
<1>0. /\ LedgerLike(ledger') /\ DOMAIN ledger' = DOMAIN ledger \cup {path}
      /\ At(ledger', path) = n
      /\ \A x : x # path => At(ledger', x) = At(ledger, x)
  BY DEF LedgerLike, Charge, At
<1>1. ASSUME NEW x PROVE At(ledger, x) \in Nat /\ At(ledger, x) =< At(ledger', x)
  <2>1. At(ledger, x) \in Nat
    BY AtNat
  <2>2. CASE x = path
    BY <1>0, <2>1, <2>2
  <2>3. CASE x # path
    BY <1>0, <2>1, <2>3
  <2> QED
    BY <2>1, <2>2, <2>3
<1>2. LedgerTypes' /\ DOMAIN ledger \subseteq DOMAIN ledger'
  BY <1>0 DEF LedgerTypes, LedgerLike
<1> QED
  BY <1>1, <1>2 DEF LedgerKept

LEMMA ChargesStay ==
    ASSUME PublisherInvariant, NEW a \in Attempt, LedgerKept(a), LedgerTypes',
           log'[a] = log[a], input'[a] = input[a], want'[a] = want[a],
           \A p \in Pub : desc'[<<a, p>>] # "absent" \/ pub'[<<a, p>>].state \in Unresolved
                => desc[<<a, p>>] # "absent" \/ pub[<<a, p>>].state \in Unresolved
                   \/ Desc(a, p) \in DOMAIN ledger'
    PROVE  ChargeAt(a)'
<1>0. AttemptAt(a) /\ PublisherTypes /\ LedgerLike(ledger) /\ LedgerLike(ledger)'
  BY Facts DEF LedgerTypes, LedgerLike
<1>1. /\ log[a] \in Nat /\ want[a] \in Nat /\ input[a] \in Nat
      /\ At(ledger, Log(a)) \in Nat /\ At(ledger', Log(a)) \in Nat
      /\ At(ledger, Input(a)) \in Nat /\ At(ledger', Input(a)) \in Nat
  BY <1>0, AtNat DEF PublisherTypes, ServiceTypes
<1>2. log[a] + want[a] =< At(ledger, Log(a)) /\ input[a] =< At(ledger, Input(a))
  BY <1>0 DEF AttemptAt, ChargeAt
<1>3. At(ledger, Log(a)) =< At(ledger', Log(a)) /\ At(ledger, Input(a)) =< At(ledger', Input(a))
  BY DEF LedgerKept
<1>4. log'[a] + want'[a] =< At(ledger', Log(a)) /\ input'[a] =< At(ledger', Input(a))
  <2>1. log[a] + want[a] \in Nat
    BY <1>1
  <2> QED
    BY <1>1, <1>2, <1>3, <2>1, LessThrough
<1>5. \A p \in Pub : desc'[<<a, p>>] # "absent" \/ pub'[<<a, p>>].state \in Unresolved
                        => Desc(a, p) \in DOMAIN ledger'
  BY <1>0 DEF AttemptAt, ChargeAt, LedgerKept
<1> QED
  BY <1>4, <1>5 DEF ChargeAt

\* Uploads stay charged when the ledger only grows and no upload is new.
LEMMA UploadsStayCharged ==
    ASSUME LedgerLike(ledger), LedgerTypes', NEW a \in Attempt, LedgerKept(a),
           \A u \in Upload : up'[<<a, u>>].state = up[<<a, u>>].state,
           UploadsCharged(a)
    PROVE  UploadsCharged(a)'
<1> SUFFICES ASSUME NEW u \in Upload
             PROVE  /\ up'[<<a, u>>].state = "open" => Size =< At(ledger', Stage(a, u))
                    /\ up'[<<a, u>>].state = "sealed" => Size =< At(ledger', Art(a, u))
  BY DEF UploadsCharged
<1>1. /\ At(ledger, Stage(a, u)) \in Nat /\ At(ledger', Stage(a, u)) \in Nat
      /\ At(ledger, Art(a, u)) \in Nat /\ At(ledger', Art(a, u)) \in Nat
      /\ Size \in Nat
  BY AtNat, DeliveryAssumption DEF PublicationConstants, LedgerTypes, LedgerLike
<1>2. /\ At(ledger, Stage(a, u)) =< At(ledger', Stage(a, u))
      /\ At(ledger, Art(a, u)) =< At(ledger', Art(a, u))
  BY DEF LedgerKept
<1>3. /\ Size =< At(ledger, Stage(a, u)) => Size =< At(ledger', Stage(a, u))
      /\ Size =< At(ledger, Art(a, u)) => Size =< At(ledger', Art(a, u))
  BY <1>1, <1>2, LessThrough
<1> QED
  BY <1>3 DEF UploadsCharged

\* What a step that leaves publications alone keeps of them.
LEMMA PublicationsRest ==
    ASSUME PublisherInvariant, NEW a \in Attempt, pub' = pub, desc' = desc, head' = head,
           \A u \in Upload : up[<<a, u>>].state = "sealed" => up'[<<a, u>>].state = "sealed"
    PROVE  /\ PubTypes' /\ \A p \in Pub : PublicationAt(a, p)'
           /\ \A k \in Kind : HeadAt(a, k)'
           /\ UndecidedAt(a)' /\ Newest(a)'
           /\ HeadsAdvance(a) /\ CommittedKept(a)
<1>0. AttemptAt(a) /\ PubTypes
  BY Facts
<1>1. PubTypes'
  BY <1>0 DEF PubTypes
<1>2. ASSUME NEW p \in Pub PROVE PublicationAt(a, p)'
  <2>1. PublicationAt(a, p)
    BY <1>0 DEF AttemptAt
  <2>2. pub[<<a, p>>].arts \subseteq Upload
    BY <1>0 DEF PubTypes, PubRow
  <2> QED
    BY <2>1, <2>2 DEF PublicationAt
<1>3. \A k \in Kind : HeadAt(a, k)'
  BY <1>0 DEF AttemptAt, HeadAt
<1>4. UndecidedAt(a)' /\ Newest(a)'
  BY <1>0 DEF AttemptAt, UndecidedAt, UnresolvedOf, Newest
<1> QED
  BY <1>1, <1>2, <1>3, <1>4 DEF HeadsAdvance, CommittedKept

Writes(a, u) ==
    /\ UploadTypes'
    /\ \A b \in Attempt, v \in Upload : b # a \/ v # u =>
           /\ up'[<<b, v>>] = up[<<b, v>>] /\ data'[<<b, v>>] = data[<<b, v>>]
           /\ link'[<<b, v>>] = link[<<b, v>>] /\ dirty'[<<b, v>>] = dirty[<<b, v>>]
KeepsBytes(a, u) ==
    /\ up[<<a, u>>].off =< Len(data'[<<a, u>>])
    /\ SubSeq(data'[<<a, u>>], 1, up[<<a, u>>].off) = SubSeq(data[<<a, u>>], 1, up[<<a, u>>].off)
    /\ up[<<a, u>>].state = "sealed" =>
           up'[<<a, u>>].state = "sealed" /\ ("art" \in link[<<a, u>>] => "art" \in link'[<<a, u>>])
    /\ up'[<<a, u>>].state = "sealed" /\ up[<<a, u>>].state # "sealed" => "art" \in link'[<<a, u>>]

LEMMA UploadStep ==
    ASSUME PublisherInvariant, NEW a \in Attempt, NEW u \in Upload, Writes(a, u), UploadAt(a, u)',
           KeepsBytes(a, u),
           pub' = pub, desc' = desc, head' = head, open' = open,
           log' = log, input' = input, want' = want,
           NEW j \in Jobs, job' = [job EXCEPT ![a] = j], JobAt(a)',
           LedgerTypes', \A b \in Attempt \ {a} : LedgerKept(b), ChargeAt(a)',
           UploadsCharged(a) => UploadsCharged(a)'
    PROVE  Serves(a)
<1>0. AttemptAt(a) /\ UploadTypes /\ PubTypes /\ ServiceTypes
  BY Facts
<1>1. \A v \in Upload : UploadAt(a, v)'
  <2>1. \A v \in Upload : v # u => UploadAt(a, v)'
    BY <1>0 DEF AttemptAt, UploadAt, Writes
  <2> QED
    BY <2>1
<1>2. \A v \in Upload : up[<<a, v>>].state = "sealed" => up'[<<a, v>>].state = "sealed"
  BY DEF Writes, KeepsBytes
<1>3. /\ PubTypes' /\ \A p \in Pub : PublicationAt(a, p)'
      /\ \A k \in Kind : HeadAt(a, k)'
      /\ UndecidedAt(a)' /\ Newest(a)'
      /\ HeadsAdvance(a) /\ CommittedKept(a)
  BY <1>2, PublicationsRest
<1>4. ServiceTypes'
  BY <1>0 DEF ServiceTypes
<1>5. AnsweredKept(a)
  <2>1. ASSUME NEW v \in Upload, v # u
        PROVE  /\ up[<<a, v>>].off =< Len(data'[<<a, v>>])
               /\ SubSeq(data'[<<a, v>>], 1, up[<<a, v>>].off) = SubSeq(data[<<a, v>>], 1, up[<<a, v>>].off)
               /\ up'[<<a, v>>].state = "sealed" => data'[<<a, v>>] = up'[<<a, v>>].sum
    BY <1>0, <2>1 DEF AttemptAt, UploadAt, Writes
  <2>2. up'[<<a, u>>].state = "sealed" => data'[<<a, u>>] = up'[<<a, u>>].sum
    BY DEF UploadAt
  <2> QED
    BY <2>1, <2>2 DEF AnsweredKept, KeepsBytes
<1>6. Linked(a) => Linked(a)'
  <2>1. \A v \in Upload \ {u} : up'[<<a, v>>] = up[<<a, v>>] /\ link'[<<a, v>>] = link[<<a, v>>]
    BY DEF Writes
  <2>2. (up[<<a, u>>].state = "sealed" => "art" \in link[<<a, u>>])
          => (up'[<<a, u>>].state = "sealed" => "art" \in link'[<<a, u>>])
    BY DEF KeepsBytes
  <2>3. ASSUME Linked(a), NEW v \in Upload, up'[<<a, v>>].state = "sealed"
        PROVE  "art" \in link'[<<a, v>>]
    <3>1. CASE v = u
      BY <2>2, <2>3, <3>1 DEF Linked
    <3>2. CASE v # u
      BY <2>1, <2>3, <3>2 DEF Linked
    <3> QED
      BY <3>1, <3>2
  <2> QED
    BY <2>3 DEF Linked
<1>7. \A b \in Attempt \ {a} : Same(b)
  BY <1>0 DEF Same, Writes, ServiceTypes
<1> QED
  BY <1>1, <1>3, <1>4, <1>5, <1>6, <1>7 DEF Serves, PublisherTypes, Writes, AttemptAt, SpoolKept

\* artifact_begin.
LEMMA BeginServes ==
    ASSUME PublisherInvariant, NEW a \in Attempt, NEW u \in Upload, Begin(a, u)
    PROVE  Serves(a)
<1> DEFINE j == [op |-> "create", x |-> u]
<1>0. /\ AttemptAt(a) /\ UploadTypes /\ PubTypes /\ ServiceTypes /\ LedgerLike(ledger)
      /\ Size \in Nat
  BY Facts, DeliveryAssumption DEF PublicationConstants
<1>1. /\ a \in open /\ job' = [job EXCEPT ![a] = j]
      /\ up[<<a, u>>].state = "none" /\ Stage(a, u) \notin DOMAIN ledger
      /\ ledger' = Charge(ledger, Stage(a, u), Size)
      /\ up' = [up EXCEPT ![<<a, u>>] = [NoUpload EXCEPT !.state = "open"]]
      /\ pub' = pub /\ desc' = desc /\ head' = head /\ open' = open
      /\ data' = data /\ link' = link /\ dirty' = dirty
      /\ log' = log /\ input' = input /\ want' = want
  BY DEF Begin, Free, Continue, files
<1>2. UploadAt(a, u) /\ j \in Jobs
  BY <1>0 DEF AttemptAt, Jobs
<1>3. up'[<<a, u>>] = [state |-> "open", off |-> 0, sum |-> <<>>]
  BY <1>0, <1>1 DEF UploadTypes, NoUpload
<1>4. Writes(a, u)
  <2>1. <<>> \in Seq(Byte)
    OBVIOUS
  <2>2. [state |-> "open", off |-> 0, sum |-> <<>>] \in UploadRow
    BY <2>1 DEF UploadRow
  <2>3. up' \in [Attempt \X Upload -> UploadRow]
    BY <1>0, <1>1, <2>2 DEF UploadTypes, NoUpload
  <2> QED
    BY <1>0, <1>1, <2>3 DEF Writes, UploadTypes
<1>5. UploadAt(a, u)'
  BY <1>1, <1>2, <1>3 DEF UploadAt
<1>6. KeepsBytes(a, u)
  BY <1>1, <1>2, <1>3 DEF UploadAt, KeepsBytes
<1>7. At(ledger, Stage(a, u)) = 0
  BY <1>1 DEF At
<1>8. LedgerTypes' /\ \A b \in Attempt : LedgerKept(b)
  BY <1>0, <1>1, <1>7, ChargeKeeps
<1>9. ChargeAt(a)'
  BY <1>1, <1>8, ChargesStay
<1>10. JobAt(a)'
  <2>1. job'[a] = j
    BY <1>0, <1>1 DEF ServiceTypes
  <2> QED
    BY <1>1, <1>2, <1>3, <2>1 DEF JobAt, UploadAt
<1>11. UploadsCharged(a) => UploadsCharged(a)'
  <2> SUFFICES ASSUME UploadsCharged(a), NEW v \in Upload
               PROVE  /\ up'[<<a, v>>].state = "open" => Size =< At(ledger', Stage(a, v))
                      /\ up'[<<a, v>>].state = "sealed" => Size =< At(ledger', Art(a, v))
    BY DEF UploadsCharged
  <2>1. CASE v = u
    <3>1. At(ledger', Stage(a, u)) = Size
      BY <1>1 DEF Charge, At
    <3> QED
      BY <1>0, <1>3, <2>1, <3>1
  <2>2. CASE v # u
    <3>1. up'[<<a, v>>] = up[<<a, v>>]
      BY <1>4, <2>2 DEF Writes
    <3>2. /\ At(ledger, Stage(a, v)) \in Nat /\ At(ledger', Stage(a, v)) \in Nat
          /\ At(ledger, Art(a, v)) \in Nat /\ At(ledger', Art(a, v)) \in Nat
      BY <1>0, <1>8, AtNat DEF LedgerTypes, LedgerLike
    <3> QED
      BY <1>0, <1>8, <3>1, <3>2, LessThrough DEF UploadsCharged, LedgerKept
  <2> QED
    BY <2>1, <2>2
<1> HIDE DEF j
<1> QED
  BY <1>1, <1>2, <1>4, <1>5, <1>6, <1>8, <1>9, <1>10, <1>11, UploadStep

\* The steps that leave rows alone and the ledger as it is.
LEMMA FileStep ==
    ASSUME PublisherInvariant, NEW a \in Attempt, NEW u \in Upload, Writes(a, u), UploadAt(a, u)',
           KeepsBytes(a, u), up'[<<a, u>>].state = up[<<a, u>>].state,
           UNCHANGED <<pub, desc, head, open, ledger, log, input, want>>,
           NEW j \in Jobs, job' = [job EXCEPT ![a] = j], JobAt(a)'
    PROVE  Serves(a)
<1>1. LedgerLike(ledger)
  BY Facts
<1>2. LedgerTypes' /\ \A b \in Attempt : LedgerKept(b)
  BY <1>1, LedgerStays
<1>3. ChargeAt(a)'
  BY <1>2, ChargesStay
<1>4. UploadsCharged(a) => UploadsCharged(a)'
  <2>1. \A v \in Upload : up'[<<a, v>>].state = up[<<a, v>>].state
    BY DEF Writes
  <2> QED
    BY <1>1, <1>2, <2>1, UploadsStayCharged
<1> QED
  BY <1>2, <1>3, <1>4, UploadStep

LEMMA JobTypes ==
    ASSUME PublisherInvariant, NEW a \in Attempt
    PROVE  /\ job[a] \in Jobs /\ Idle \in Jobs
           /\ job[a].op \in {"create", "chunk", "linked", "unlinked"} => job[a].x \in Upload
           /\ job[a].op \in {"linked", "unlinked"} => job[a].sum \in Seq(Byte)
           /\ job[a].op \in {"desc", "head"} => job[a].x \in Pub
           /\ job[a].op \in {"create", "chunk"} => job[a] = [op |-> job[a].op, x |-> job[a].x]
           /\ job[a].op \in {"linked", "unlinked"} =>
                  job[a] = [op |-> job[a].op, x |-> job[a].x, sum |-> job[a].sum]
           /\ job[a].op \in {"desc", "head"} => job[a] = [op |-> job[a].op, x |-> job[a].x]
<1>1. job[a] \in Jobs
  BY Facts DEF ServiceTypes
<1> QED
  BY <1>1 DEF Jobs, Idle

LEMMA BeginAgainServes ==
    ASSUME PublisherInvariant, NEW a \in Attempt, NEW u \in Upload, BeginAgain(a, u)
    PROVE  Serves(a)
<1> DEFINE j == [op |-> "create", x |-> u]
<1>0. AttemptAt(a) /\ UploadTypes /\ ServiceTypes
  BY Facts
<1>1. /\ a \in open /\ job' = [job EXCEPT ![a] = j]
      /\ up[<<a, u>>].state = "open" /\ link[<<a, u>>] = {}
      /\ UNCHANGED <<up, data, link, dirty>>
      /\ UNCHANGED <<pub, desc, head, open, ledger, log, input, want>>
  BY DEF BeginAgain, Free, Continue, files, rows
<1>2. UploadAt(a, u) /\ j \in Jobs
  BY <1>0 DEF AttemptAt, Jobs
<1>3. Writes(a, u) /\ UploadAt(a, u)' /\ KeepsBytes(a, u)
  BY <1>0, <1>1, <1>2 DEF Writes, UploadTypes, UploadAt, KeepsBytes
<1>4. JobAt(a)'
  <2>1. job'[a] = j
    BY <1>0, <1>1 DEF ServiceTypes
  <2> QED
    BY <1>1, <2>1 DEF JobAt
<1> HIDE DEF j
<1> QED
  BY <1>1, <1>2, <1>3, <1>4, FileStep

LEMMA CreateStageServes ==
    ASSUME PublisherInvariant, NEW a \in Attempt, CreateStage(a)
    PROVE  Serves(a)
<1>0. AttemptAt(a) /\ UploadTypes /\ ServiceTypes
  BY Facts
<1>a. job[a].op = "create"
  BY DEF CreateStage, Serving
<1>b. PICK u \in Upload : u = job[a].x
  BY <1>a, JobTypes
<1>1. /\ a \in open /\ job[a].op = "create" /\ job' = [job EXCEPT ![a] = Idle]
      /\ link' = [link EXCEPT ![<<a, u>>] = {"stage"}] \/ link' = link
      /\ UNCHANGED <<up, data, dirty>>
      /\ UNCHANGED <<pub, desc, head, open, ledger, log, input, want>>
  BY <1>b DEF CreateStage, Serving, Answered, rows
<1>2. u \in Upload /\ Idle \in Jobs
  BY <1>1, JobTypes
<1>3. UploadAt(a, u) /\ up[<<a, u>>].state = "open"
  BY <1>0, <1>1, <1>b DEF AttemptAt, JobAt
<1>4. Writes(a, u)
  <2>1. link' \in [Attempt \X Upload -> SUBSET {"stage", "art"}]
    BY <1>0, <1>1, <1>2, ZenonT(40) DEF UploadTypes
  <2> QED
    BY <1>0, <1>1, <1>2, <2>1 DEF Writes, UploadTypes
<1>5. UploadAt(a, u)' /\ KeepsBytes(a, u)
  BY <1>0, <1>1, <1>2, <1>3 DEF UploadTypes, UploadAt, KeepsBytes
<1>6. JobAt(a)'
  <2>1. job'[a] = Idle
    BY <1>0, <1>1 DEF ServiceTypes
  <2> QED
    BY <1>1, <2>1 DEF JobAt, Idle
<1> QED
  BY <1>1, <1>2, <1>4, <1>5, <1>6, FileStep

\* artifact_chunk.
LEMMA ChunkServes ==
    ASSUME PublisherInvariant, NEW a \in Attempt, NEW u \in Upload, NEW off \in 0..Size,
           NEW byte \in Byte, Chunk(a, u, off, byte)
    PROVE  Serves(a)
<1> DEFINE j == [op |-> "chunk", x |-> u]
           s == data[<<a, u>>]
           t == SubSeq(s, 1, off) \o <<byte>> \o SubSeq(s, off + 2, Len(s))
<1>0. AttemptAt(a) /\ UploadTypes /\ ServiceTypes /\ Size \in Nat
  BY Facts, DeliveryAssumption DEF PublicationConstants
<1>1. /\ a \in open /\ job' = [job EXCEPT ![a] = j]
      /\ up[<<a, u>>].state = "open" /\ up[<<a, u>>].off = off /\ off + 1 =< Size
      /\ data' = [data EXCEPT ![<<a, u>>] = t]
      /\ dirty' = [dirty EXCEPT ![<<a, u>>] = TRUE]
      /\ up' = up /\ link' = link
      /\ UNCHANGED <<pub, desc, head, open, ledger, log, input, want>>
  BY DEF Chunk, Free, Continue, rows
<1>2. UploadAt(a, u) /\ j \in Jobs /\ s \in Seq(Byte) /\ off \in Nat
  BY <1>0 DEF AttemptAt, Jobs, UploadTypes
<1>3. off =< Len(s) /\ Len(s) =< Size /\ Len(s) \in Nat
  BY <1>1, <1>2, LenProperties DEF UploadAt
<1>4. /\ t \in Seq(Byte) /\ Len(t) = IF off < Len(s) THEN Len(s) ELSE off + 1
      /\ SubSeq(t, 1, off) = SubSeq(s, 1, off)
  <2> HIDE DEF s
  <2> QED
    BY <1>2, <1>3, Overwritten
<1> HIDE DEF t
<1>5. off < Len(t) /\ Len(t) =< Size /\ Len(t) \in Nat
  BY <1>0, <1>1, <1>2, <1>3, <1>4
<1>6. data'[<<a, u>>] = t /\ dirty'[<<a, u>>] = TRUE
  BY <1>0, <1>1 DEF UploadTypes
<1>7. Writes(a, u)
  <2>1. data' \in [Attempt \X Upload -> Seq(Byte)]
    BY <1>0, <1>1, <1>4 DEF UploadTypes
  <2>2. dirty' \in [Attempt \X Upload -> BOOLEAN]
    BY <1>0, <1>1 DEF UploadTypes
  <2> QED
    BY <1>0, <1>1, <2>1, <2>2 DEF Writes, UploadTypes
<1>8. UploadAt(a, u)'
  BY <1>1, <1>2, <1>5, <1>6 DEF UploadAt
<1>9. KeepsBytes(a, u)
  <2>1. off =< Len(t)
    BY <1>2, <1>5
  <2> QED
    BY <1>1, <1>4, <1>6, <2>1 DEF KeepsBytes
<1>10. JobAt(a)'
  <2>1. job'[a] = j
    BY <1>0, <1>1 DEF ServiceTypes
  <2> QED
    BY <1>1, <1>5, <1>6, <2>1 DEF JobAt
<1> HIDE DEF j, s
<1> QED
  BY <1>1, <1>2, <1>7, <1>8, <1>9, <1>10, FileStep

LEMMA LongerRow ==
    ASSUME NEW r \in UploadRow
    PROVE  [r EXCEPT !.off = @ + 1] \in UploadRow
BY DEF UploadRow

LEMMA ChunkRowServes ==
    ASSUME PublisherInvariant, NEW a \in Attempt, ChunkRow(a)
    PROVE  Serves(a)
<1>0. AttemptAt(a) /\ UploadTypes /\ ServiceTypes
  BY Facts
<1>a. job[a].op = "chunk"
  BY DEF ChunkRow, Serving
<1>b. PICK u \in Upload : u = job[a].x
  BY <1>a, JobTypes
<1>1. /\ a \in open /\ job[a].op = "chunk" /\ job' = [job EXCEPT ![a] = Idle]
      /\ dirty' = [dirty EXCEPT ![<<a, u>>] = FALSE]
      /\ up' = [up EXCEPT ![<<a, u>>].off = @ + 1]
      /\ UNCHANGED <<link, data>>
      /\ UNCHANGED <<pub, desc, head, open, ledger, log, input, want>>
  BY <1>b DEF ChunkRow, Serving, Answered
<1>2. u \in Upload /\ Idle \in Jobs
  BY <1>1, JobTypes
<1>3. UploadAt(a, u) /\ up[<<a, u>>].state = "open" /\ up[<<a, u>>].off < Len(data[<<a, u>>])
  BY <1>0, <1>1, <1>b DEF AttemptAt, JobAt
<1>4. up[<<a, u>>] \in UploadRow /\ Len(data[<<a, u>>]) \in Nat
  BY <1>0, <1>2, LenProperties DEF UploadTypes
<1>5. /\ up'[<<a, u>>].off = up[<<a, u>>].off + 1 /\ up'[<<a, u>>].state = "open"
      /\ dirty'[<<a, u>>] = FALSE
  BY <1>0, <1>1, <1>2, <1>3, <1>4 DEF UploadTypes, UploadRow
<1>6. Writes(a, u)
  <2>1. dirty' \in [Attempt \X Upload -> BOOLEAN]
    BY <1>0, <1>1, <1>2 DEF UploadTypes
  <2>2. up' \in [Attempt \X Upload -> UploadRow]
    <3>1. [up[<<a, u>>] EXCEPT !.off = @ + 1] \in UploadRow
      BY <1>4, LongerRow
    <3> QED
      BY <1>0, <1>1, <1>2, <3>1 DEF UploadTypes
  <2> QED
    BY <1>0, <1>1, <1>2, <2>1, <2>2 DEF Writes, UploadTypes
<1>7. UploadAt(a, u)'
  BY <1>1, <1>3, <1>4, <1>5 DEF UploadAt, UploadRow
<1>8. KeepsBytes(a, u)
  BY <1>1, <1>3, <1>4, <1>5 DEF KeepsBytes, UploadAt, UploadRow
<1>9. JobAt(a)'
  <2>1. job'[a] = Idle
    BY <1>0, <1>1 DEF ServiceTypes
  <2> QED
    BY <1>1, <2>1 DEF JobAt, Idle
<1>10. up'[<<a, u>>].state = up[<<a, u>>].state
  BY <1>3, <1>5
<1> QED
  BY <1>1, <1>2, <1>6, <1>7, <1>8, <1>9, <1>10, FileStep

\* artifact_finish.
LEMMA SealLinkServes ==
    ASSUME PublisherInvariant, NEW a \in Attempt, NEW u \in Upload, SealLink(a, u)
    PROVE  Serves(a)
<1>0. AttemptAt(a) /\ UploadTypes /\ ServiceTypes
  BY Facts
<1>s. PICK s \in Seq(Byte) : s = data[<<a, u>>]
  BY <1>0 DEF UploadTypes
<1> DEFINE j == [op |-> "linked", x |-> u, sum |-> s]
<1>1. /\ a \in open /\ job' = [job EXCEPT ![a] = j]
      /\ up[<<a, u>>].state = "open" /\ up[<<a, u>>].off = Size
      /\ link' = [link EXCEPT ![<<a, u>>] = @ \cup {"art"}]
      /\ dirty' = [dirty EXCEPT ![<<a, u>>] = FALSE]
      /\ up' = up /\ data' = data
      /\ UNCHANGED <<pub, desc, head, open, ledger, log, input, want>>
  BY <1>s DEF SealLink, Free, Continue, rows
<1>2. UploadAt(a, u) /\ j \in Jobs
  BY <1>0 DEF AttemptAt, Jobs
<1>3. "art" \in link'[<<a, u>>] /\ dirty'[<<a, u>>] = FALSE
  BY <1>0, <1>1 DEF UploadTypes
<1>4. Writes(a, u)
  <2>1. link' \in [Attempt \X Upload -> SUBSET {"stage", "art"}]
    <3>1. link[<<a, u>>] \cup {"art"} \in SUBSET {"stage", "art"}
      BY <1>0 DEF UploadTypes
    <3> QED
      BY <1>0, <1>1, <3>1 DEF UploadTypes
  <2>2. dirty' \in [Attempt \X Upload -> BOOLEAN]
    BY <1>0, <1>1 DEF UploadTypes
  <2> QED
    BY <1>0, <1>1, <2>1, <2>2 DEF Writes, UploadTypes
<1>5. UploadAt(a, u)' /\ KeepsBytes(a, u)
  BY <1>1, <1>2, <1>3 DEF UploadAt, KeepsBytes
<1>6. JobAt(a)'
  <2>1. job'[a] = j
    BY <1>0, <1>1 DEF ServiceTypes
  <2> QED
    BY <1>s, <1>1, <1>3, <2>1, SMTT(30) DEF JobAt
<1> HIDE DEF j
<1> QED
  BY <1>1, <1>2, <1>4, <1>5, <1>6, FileStep

LEMMA SealUnlinkServes ==
    ASSUME PublisherInvariant, NEW a \in Attempt, SealUnlink(a)
    PROVE  Serves(a)
<1>0. AttemptAt(a) /\ UploadTypes /\ ServiceTypes
  BY Facts
<1>a. job[a].op = "linked"
  BY DEF SealUnlink, Serving
<1>b. PICK u \in Upload, s \in Seq(Byte) : u = job[a].x /\ s = job[a].sum
  BY <1>a, JobTypes
<1>c. job[a] = [op |-> "linked", x |-> u, sum |-> s]
  BY <1>a, <1>b, JobTypes
<1> DEFINE j == [op |-> "unlinked", x |-> u, sum |-> s]
<1>1. /\ a \in open /\ job' = [job EXCEPT ![a] = j]
      /\ link' = [link EXCEPT ![<<a, u>>] = @ \ {"stage"}]
      /\ UNCHANGED <<up, data, dirty>>
      /\ UNCHANGED <<pub, desc, head, open, ledger, log, input, want>>
  <2>1. [job[a] EXCEPT !.op = "unlinked"] = j
    BY <1>c
  <2> QED
    BY <1>b, <2>1 DEF SealUnlink, Serving, Continue, rows
<1>2. UploadAt(a, u) /\ j \in Jobs
  BY <1>0 DEF AttemptAt, Jobs
<1>3. /\ up[<<a, u>>].state = "open" /\ "art" \in link[<<a, u>>] /\ ~dirty[<<a, u>>]
      /\ data[<<a, u>>] = s /\ up[<<a, u>>].off = Size
  BY <1>0, <1>a, <1>b DEF AttemptAt, JobAt
<1>4. "art" \in link'[<<a, u>>]
  BY <1>0, <1>1, <1>3 DEF UploadTypes
<1>5. Writes(a, u)
  <2>1. link' \in [Attempt \X Upload -> SUBSET {"stage", "art"}]
    <3>1. link[<<a, u>>] \ {"stage"} \in SUBSET {"stage", "art"}
      BY <1>0 DEF UploadTypes
    <3> QED
      BY <1>0, <1>1, <3>1 DEF UploadTypes
  <2> QED
    BY <1>0, <1>1, <2>1 DEF Writes, UploadTypes
<1>6. UploadAt(a, u)' /\ KeepsBytes(a, u)
  BY <1>1, <1>2, <1>3, <1>4 DEF UploadAt, KeepsBytes
<1>7. JobAt(a)'
  <2>1. job'[a] = j
    BY <1>0, <1>1 DEF ServiceTypes
  <2> QED
    BY <1>1, <1>3, <1>4, <2>1 DEF JobAt
<1> HIDE DEF j
<1> QED
  BY <1>1, <1>2, <1>5, <1>6, <1>7, FileStep

LEMMA SealRowServes ==
    ASSUME PublisherInvariant, NEW a \in Attempt, SealRow(a)
    PROVE  Serves(a)
<1>0. /\ AttemptAt(a) /\ UploadTypes /\ ServiceTypes /\ LedgerLike(ledger) /\ Size \in Nat
  BY Facts, DeliveryAssumption DEF PublicationConstants
<1>a. job[a].op = "unlinked"
  BY DEF SealRow, Serving
<1>b. PICK u \in Upload, s \in Seq(Byte) : u = job[a].x /\ s = job[a].sum
  BY <1>a, JobTypes
<1> DEFINE m == Max({At(ledger, Art(a, u)), Size})
<1>1. /\ a \in open /\ job' = [job EXCEPT ![a] = Idle]
      /\ up' = [up EXCEPT ![<<a, u>>].state = "sealed", ![<<a, u>>].sum = s]
      /\ ledger' = Charge(Drop(ledger, {Stage(a, u)}), Art(a, u), m)
      /\ UNCHANGED <<link, data, dirty>>
      /\ UNCHANGED <<pub, desc, head, open, log, input, want>>
  BY <1>b DEF SealRow, Serving, Answered, files
<1>2. UploadAt(a, u) /\ Idle \in Jobs
  BY <1>0, JobTypes DEF AttemptAt
<1>3. /\ up[<<a, u>>].state = "open" /\ "art" \in link[<<a, u>>] /\ ~dirty[<<a, u>>]
      /\ data[<<a, u>>] = s /\ up[<<a, u>>].off = Size
  BY <1>0, <1>a, <1>b DEF AttemptAt, JobAt
<1>4. m \in Nat /\ At(ledger, Art(a, u)) =< m /\ Size =< m
  BY <1>0, AtNat, MaxOfTwo
<1> HIDE DEF m
<1>5. up'[<<a, u>>] = [state |-> "sealed", off |-> Size, sum |-> s]
  BY <1>0, <1>1, <1>3, ZenonT(40) DEF UploadTypes, UploadRow
<1>6. Writes(a, u)
  <2>1. [state |-> "sealed", off |-> Size, sum |-> s] \in UploadRow
    BY <1>0 DEF UploadRow
  <2>2. \A b \in Attempt, v \in Upload : b # a \/ v # u => up'[<<b, v>>] = up[<<b, v>>]
    BY <1>0, <1>1 DEF UploadTypes
  <2>3. up' \in [Attempt \X Upload -> UploadRow]
    <3>1. DOMAIN up' = Attempt \X Upload /\ up' = [b \in DOMAIN up' |-> up'[b]]
      BY <1>0, <1>1 DEF UploadTypes
    <3>2. \A b \in Attempt, v \in Upload : up'[<<b, v>>] \in UploadRow
      BY <1>0, <1>5, <2>1, <2>2 DEF UploadTypes
    <3> QED
      BY <3>1, <3>2
  <2> QED
    BY <1>0, <1>1, <2>2, <2>3 DEF Writes, UploadTypes
<1>7. UploadAt(a, u)'
  BY <1>0, <1>1, <1>2, <1>3, <1>5 DEF UploadAt
<1>8. KeepsBytes(a, u)
  BY <1>1, <1>2, <1>3, <1>5 DEF KeepsBytes, UploadAt
<1>9. JobAt(a)'
  <2>1. job'[a] = Idle
    BY <1>0, <1>1 DEF ServiceTypes
  <2> QED
    BY <1>1, <2>1 DEF JobAt, Idle
<1>10. /\ LedgerLike(ledger')
       /\ DOMAIN ledger' = (DOMAIN ledger \ {Stage(a, u)}) \cup {Art(a, u)}
       /\ At(ledger', Art(a, u)) = m
  BY <1>0, <1>1, <1>4 DEF LedgerLike, Charge, Drop, Restrict, At
<1>11. \A path : path # Stage(a, u) /\ path # Art(a, u) => At(ledger', path) = At(ledger, path)
  BY <1>1 DEF Charge, Drop, Restrict, At
<1>12. LedgerTypes'
  BY <1>10 DEF LedgerTypes, LedgerLike
<1>13. ASSUME NEW path, path # Stage(a, u)
       PROVE  /\ At(ledger, path) \in Nat /\ At(ledger', path) \in Nat
              /\ At(ledger, path) =< At(ledger', path)
              /\ path \in DOMAIN ledger => path \in DOMAIN ledger'
  <2>1. At(ledger, path) \in Nat
    BY <1>0, AtNat
  <2>2. CASE path = Art(a, u)
    BY <1>4, <1>10, <2>1, <2>2
  <2>3. CASE path # Art(a, u)
    BY <1>10, <1>11, <1>13, <2>1, <2>3
  <2> QED
    BY <2>2, <2>3
<1>14. \A b \in Attempt \ {a} : LedgerKept(b)
  <2> SUFFICES ASSUME NEW b \in Attempt \ {a} PROVE LedgerKept(b)
    OBVIOUS
  <2>1. ASSUME NEW x
        PROVE  Stage(a, u) \notin {Stage(b, x), Art(b, x), Log(b), Input(b), Desc(b, x)}
    BY PathsDiffer
  <2> QED
    BY <1>13, <2>1 DEF LedgerKept
<1>15. ChargeAt(a)'
  <2>1. \A p : Log(a) # Stage(a, u) /\ Input(a) # Stage(a, u) /\ Desc(a, p) # Stage(a, u)
    BY PathsDiffer
  <2>2. /\ At(ledger', Log(a)) \in Nat /\ At(ledger, Log(a)) =< At(ledger', Log(a))
        /\ At(ledger', Input(a)) \in Nat /\ At(ledger, Input(a)) =< At(ledger', Input(a))
        /\ \A p \in Pub : Desc(a, p) \in DOMAIN ledger => Desc(a, p) \in DOMAIN ledger'
    BY <1>13, <2>1
  <2>3. /\ At(ledger, Log(a)) \in Nat /\ At(ledger, Input(a)) \in Nat
        /\ log[a] + want[a] \in Nat /\ input[a] \in Nat
    BY <1>0, AtNat DEF ServiceTypes
  <2>4. ChargeAt(a)
    BY <1>0 DEF AttemptAt
  <2> QED
    BY <1>1, <2>2, <2>3, <2>4, LessThrough DEF ChargeAt
<1>16. UploadsCharged(a) => UploadsCharged(a)'
  <2> SUFFICES ASSUME UploadsCharged(a), NEW v \in Upload
               PROVE  /\ up'[<<a, v>>].state = "open" => Size =< At(ledger', Stage(a, v))
                      /\ up'[<<a, v>>].state = "sealed" => Size =< At(ledger', Art(a, v))
    BY DEF UploadsCharged
  <2>1. CASE v = u
    BY <1>4, <1>5, <1>10, <2>1
  <2>2. CASE v # u
    <3>1. up'[<<a, v>>] = up[<<a, v>>]
      BY <1>6, <2>2 DEF Writes
    <3>2. Stage(a, v) # Stage(a, u) /\ Art(a, v) # Stage(a, u)
      BY <2>2, PathsDiffer
    <3>3. /\ At(ledger, Stage(a, v)) \in Nat /\ At(ledger', Stage(a, v)) \in Nat
          /\ At(ledger, Art(a, v)) \in Nat /\ At(ledger', Art(a, v)) \in Nat
          /\ At(ledger, Stage(a, v)) =< At(ledger', Stage(a, v))
          /\ At(ledger, Art(a, v)) =< At(ledger', Art(a, v))
      BY <1>13, <3>2
    <3> QED
      BY <1>0, <3>1, <3>3, LessThrough DEF UploadsCharged
  <2> QED
    BY <2>1, <2>2
<1> QED
  BY <1>1, <1>2, <1>6, <1>7, <1>8, <1>9, <1>12, <1>14, <1>15, <1>16, UploadStep

-----------------------------------------------------------------------------
(* Publications.                                                           *)
LEMMA UploadsRest ==
    ASSUME PublisherInvariant, NEW a \in Attempt, UNCHANGED <<up, data, link, dirty>>
    PROVE  /\ UploadTypes' /\ \A u \in Upload : UploadAt(a, u)'
           /\ AnsweredKept(a) /\ (Linked(a) => Linked(a)')
<1>0. AttemptAt(a) /\ UploadTypes
  BY Facts
<1>1. UploadTypes'
  BY <1>0 DEF UploadTypes
<1>2. \A u \in Upload : UploadAt(a, u)'
  BY <1>0 DEF AttemptAt, UploadAt
<1>3. AnsweredKept(a)
  BY <1>0 DEF AttemptAt, UploadAt, AnsweredKept
<1> QED
  BY <1>1, <1>2, <1>3 DEF Linked

\* Candidate p of a is all that changes, with perhaps the head of its kind.
RowStep(a, p, s) ==
    /\ PubTypes'
    /\ \A b \in Attempt, q \in Pub : b # a \/ q # p =>
           pub'[<<b, q>>] = pub[<<b, q>>] /\ desc'[<<b, q>>] = desc[<<b, q>>]
    /\ \A b \in Attempt, k \in Kind : b # a => head'[<<b, k>>] = head[<<b, k>>]
    /\ pub[<<a, p>>].state \in Unresolved
    /\ s \in Unresolved \cup {"committed", "rejected"}
    /\ pub'[<<a, p>>] = [pub[<<a, p>>] EXCEPT !.state = s]
    /\ IF s = "committed"
       THEN /\ head' = [head EXCEPT ![<<a, pub[<<a, p>>].kind>>] = p]
            /\ HeadSequence(a, pub[<<a, p>>].kind) < pub[<<a, p>>].seq
            /\ desc'[<<a, p>>] = "synced"
       ELSE head' = head

LEMMA RowTypes ==
    ASSUME PubTypes, NEW a \in Attempt, NEW p \in Pub,
           NEW s \in {"none", "pending", "uncertain", "committed", "rejected"}
    PROVE  pub[<<a, p>>] \in PubRow /\ [pub[<<a, p>>] EXCEPT !.state = s] \in PubRow
<1>1. pub[<<a, p>>] \in PubRow
  BY DEF PubTypes
<1>2. \A r \in PubRow : [r EXCEPT !.state = s] \in PubRow
  BY DEF PubRow
<1> QED
  BY <1>1, <1>2

LEMMA RowStepKeeps ==
    ASSUME PublisherInvariant, NEW a \in Attempt, NEW p \in Pub, NEW s, RowStep(a, p, s),
           UNCHANGED up
    PROVE  /\ \A q \in Pub : PublicationAt(a, q)'
           /\ \A k \in Kind : HeadAt(a, k)'
           /\ UndecidedAt(a)' /\ Newest(a)'
           /\ HeadsAdvance(a) /\ CommittedKept(a)
<1>0. AttemptAt(a) /\ PubTypes
  BY Facts
<1> DEFINE k0 == pub[<<a, p>>].kind
<1>1. /\ pub[<<a, p>>] \in PubRow /\ PublicationAt(a, p)
      /\ pub[<<a, p>>].state \in Unresolved /\ k0 \in Kind
      /\ pub[<<a, p>>].seq \in Nat
  BY <1>0 DEF AttemptAt, PubTypes, PubRow, PublicationAt, RowStep, Unresolved
<1>2. /\ pub'[<<a, p>>].state = s /\ pub'[<<a, p>>].kind = k0
      /\ pub'[<<a, p>>].seq = pub[<<a, p>>].seq /\ pub'[<<a, p>>].arts = pub[<<a, p>>].arts
  BY <1>1 DEF RowStep, PubRow
<1>3. \A q \in Pub : q # p => /\ pub'[<<a, q>>] = pub[<<a, q>>]
                             /\ desc'[<<a, q>>] = desc[<<a, q>>]
  BY DEF RowStep
<1>4. \A k \in Kind : head[<<a, k>>] \in Pub \cup {None} /\ head[<<a, k>>] # p
  BY <1>0, <1>1, DeliveryAssumption
     DEF AttemptAt, HeadAt, PubTypes, Unresolved, PublicationConstants
<1>5. \A k \in Kind : \/ head'[<<a, k>>] = head[<<a, k>>]
                      \/ k = k0 /\ s = "committed" /\ head'[<<a, k>>] = p
  BY <1>0, SMTT(30) DEF RowStep, PubTypes
<1>6. s = "committed" => head'[<<a, k0>>] = p
  BY <1>0, <1>1 DEF RowStep, PubTypes
<1>7. \A q \in Pub : q # p /\ pub[<<a, q>>].state \in Unresolved => FALSE
  <2> SUFFICES ASSUME NEW q \in Pub, q # p, pub[<<a, q>>].state \in Unresolved PROVE FALSE
    OBVIOUS
  <2>1. pub[<<a, q>>].seq < pub[<<a, p>>].seq /\ pub[<<a, p>>].seq < pub[<<a, q>>].seq
    BY <1>0, <1>1 DEF AttemptAt, UndecidedAt, UnresolvedOf
  <2>2. pub[<<a, q>>].seq \in Nat
    BY <1>0 DEF PubTypes, PubRow
  <2> QED
    BY <1>1, <2>1, <2>2
<1>8. ASSUME NEW q \in Pub PROVE PublicationAt(a, q)'
  <2>1. CASE q = p
    <3>1. s \in Unresolved /\ k0 = "result" => head'[<<a, "result">>] = None
      BY <1>1 DEF PublicationAt, RowStep, Unresolved
    <3>2. s # "none"
      BY DEF RowStep, Unresolved
    <3>3. \A u \in pub'[<<a, p>>].arts : up'[<<a, u>>].state = "sealed"
      BY <1>1, <1>2 DEF PublicationAt, Unresolved
    <3>4. s = "committed" => desc'[<<a, p>>] = "synced"
      BY DEF RowStep
    <3> QED
      BY <1>1, <1>2, <2>1, <3>1, <3>2, <3>3, <3>4 DEF PublicationAt
  <2>2. CASE q # p
    <3>1. PublicationAt(a, q) /\ pub[<<a, q>>].state \notin Unresolved
      BY <1>0, <1>7, <2>2 DEF AttemptAt
    <3> QED
      BY <1>3, <2>2, <3>1 DEF PublicationAt
  <2> QED
    BY <2>1, <2>2
<1>9. ASSUME NEW k \in Kind PROVE HeadAt(a, k)'
  <2>1. CASE head'[<<a, k>>] = head[<<a, k>>]
    <3>1. HeadAt(a, k)
      BY <1>0 DEF AttemptAt
    <3> QED
      BY <1>3, <1>4, <2>1, <3>1 DEF HeadAt
  <2>2. CASE k = k0 /\ s = "committed" /\ head'[<<a, k>>] = p
    BY <1>2, <2>2 DEF HeadAt
  <2> QED
    BY <1>5, <2>1, <2>2
<1>10. \A q \in Pub : pub'[<<a, q>>].seq = pub[<<a, q>>].seq
  BY <1>2, <1>3
<1>11. UndecidedAt(a)'
  <2>1. UnresolvedOf(a)' \subseteq {p}
    BY <1>3, <1>7 DEF UnresolvedOf
  <2>2. \A q \in Pub : q # p => pub[<<a, q>>].seq < pub[<<a, p>>].seq
    BY <1>0, <1>1 DEF AttemptAt, UndecidedAt, UnresolvedOf
  <2> QED
    BY <1>10, <2>1, <2>2 DEF UndecidedAt
<1>12. Newest(a)'
  <2>1. {pub'[<<a, q>>].seq : q \in Pub} = {pub[<<a, q>>].seq : q \in Pub}
    BY <1>10
  <2> QED
    BY <1>0, <1>10, <2>1 DEF AttemptAt, Newest
<1>13. HeadsAdvance(a)
  <2> SUFFICES ASSUME NEW k \in Kind, head'[<<a, k>>] # head[<<a, k>>]
               PROVE  /\ head'[<<a, k>>] # None
                      /\ k = "result" => head[<<a, k>>] = None
                      /\ HeadSequence(a, k) < pub'[<<a, head'[<<a, k>>]>>].seq
    BY DEF HeadsAdvance
  <2>1. k = k0 /\ s = "committed" /\ head'[<<a, k>>] = p
    BY <1>5
  <2>2. p # None
    BY DeliveryAssumption DEF PublicationConstants
  <2>3. k = "result" => head[<<a, k>>] = None
    BY <1>1, <2>1 DEF PublicationAt
  <2>4. HeadSequence(a, k) < pub[<<a, p>>].seq
    BY <2>1 DEF RowStep
  <2> QED
    BY <1>2, <2>1, <2>2, <2>3, <2>4
<1>14. CommittedKept(a)
  BY <1>1, <1>3 DEF CommittedKept, Unresolved
<1> QED
  BY <1>8, <1>9, <1>11, <1>12, <1>13, <1>14

\* A step about the rows of publications is one of the publisher.
LEMMA PublicationStep ==
    ASSUME PublisherInvariant, NEW a \in Attempt,
           UNCHANGED <<up, data, link, dirty, open, log, input, want>>,
           PubTypes',
           \A q \in Pub : PublicationAt(a, q)', \A k \in Kind : HeadAt(a, k)',
           UndecidedAt(a)', Newest(a)', HeadsAdvance(a), CommittedKept(a),
           \A b \in Attempt \ {a} :
              /\ \A q \in Pub : /\ pub'[<<b, q>>] = pub[<<b, q>>]
                                /\ desc'[<<b, q>>] = desc[<<b, q>>]
              /\ \A k \in Kind : head'[<<b, k>>] = head[<<b, k>>],
           NEW j \in Jobs, job' = [job EXCEPT ![a] = j], JobAt(a)',
           LedgerTypes', \A b \in Attempt \ {a} : LedgerKept(b), ChargeAt(a)',
           UploadsCharged(a) => UploadsCharged(a)'
    PROVE  Serves(a)
<1>0. ServiceTypes
  BY Facts
<1>1. /\ UploadTypes' /\ \A u \in Upload : UploadAt(a, u)'
      /\ AnsweredKept(a) /\ (Linked(a) => Linked(a)')
  BY UploadsRest
<1>2. ServiceTypes'
  BY <1>0 DEF ServiceTypes
<1>3. \A b \in Attempt \ {a} : Same(b)
  BY <1>0 DEF Same, ServiceTypes
<1> QED
  BY <1>1, <1>2, <1>3 DEF Serves, PublisherTypes, AttemptAt, SpoolKept

LEMMA ResolveStep ==
    ASSUME PublisherInvariant, NEW a \in Attempt, NEW p \in Pub, NEW s, RowStep(a, p, s),
           UNCHANGED <<up, data, link, dirty, open, log, input, want, ledger>>,
           NEW j \in Jobs, job' = [job EXCEPT ![a] = j], JobAt(a)'
    PROVE  Serves(a)
<1>0. AttemptAt(a) /\ LedgerLike(ledger)
  BY Facts
<1>1. /\ \A q \in Pub : PublicationAt(a, q)'
      /\ \A k \in Kind : HeadAt(a, k)'
      /\ UndecidedAt(a)' /\ Newest(a)'
      /\ HeadsAdvance(a) /\ CommittedKept(a)
  BY RowStepKeeps
<1>2. /\ PubTypes'
      /\ \A b \in Attempt \ {a} :
            /\ \A q \in Pub : /\ pub'[<<b, q>>] = pub[<<b, q>>]
                              /\ desc'[<<b, q>>] = desc[<<b, q>>]
            /\ \A k \in Kind : head'[<<b, k>>] = head[<<b, k>>]
  BY DEF RowStep
<1>3. LedgerTypes' /\ \A b \in Attempt : LedgerKept(b)
  BY <1>0, LedgerStays
<1>4. ChargeAt(a)'
  <2>1. \A q \in Pub : desc'[<<a, q>>] # "absent" \/ pub'[<<a, q>>].state \in Unresolved
             => desc[<<a, q>>] # "absent" \/ pub[<<a, q>>].state \in Unresolved
    BY DEF RowStep
  <2> QED
    BY <1>3, <2>1, ChargesStay
<1>5. UploadsCharged(a) => UploadsCharged(a)'
  BY <1>0, <1>3, UploadsStayCharged
<1> QED
  BY <1>1, <1>2, <1>3, <1>4, <1>5, PublicationStep

LEMMA HeadSequenceNat ==
    ASSUME PublisherInvariant, NEW a \in Attempt, NEW k \in Kind
    PROVE  HeadSequence(a, k) \in Nat
BY Facts DEF PubTypes, PubRow, HeadSequence

\* A row whose state is set to what it is.
LEMMA PendingRow ==
    ASSUME PublisherInvariant, NEW a \in Attempt, NEW p \in Pub, pub[<<a, p>>].state = "pending"
    PROVE  pub[<<a, p>>] = [pub[<<a, p>>] EXCEPT !.state = "pending"]
BY Facts DEF PubTypes, PubRow

LEMMA CommitWriteServes ==
    ASSUME PublisherInvariant, NEW a \in Attempt, CommitWrite(a)
    PROVE  Serves(a)
<1>0. AttemptAt(a) /\ PubTypes /\ ServiceTypes
  BY Facts
<1>a. job[a].op = "desc"
  BY DEF CommitWrite, Serving
<1>b. PICK p \in Pub : p = job[a].x
  BY <1>a, JobTypes
<1>c. job[a] = [op |-> "desc", x |-> p]
  BY <1>a, <1>b, JobTypes
<1> DEFINE j == [op |-> "head", x |-> p]
<1>1. /\ a \in open /\ job' = [job EXCEPT ![a] = j]
      /\ desc' = [desc EXCEPT ![<<a, p>>] = "synced"]
      /\ pub' = pub /\ head' = head
      /\ UNCHANGED <<up, data, link, dirty, open, log, input, want, ledger>>
  <2>1. [job[a] EXCEPT !.op = "head"] = j
    BY <1>c
  <2> QED
    BY <1>b, <2>1 DEF CommitWrite, Serving, Continue, rows
<1>2. pub[<<a, p>>].state = "pending" /\ j \in Jobs
  BY <1>0, <1>a, <1>b DEF AttemptAt, JobAt, Jobs
<1>3. RowStep(a, p, "pending")
  <2>1. desc' \in [Attempt \X Pub -> {"absent", "torn", "whole", "synced"}]
    BY <1>0, <1>1 DEF PubTypes
  <2>2. PubTypes'
    BY <1>0, <1>1, <2>1 DEF PubTypes
  <2>3. pub'[<<a, p>>] = [pub[<<a, p>>] EXCEPT !.state = "pending"]
    BY <1>1, <1>2, PendingRow
  <2> QED
    BY <1>0, <1>1, <1>2, <2>2, <2>3 DEF RowStep, PubTypes, Unresolved
<1>4. JobAt(a)'
  <2>1. job'[a] = j /\ desc'[<<a, p>>] = "synced"
    BY <1>0, <1>1 DEF ServiceTypes, PubTypes
  <2> QED
    BY <1>1, <1>2, <2>1 DEF JobAt
<1> HIDE DEF j
<1> QED
  BY <1>1, <1>2, <1>3, <1>4, ResolveStep

LEMMA CommitWriteFailsServes ==
    ASSUME PublisherInvariant, NEW a \in Attempt, CommitWriteFails(a)
    PROVE  Serves(a)
<1>0. AttemptAt(a) /\ PubTypes /\ ServiceTypes
  BY Facts
<1>a. job[a].op = "desc"
  BY DEF CommitWriteFails, Serving
<1>b. PICK p \in Pub : p = job[a].x
  BY <1>a, JobTypes
<1>c. PICK d \in {"absent", "torn", "whole"}, s \in Unresolved :
          /\ desc' = [desc EXCEPT ![<<a, p>>] = d]
          /\ pub' = [pub EXCEPT ![<<a, p>>].state = s]
  BY <1>b DEF CommitWriteFails
<1>1. /\ job' = [job EXCEPT ![a] = Idle] /\ head' = head
      /\ UNCHANGED <<up, data, link, dirty, open, log, input, want, ledger>>
  BY DEF CommitWriteFails, Answered
<1>2. pub[<<a, p>>].state = "pending" /\ Idle \in Jobs
  BY <1>0, <1>a, <1>b, JobTypes DEF AttemptAt, JobAt
<1>3. RowStep(a, p, s)
  <2>1. desc' \in [Attempt \X Pub -> {"absent", "torn", "whole", "synced"}]
    BY <1>0, <1>c DEF PubTypes
  <2>2. pub' \in [Attempt \X Pub -> PubRow]
    <3>1. [pub[<<a, p>>] EXCEPT !.state = s] \in PubRow
      <4>1. s \in {"none", "pending", "uncertain", "committed", "rejected"}
        BY <1>c DEF Unresolved
      <4> QED
        BY <1>0, <4>1, RowTypes
    <3> QED
      BY <1>0, <1>c, <3>1 DEF PubTypes
  <2>3. pub'[<<a, p>>] = [pub[<<a, p>>] EXCEPT !.state = s]
    BY <1>0, <1>c DEF PubTypes
  <2>4. \A b \in Attempt, q \in Pub : b # a \/ q # p =>
            pub'[<<b, q>>] = pub[<<b, q>>] /\ desc'[<<b, q>>] = desc[<<b, q>>]
    BY <1>0, <1>c DEF PubTypes
  <2> QED
    BY <1>0, <1>1, <1>2, <1>c, <2>1, <2>2, <2>3, <2>4 DEF RowStep, PubTypes, Unresolved
<1>4. JobAt(a)'
  <2>1. job'[a] = Idle
    BY <1>0, <1>1 DEF ServiceTypes
  <2> QED
    BY <1>1, <2>1 DEF JobAt, Idle
<1> QED
  BY <1>1, <1>2, <1>3, <1>4, ResolveStep

LEMMA CommitHeadServes ==
    ASSUME PublisherInvariant, NEW a \in Attempt, CommitHead(a)
    PROVE  Serves(a)
<1>0. AttemptAt(a) /\ PubTypes /\ ServiceTypes
  BY Facts
<1>a. job[a].op = "head"
  BY DEF CommitHead, Serving
<1>b. PICK p \in Pub : p = job[a].x
  BY <1>a, JobTypes
<1> DEFINE k == pub[<<a, p>>].kind
<1>1. /\ job' = [job EXCEPT ![a] = Idle]
      /\ HeadSequence(a, k) < pub[<<a, p>>].seq
      /\ head' = [head EXCEPT ![<<a, k>>] = p]
      /\ pub' = [pub EXCEPT ![<<a, p>>].state = "committed"]
      /\ desc' = desc
      /\ UNCHANGED <<up, data, link, dirty, open, log, input, want, ledger>>
  BY <1>b DEF CommitHead, Answered, files
<1>2. pub[<<a, p>>].state = "pending" /\ desc[<<a, p>>] = "synced" /\ Idle \in Jobs
  BY <1>0, <1>a, <1>b, JobTypes DEF AttemptAt, JobAt
<1>3. k \in Kind
  BY <1>0, <1>2 DEF AttemptAt, PublicationAt
<1>4. RowStep(a, p, "committed")
  <2>1. pub' \in [Attempt \X Pub -> PubRow]
    <3>1. [pub[<<a, p>>] EXCEPT !.state = "committed"] \in PubRow
      BY <1>0, RowTypes
    <3> QED
      BY <1>0, <1>1, <3>1 DEF PubTypes
  <2>2. head' \in [Attempt \X Kind -> Pub \cup {None}]
    BY <1>0, <1>1, <1>3 DEF PubTypes
  <2>3. pub'[<<a, p>>] = [pub[<<a, p>>] EXCEPT !.state = "committed"]
    BY <1>0, <1>1 DEF PubTypes
  <2>4. \A b \in Attempt, q \in Pub : b # a \/ q # p => pub'[<<b, q>>] = pub[<<b, q>>]
    BY <1>0, <1>1 DEF PubTypes
  <2>5. \A b \in Attempt, x \in Kind : b # a => head'[<<b, x>>] = head[<<b, x>>]
    BY <1>0, <1>1 DEF PubTypes
  <2> QED
    BY <1>0, <1>1, <1>2, <2>1, <2>2, <2>3, <2>4, <2>5 DEF RowStep, PubTypes, Unresolved
<1>5. JobAt(a)'
  <2>1. job'[a] = Idle
    BY <1>0, <1>1 DEF ServiceTypes
  <2> QED
    BY <1>1, <2>1 DEF JobAt, Idle
<1> QED
  BY <1>1, <1>2, <1>4, <1>5, ResolveStep

LEMMA CommitHeadFailsServes ==
    ASSUME PublisherInvariant, NEW a \in Attempt, CommitHeadFails(a)
    PROVE  Serves(a)
<1>0. AttemptAt(a) /\ PubTypes /\ ServiceTypes
  BY Facts
<1>a. job[a].op = "head"
  BY DEF CommitHeadFails, Serving
<1>b. PICK p \in Pub : p = job[a].x
  BY <1>a, JobTypes
<1>1. /\ job' = [job EXCEPT ![a] = Idle]
      /\ pub' = pub /\ desc' = desc /\ head' = head
      /\ UNCHANGED <<up, data, link, dirty, open, log, input, want, ledger>>
  BY DEF CommitHeadFails, Answered, files, rows
<1>2. pub[<<a, p>>].state = "pending" /\ Idle \in Jobs
  BY <1>0, <1>a, <1>b, JobTypes DEF AttemptAt, JobAt
<1>3. RowStep(a, p, "pending")
  <2>1. pub'[<<a, p>>] = [pub[<<a, p>>] EXCEPT !.state = "pending"]
    BY <1>1, <1>2, PendingRow
  <2> QED
    BY <1>0, <1>1, <1>2, <2>1 DEF RowStep, PubTypes, Unresolved
<1>4. JobAt(a)'
  <2>1. job'[a] = Idle
    BY <1>0, <1>1 DEF ServiceTypes
  <2> QED
    BY <1>1, <2>1 DEF JobAt, Idle
<1> QED
  BY <1>1, <1>2, <1>3, <1>4, ResolveStep

\* reconcile.
LEMMA ReconcileFoundServes ==
    ASSUME PublisherInvariant, NEW a \in Attempt, NEW p \in Pub, ReconcileFound(a, p)
    PROVE  Serves(a)
<1>0. AttemptAt(a) /\ PubTypes /\ ServiceTypes
  BY Facts
<1> DEFINE k == pub[<<a, p>>].kind
<1>1. /\ a \in open /\ job[a] = Idle /\ job' = [job EXCEPT ![a] = Idle]
      /\ pub[<<a, p>>].state \in Unresolved
      /\ desc' = [desc EXCEPT ![<<a, p>>] = "synced"]
      /\ UNCHANGED <<up, data, link, dirty, open, log, input, want, ledger>>
  BY <1>0 DEF ReconcileFound, Free, ServiceTypes
<1>2. k \in Kind /\ PublicationAt(a, p) /\ Idle \in Jobs /\ pub[<<a, p>>].seq \in Nat
  BY <1>0, <1>1, JobTypes DEF AttemptAt, PublicationAt, Unresolved, PubTypes, PubRow
<1>3. HeadSequence(a, k) \in Nat
  BY <1>2, HeadSequenceNat
<1>4. head[<<a, k>>] # p
  BY <1>0, <1>1, <1>2, DeliveryAssumption DEF AttemptAt, HeadAt, Unresolved, PublicationConstants
<1>5. \E s \in {"committed", "rejected"} :
         /\ pub' = [pub EXCEPT ![<<a, p>>].state = s]
         /\ IF s = "committed"
            THEN /\ head' = [head EXCEPT ![<<a, k>>] = p]
                 /\ HeadSequence(a, k) < pub[<<a, p>>].seq
            ELSE head' = head
  <2>1. CASE HeadSequence(a, k) >= pub[<<a, p>>].seq
    BY <1>4, <2>1 DEF ReconcileFound
  <2>2. CASE ~(HeadSequence(a, k) >= pub[<<a, p>>].seq)
    <3>1. HeadSequence(a, k) < pub[<<a, p>>].seq
      BY <1>2, <1>3, <2>2
    <3>2. /\ pub' = [pub EXCEPT ![<<a, p>>].state = "committed"]
          /\ head' = [head EXCEPT ![<<a, k>>] = p]
      BY <2>2 DEF ReconcileFound
    <3> QED
      BY <3>1, <3>2
  <2> QED
    BY <2>1, <2>2
<1>6. PICK s \in {"committed", "rejected"} : <1>5!(s)
  BY <1>5
<1>7. RowStep(a, p, s)
  <2>1. pub' \in [Attempt \X Pub -> PubRow]
    <3>1. [pub[<<a, p>>] EXCEPT !.state = s] \in PubRow
      BY <1>0, RowTypes
    <3> QED
      BY <1>0, <1>6, <3>1 DEF PubTypes
  <2>2. head' \in [Attempt \X Kind -> Pub \cup {None}]
    BY <1>0, <1>2, <1>6 DEF PubTypes
  <2>3. desc' \in [Attempt \X Pub -> {"absent", "torn", "whole", "synced"}]
    BY <1>0, <1>1 DEF PubTypes
  <2>4. pub'[<<a, p>>] = [pub[<<a, p>>] EXCEPT !.state = s] /\ desc'[<<a, p>>] = "synced"
    BY <1>0, <1>1, <1>6 DEF PubTypes
  <2>5. \A b \in Attempt, q \in Pub : b # a \/ q # p =>
            pub'[<<b, q>>] = pub[<<b, q>>] /\ desc'[<<b, q>>] = desc[<<b, q>>]
    BY <1>0, <1>1, <1>6 DEF PubTypes
  <2>6. \A b \in Attempt, x \in Kind : b # a => head'[<<b, x>>] = head[<<b, x>>]
    BY <1>0, <1>6 DEF PubTypes
  <2> QED
    BY <1>1, <1>6, <2>1, <2>2, <2>3, <2>4, <2>5, <2>6 DEF RowStep, PubTypes
<1>8. JobAt(a)'
  <2>1. job'[a] = Idle
    BY <1>0, <1>1 DEF ServiceTypes
  <2> QED
    BY <1>1, <2>1 DEF JobAt, Idle
<1> QED
  BY <1>1, <1>2, <1>7, <1>8, ResolveStep

LEMMA ReconcileMissingServes ==
    ASSUME PublisherInvariant, NEW a \in Attempt, NEW p \in Pub, ReconcileMissing(a, p)
    PROVE  Serves(a)
<1>0. AttemptAt(a) /\ PubTypes /\ ServiceTypes /\ LedgerLike(ledger)
  BY Facts
<1>1. /\ a \in open /\ job[a] = Idle /\ job' = [job EXCEPT ![a] = Idle]
      /\ pub[<<a, p>>].state \in Unresolved /\ desc[<<a, p>>] = "absent"
      /\ pub' = [pub EXCEPT ![<<a, p>>].state = "rejected"]
      /\ ledger' = Drop(ledger, {Desc(a, p)})
      /\ head' = head /\ desc' = desc
      /\ UNCHANGED <<up, data, link, dirty, open, log, input, want>>
  BY <1>0 DEF ReconcileMissing, Free, ServiceTypes, files
<1>2. Idle \in Jobs
  BY JobTypes
<1>3. RowStep(a, p, "rejected")
  <2>1. pub' \in [Attempt \X Pub -> PubRow]
    <3>1. [pub[<<a, p>>] EXCEPT !.state = "rejected"] \in PubRow
      BY <1>0, RowTypes
    <3> QED
      BY <1>0, <1>1, <3>1 DEF PubTypes
  <2>2. pub'[<<a, p>>] = [pub[<<a, p>>] EXCEPT !.state = "rejected"]
    BY <1>0, <1>1 DEF PubTypes
  <2>3. \A b \in Attempt, q \in Pub : b # a \/ q # p => pub'[<<b, q>>] = pub[<<b, q>>]
    BY <1>0, <1>1 DEF PubTypes
  <2> QED
    BY <1>0, <1>1, <2>1, <2>2, <2>3 DEF RowStep, PubTypes
<1>4. JobAt(a)'
  <2>1. job'[a] = Idle
    BY <1>0, <1>1 DEF ServiceTypes
  <2> QED
    BY <1>1, <2>1 DEF JobAt, Idle
<1>5. /\ LedgerLike(ledger') /\ DOMAIN ledger' = DOMAIN ledger \ {Desc(a, p)}
      /\ \A x : x # Desc(a, p) => At(ledger', x) = At(ledger, x)
  BY <1>0, <1>1 DEF LedgerLike, Drop, Restrict, At
<1>6. LedgerTypes'
  BY <1>5 DEF LedgerTypes, LedgerLike
<1>7. \A x : At(ledger, x) \in Nat
  BY <1>0, AtNat
<1>8. ASSUME NEW b \in Attempt
      PROVE  /\ \A u \in Upload : /\ At(ledger', Stage(b, u)) = At(ledger, Stage(b, u))
                                  /\ At(ledger', Art(b, u)) = At(ledger, Art(b, u))
             /\ At(ledger', Log(b)) = At(ledger, Log(b))
             /\ At(ledger', Input(b)) = At(ledger, Input(b))
             /\ \A q \in Pub : b # a \/ q # p =>
                   (Desc(b, q) \in DOMAIN ledger => Desc(b, q) \in DOMAIN ledger')
  <2>1. ASSUME NEW x
        PROVE  /\ Desc(a, p) \notin {Stage(b, x), Art(b, x), Log(b), Input(b)}
               /\ b # a \/ x # p => Desc(b, x) # Desc(a, p)
    BY PathsDiffer
  <2> QED
    BY <1>5, <2>1
<1>9. \A b \in Attempt \ {a} : LedgerKept(b)
  BY <1>7, <1>8 DEF LedgerKept
<1>10. ChargeAt(a)'
  <2>1. log'[a] + want'[a] =< At(ledger', Log(a)) /\ input'[a] =< At(ledger', Input(a))
    BY <1>0, <1>1, <1>8 DEF AttemptAt, ChargeAt
  <2>2. \A q \in Pub : desc'[<<a, q>>] # "absent" \/ pub'[<<a, q>>].state \in Unresolved
                          => Desc(a, q) \in DOMAIN ledger'
    <3> SUFFICES ASSUME NEW q \in Pub,
                        desc'[<<a, q>>] # "absent" \/ pub'[<<a, q>>].state \in Unresolved
                 PROVE  Desc(a, q) \in DOMAIN ledger'
      OBVIOUS
    <3>1. q # p
      BY <1>0, <1>1 DEF PubTypes, PubRow, Unresolved
    <3>2. pub'[<<a, q>>] = pub[<<a, q>>]
      BY <1>3, <3>1 DEF RowStep
    <3> QED
      BY <1>0, <1>1, <1>8, <3>1, <3>2 DEF AttemptAt, ChargeAt
  <2> QED
    BY <2>1, <2>2 DEF ChargeAt
<1>11. UploadsCharged(a) => UploadsCharged(a)'
  BY <1>1, <1>8 DEF UploadsCharged
<1>12. /\ \A q \in Pub : PublicationAt(a, q)'
       /\ \A k \in Kind : HeadAt(a, k)'
       /\ UndecidedAt(a)' /\ Newest(a)'
       /\ HeadsAdvance(a) /\ CommittedKept(a)
  BY <1>1, <1>3, RowStepKeeps
<1>13. /\ PubTypes'
       /\ \A b \in Attempt \ {a} :
             /\ \A q \in Pub : /\ pub'[<<b, q>>] = pub[<<b, q>>]
                               /\ desc'[<<b, q>>] = desc[<<b, q>>]
             /\ \A k \in Kind : head'[<<b, k>>] = head[<<b, k>>]
  BY <1>3 DEF RowStep
<1> QED
  BY <1>1, <1>2, <1>4, <1>6, <1>9, <1>10, <1>11, <1>12, <1>13, PublicationStep

\* publication_commit: the new row is the newest.
LEMMA CommitInsertServes ==
    ASSUME PublisherInvariant, NEW a \in Attempt, NEW p \in Pub, NEW k \in Kind,
           NEW arts \in SUBSET Upload, CommitInsert(a, p, k, arts)
    PROVE  Serves(a)
<1> DEFINE j == [op |-> "desc", x |-> p]
           n == NextSequence(a)
           row == [state |-> "pending", kind |-> k, seq |-> n, arts |-> arts]
           S == {pub[<<a, q>>].seq : q \in Pub} \cup {0}
<1>0. AttemptAt(a) /\ PubTypes /\ ServiceTypes /\ LedgerLike(ledger)
  BY Facts
<1>1. /\ a \in open /\ job' = [job EXCEPT ![a] = j]
      /\ pub[<<a, p>>].state = "none" /\ UnresolvedOf(a) = {}
      /\ \A u \in arts : up[<<a, u>>].state = "sealed"
      /\ k = "result" => head[<<a, "result">>] = None
      /\ Desc(a, p) \notin DOMAIN ledger
      /\ ledger' = Charge(ledger, Desc(a, p), 1)
      /\ pub' = [pub EXCEPT ![<<a, p>>] = row]
      /\ head' = head /\ desc' = desc
      /\ UNCHANGED <<up, data, link, dirty, open, log, input, want>>
  BY DEF CommitInsert, MayCommit, Free, Continue, files
<1>2. PICK m \in S : \A q \in Pub : pub[<<a, q>>].seq =< m
  BY <1>0 DEF AttemptAt, Newest
<1>3. S \subseteq Nat
  <2>1. \A q \in Pub : pub[<<a, q>>].seq \in Nat
    BY <1>0 DEF PubTypes, PubRow
  <2>2. ASSUME NEW x \in S PROVE x \in Nat
    <3>1. CASE x = 0
      BY <3>1
    <3>2. CASE x # 0
      <4>1. \E q \in Pub : x = pub[<<a, q>>].seq
        BY <3>2
      <4> QED
        BY <2>1, <4>1
    <3> QED
      BY <3>1, <3>2
  <2> HIDE DEF S
  <2> QED
    BY <2>2
<1>4. n = 1 + Max(S)
  BY DEF NextSequence
<1>5. Max(S) = m
  <2>1. ASSUME NEW x \in S PROVE m >= x
    <3>1. m \in Nat /\ x \in Nat
      BY <1>2, <1>3
    <3>2. x =< m
      <4>1. CASE x = 0
        BY <3>1, <4>1
      <4>2. CASE x # 0
        BY <1>2, <4>2
      <4> QED
        BY <4>1, <4>2
    <3> HIDE DEF S
    <3> QED
      BY <3>1, <3>2
  <2> HIDE DEF S
  <2>2. \A y \in S : (\A x \in S : y >= x) => y = m
    <3> SUFFICES ASSUME NEW y \in S, \A x \in S : y >= x PROVE y = m
      OBVIOUS
    <3>1. y \in Nat /\ m \in Nat /\ m \in S
      BY <1>2, <1>3
    <3>2. y >= m /\ m >= y
      BY <2>1, <3>1
    <3> QED
      BY <3>1, <3>2
  <2> QED
    BY <1>2, <2>1, <2>2 DEF Max
<1>6. n \in Nat /\ \A q \in Pub : pub[<<a, q>>].seq < n
  <2>1. m \in Nat
    BY <1>2, <1>3
  <2>2. \A q \in Pub : pub[<<a, q>>].seq \in Nat
    BY <1>0 DEF PubTypes, PubRow
  <2> HIDE DEF n, S
  <2> QED
    BY <1>2, <1>4, <1>5, <2>1, <2>2
<1> HIDE DEF n, S
<1>7. row \in PubRow
  BY <1>6 DEF PubRow
<1>8. pub'[<<a, p>>] = row /\ \A b \in Attempt, q \in Pub : b # a \/ q # p => pub'[<<b, q>>] = pub[<<b, q>>]
  BY <1>0, <1>1 DEF PubTypes
<1>9. PubTypes'
  BY <1>0, <1>1, <1>7 DEF PubTypes
<1>10. /\ pub'[<<a, p>>].state = "pending" /\ pub'[<<a, p>>].kind = k
       /\ pub'[<<a, p>>].seq = n /\ pub'[<<a, p>>].arts = arts
  BY <1>8
<1> HIDE DEF row
<1>11. ASSUME NEW q \in Pub PROVE PublicationAt(a, q)'
  <2>1. CASE q = p
    BY <1>1, <1>10, <2>1 DEF PublicationAt, Unresolved
  <2>2. CASE q # p
    <3>1. PublicationAt(a, q) /\ pub'[<<a, q>>] = pub[<<a, q>>]
      BY <1>0, <1>8, <2>2 DEF AttemptAt
    <3> QED
      BY <1>1, <3>1 DEF PublicationAt
  <2> QED
    BY <2>1, <2>2
<1>12. \A x \in Kind : HeadAt(a, x)' /\ head[<<a, x>>] # p
  <2> SUFFICES ASSUME NEW x \in Kind PROVE HeadAt(a, x)' /\ head[<<a, x>>] # p
    OBVIOUS
  <2>1. HeadAt(a, x) /\ head[<<a, x>>] \in Pub \cup {None}
    BY <1>0 DEF AttemptAt, PubTypes
  <2>2. head[<<a, x>>] # p
    BY <1>1, <2>1, DeliveryAssumption DEF HeadAt, PublicationConstants
  <2> QED
    BY <1>1, <1>8, <2>1, <2>2 DEF HeadAt
<1>13. \A q \in Pub : pub'[<<a, q>>].seq =< n /\ (q # p => pub'[<<a, q>>].seq < n)
  <2> SUFFICES ASSUME NEW q \in Pub
               PROVE  pub'[<<a, q>>].seq =< n /\ (q # p => pub'[<<a, q>>].seq < n)
    OBVIOUS
  <2>1. pub[<<a, q>>].seq \in Nat /\ pub[<<a, q>>].seq < n
    BY <1>0, <1>6 DEF PubTypes, PubRow
  <2> QED
    BY <1>6, <1>8, <1>10, <2>1
<1>14. UndecidedAt(a)'
  <2>1. UnresolvedOf(a)' \subseteq {p}
    BY <1>1, <1>8 DEF UnresolvedOf
  <2> QED
    BY <1>10, <1>13, <2>1 DEF UndecidedAt
<1>15. Newest(a)'
  BY <1>10, <1>13 DEF Newest
<1>16. HeadsAdvance(a) /\ CommittedKept(a)
  BY <1>1, <1>8 DEF HeadsAdvance, CommittedKept
<1>17. At(ledger, Desc(a, p)) = 0
  BY <1>1 DEF At
<1>18. LedgerTypes' /\ \A b \in Attempt : LedgerKept(b)
  BY <1>0, <1>1, <1>17, ChargeKeeps
<1>19. Desc(a, p) \in DOMAIN ledger'
  BY <1>1 DEF Charge
<1>20. ChargeAt(a)'
  BY <1>1, <1>8, <1>18, <1>19, ChargesStay
<1>21. UploadsCharged(a) => UploadsCharged(a)'
  BY <1>0, <1>1, <1>18, UploadsStayCharged
<1>22. j \in Jobs
  BY DEF Jobs
<1>23. JobAt(a)'
  <2>1. job'[a] = j
    BY <1>0, <1>1 DEF ServiceTypes
  <2> QED
    BY <1>1, <1>10, <2>1 DEF JobAt
<1>24. \A b \in Attempt \ {a} :
          /\ \A q \in Pub : pub'[<<b, q>>] = pub[<<b, q>>] /\ desc'[<<b, q>>] = desc[<<b, q>>]
          /\ \A x \in Kind : head'[<<b, x>>] = head[<<b, x>>]
  BY <1>1, <1>8
<1> HIDE DEF j
<1> QED
  BY <1>1, <1>9, <1>11, <1>12, <1>14, <1>15, <1>16, <1>18, <1>20, <1>21, <1>22, <1>23, <1>24,
     PublicationStep

-----------------------------------------------------------------------------
(* Opening, dying, and what else is charged.                               *)
LEMMA QuietStep ==
    ASSUME PublisherInvariant, NEW a \in Attempt,
           UNCHANGED <<up, data, link, dirty, pub, desc, head>>,
           ServiceTypes', JobAt(a)',
           \A b \in Attempt \ {a} :
              /\ job'[b] = job[b] /\ (b \in open' <=> b \in open)
              /\ log'[b] = log[b] /\ input'[b] = input[b] /\ want'[b] = want[b],
           LedgerTypes', \A b \in Attempt \ {a} : LedgerKept(b), ChargeAt(a)',
           UploadsCharged(a) => UploadsCharged(a)'
    PROVE  Serves(a)
<1>1. /\ UploadTypes' /\ \A u \in Upload : UploadAt(a, u)'
      /\ AnsweredKept(a) /\ (Linked(a) => Linked(a)')
  BY UploadsRest
<1>2. /\ PubTypes' /\ \A p \in Pub : PublicationAt(a, p)'
      /\ \A k \in Kind : HeadAt(a, k)'
      /\ UndecidedAt(a)' /\ Newest(a)'
      /\ HeadsAdvance(a) /\ CommittedKept(a)
  BY PublicationsRest
<1>3. \A b \in Attempt \ {a} : Same(b)
  BY DEF Same
<1> QED
  BY <1>1, <1>2, <1>3 DEF Serves, PublisherTypes, AttemptAt, SpoolKept

LEMMA OpenServes ==
    ASSUME PublisherInvariant, NEW a \in Attempt, Open(a)
    PROVE  Serves(a)
<1>0. AttemptAt(a) /\ ServiceTypes /\ PublisherTypes /\ LedgerLike(ledger)
  BY Facts
<1>1. /\ open' = open \cup {a} /\ ledger' = Accounted
      /\ UNCHANGED <<up, data, link, dirty, pub, desc, head>>
      /\ job' = job /\ log' = log /\ input' = input /\ want' = want
  BY DEF Open, files
<1>2. ServiceTypes'
  BY <1>0, <1>1 DEF ServiceTypes
<1>3. JobAt(a)'
  BY <1>0, <1>1 DEF AttemptAt, JobAt
<1>4. LedgerTypes' /\ \A b \in Attempt : LedgerKept(b)
  BY <1>0, <1>1, LedgerAccounted
<1>5. ChargeAt(a)'
  BY <1>1, <1>4, ChargesStay
<1>6. UploadsCharged(a) => UploadsCharged(a)'
  BY <1>0, <1>1, <1>4, UploadsStayCharged
<1> QED
  BY <1>1, <1>2, <1>3, <1>4, <1>5, <1>6, QuietStep

LEMMA CaptureReserveServes ==
    ASSUME PublisherInvariant, NEW a \in Attempt, CaptureReserve(a)
    PROVE  Serves(a)
<1>0. AttemptAt(a) /\ ServiceTypes /\ PublisherTypes /\ LedgerLike(ledger)
  BY Facts
<1> DEFINE n == At(ledger, Log(a)) + 1
<1>1. /\ want[a] = 0 /\ want' = [want EXCEPT ![a] = 1]
      /\ ledger' = Charge(ledger, Log(a), n)
      /\ UNCHANGED <<up, data, link, dirty, pub, desc, head>>
      /\ job' = job /\ log' = log /\ input' = input /\ open' = open
  BY DEF CaptureReserve
<1>2. ServiceTypes'
  BY <1>0, <1>1 DEF ServiceTypes
<1>3. JobAt(a)'
  BY <1>0, <1>1 DEF AttemptAt, JobAt
<1>4. At(ledger, Log(a)) \in Nat /\ n \in Nat /\ At(ledger, Log(a)) =< n
  BY <1>0, AtNat
<1>5. LedgerTypes' /\ \A b \in Attempt : LedgerKept(b)
  <2> HIDE DEF n
  <2> QED
    BY <1>0, <1>1, <1>4, ChargeKeeps
<1>6. ChargeAt(a)'
  <2>1. At(ledger', Log(a)) = n /\ At(ledger', Input(a)) = At(ledger, Input(a))
    <3>1. Input(a) # Log(a)
      BY PathsDiffer
    <3> HIDE DEF n
    <3> QED
      BY <1>1, <3>1 DEF Charge, At
  <2>2. want'[a] = 1 /\ log[a] \in Nat /\ log[a] + want[a] =< At(ledger, Log(a))
    BY <1>0, <1>1 DEF ServiceTypes, AttemptAt, ChargeAt
  <2>3. log'[a] + want'[a] =< At(ledger', Log(a))
    BY <1>1, <1>4, <2>1, <2>2
  <2>4. \A p \in Pub : Desc(a, p) \in DOMAIN ledger => Desc(a, p) \in DOMAIN ledger'
    BY <1>5 DEF LedgerKept
  <2> QED
    BY <1>0, <1>1, <2>1, <2>3, <2>4 DEF AttemptAt, ChargeAt
<1>7. UploadsCharged(a) => UploadsCharged(a)'
  BY <1>0, <1>1, <1>5, UploadsStayCharged
<1>8. \A b \in Attempt \ {a} : want'[b] = want[b]
  BY <1>0, <1>1 DEF ServiceTypes
<1> QED
  BY <1>1, <1>2, <1>3, <1>5, <1>6, <1>7, <1>8, QuietStep

LEMMA CaptureWriteServes ==
    ASSUME PublisherInvariant, NEW a \in Attempt, CaptureWrite(a)
    PROVE  Serves(a)
<1>0. AttemptAt(a) /\ ServiceTypes /\ PublisherTypes /\ LedgerLike(ledger)
  BY Facts
<1>1. /\ want[a] = 1 /\ want' = [want EXCEPT ![a] = 0]
      /\ log' = [log EXCEPT ![a] = @ + 1] /\ ledger' = ledger
      /\ UNCHANGED <<up, data, link, dirty, pub, desc, head>>
      /\ job' = job /\ input' = input /\ open' = open
  BY DEF CaptureWrite, rows
<1>2. ServiceTypes'
  BY <1>0, <1>1 DEF ServiceTypes
<1>3. JobAt(a)'
  BY <1>0, <1>1 DEF AttemptAt, JobAt
<1>4. LedgerTypes' /\ \A b \in Attempt : LedgerKept(b)
  BY <1>0, <1>1, LedgerStays
<1>5. ChargeAt(a)'
  <2>1. log'[a] = log[a] + 1 /\ want'[a] = 0 /\ log[a] \in Nat
    BY <1>0, <1>1 DEF ServiceTypes
  <2>2. log'[a] + want'[a] = log[a] + want[a]
    BY <1>1, <2>1
  <2> QED
    BY <1>0, <1>1, <2>2 DEF AttemptAt, ChargeAt
<1>6. UploadsCharged(a) => UploadsCharged(a)'
  BY <1>0, <1>1, <1>4, UploadsStayCharged
<1>7. \A b \in Attempt \ {a} : want'[b] = want[b] /\ log'[b] = log[b]
  BY <1>0, <1>1 DEF ServiceTypes
<1> QED
  BY <1>1, <1>2, <1>3, <1>4, <1>5, <1>6, <1>7, QuietStep

LEMMA DownloadServes ==
    ASSUME PublisherInvariant, NEW a \in Attempt, Download(a)
    PROVE  Serves(a)
<1>0. AttemptAt(a) /\ ServiceTypes /\ PublisherTypes /\ LedgerLike(ledger)
  BY Facts
<1> DEFINE l == Accounted
           n == At(l, Input(a)) + 1
<1>1. /\ input[a] = 0 /\ input' \in {[input EXCEPT ![a] = 1], input}
      /\ ledger' = Charge(l, Input(a), n)
      /\ UNCHANGED <<up, data, link, dirty, pub, desc, head>>
      /\ job' = job /\ log' = log /\ want' = want /\ open' = open
  BY DEF Download
<1>2. ServiceTypes'
  BY <1>0, <1>1 DEF ServiceTypes
<1>3. JobAt(a)'
  BY <1>0, <1>1 DEF AttemptAt, JobAt
<1>4. LedgerLike(l) /\ DOMAIN ledger \subseteq DOMAIN l /\ \A path : At(ledger, path) =< At(l, path)
  BY <1>0, AccountedFacts
<1> HIDE DEF l
<1>5. \A path : At(ledger, path) \in Nat /\ At(l, path) \in Nat
  BY <1>0, <1>4, AtNat
<1>6. n \in Nat /\ At(l, Input(a)) =< n /\ 1 =< n
  BY <1>5
<1> HIDE DEF n
<1>7. /\ LedgerLike(ledger') /\ DOMAIN ledger \subseteq DOMAIN ledger'
      /\ At(ledger', Input(a)) = n
      /\ \A path : path # Input(a) => At(ledger', path) = At(l, path)
  BY <1>1, <1>4, <1>6 DEF LedgerLike, Charge, At
<1>8. ASSUME NEW path PROVE At(ledger, path) =< At(ledger', path)
  <2>1. CASE path = Input(a)
    BY <1>4, <1>5, <1>6, <1>7, <2>1, LessThrough
  <2>2. CASE path # Input(a)
    BY <1>4, <1>7, <2>2
  <2> QED
    BY <2>1, <2>2
<1>9. LedgerTypes' /\ \A b \in Attempt : LedgerKept(b)
  BY <1>7, <1>8 DEF LedgerTypes, LedgerLike, LedgerKept
<1>10. ChargeAt(a)'
  <2>1. Log(a) # Input(a)
    BY PathsDiffer
  <2>2. log'[a] + want'[a] =< At(ledger', Log(a))
    <3>1. log[a] + want[a] \in Nat /\ log[a] + want[a] =< At(ledger, Log(a))
      BY <1>0 DEF ServiceTypes, AttemptAt, ChargeAt
    <3>2. At(ledger', Log(a)) \in Nat /\ At(ledger, Log(a)) =< At(ledger', Log(a))
      BY <1>5, <1>7, <1>8, <2>1
    <3> QED
      BY <1>1, <1>5, <3>1, <3>2, LessThrough
  <2>3. input'[a] =< At(ledger', Input(a))
    <3>1. input'[a] \in {0, 1}
      BY <1>0, <1>1 DEF ServiceTypes
    <3> QED
      BY <1>6, <1>7, <3>1
  <2> QED
    BY <1>0, <1>1, <1>7, <2>2, <2>3 DEF AttemptAt, ChargeAt
<1>11. UploadsCharged(a) => UploadsCharged(a)'
  BY <1>0, <1>1, <1>9, UploadsStayCharged
<1>12. \A b \in Attempt \ {a} : input'[b] = input[b]
  BY <1>0, <1>1 DEF ServiceTypes
<1> QED
  BY <1>1, <1>2, <1>3, <1>9, <1>10, <1>11, <1>12, QuietStep

LEMMA UndownloadServes ==
    ASSUME PublisherInvariant, NEW a \in Attempt, Undownload(a)
    PROVE  Serves(a)
<1>0. AttemptAt(a) /\ ServiceTypes /\ PublisherTypes /\ LedgerLike(ledger)
  BY Facts
<1> DEFINE l == Accounted
<1>1. /\ input' = [input EXCEPT ![a] = 0]
      /\ ledger' = Drop(l, {Input(a)})
      /\ UNCHANGED <<up, data, link, dirty, pub, desc, head>>
      /\ job' = job /\ log' = log /\ want' = want /\ open' = open
  BY DEF Undownload
<1>2. ServiceTypes'
  BY <1>0, <1>1 DEF ServiceTypes
<1>3. JobAt(a)'
  BY <1>0, <1>1 DEF AttemptAt, JobAt
<1>4. LedgerLike(l) /\ DOMAIN ledger \subseteq DOMAIN l /\ \A path : At(ledger, path) =< At(l, path)
  BY <1>0, AccountedFacts
<1> HIDE DEF l
<1>5. \A path : At(ledger, path) \in Nat /\ At(l, path) \in Nat
  BY <1>0, <1>4, AtNat
<1>6. /\ LedgerLike(ledger') /\ DOMAIN ledger \ {Input(a)} \subseteq DOMAIN ledger'
      /\ \A path : path # Input(a) => At(ledger', path) = At(l, path)
  BY <1>1, <1>4 DEF LedgerLike, Drop, Restrict, At
<1>7. LedgerTypes' /\ \A path : At(ledger', path) \in Nat
  BY <1>6, AtNat DEF LedgerTypes, LedgerLike
<1>8. ASSUME NEW path, path # Input(a)
      PROVE  /\ At(ledger, path) =< At(ledger', path)
             /\ path \in DOMAIN ledger => path \in DOMAIN ledger'
  BY <1>4, <1>6, <1>8
<1>9. \A b \in Attempt \ {a} : LedgerKept(b)
  <2> SUFFICES ASSUME NEW b \in Attempt \ {a} PROVE LedgerKept(b)
    OBVIOUS
  <2>1. ASSUME NEW x
        PROVE  Input(a) \notin {Stage(b, x), Art(b, x), Log(b), Input(b), Desc(b, x)}
    BY PathsDiffer
  <2> QED
    BY <1>8, <2>1 DEF LedgerKept
<1>10. \A x : Input(a) \notin {Stage(a, x), Art(a, x), Log(a), Desc(a, x)}
  BY PathsDiffer
<1>11. ChargeAt(a)'
  <2>1. log'[a] + want'[a] =< At(ledger', Log(a))
    <3>1. log[a] + want[a] \in Nat /\ log[a] + want[a] =< At(ledger, Log(a))
      BY <1>0 DEF ServiceTypes, AttemptAt, ChargeAt
    <3>2. At(ledger, Log(a)) =< At(ledger', Log(a))
      BY <1>8, <1>10
    <3> QED
      BY <1>1, <1>5, <1>7, <3>1, <3>2, LessThrough
  <2>2. input'[a] =< At(ledger', Input(a))
    <3>1. input'[a] = 0
      BY <1>0, <1>1 DEF ServiceTypes
    <3> QED
      BY <1>7, <3>1
  <2>3. \A p \in Pub : Desc(a, p) \in DOMAIN ledger => Desc(a, p) \in DOMAIN ledger'
    BY <1>8, <1>10
  <2> QED
    BY <1>0, <1>1, <2>1, <2>2, <2>3 DEF AttemptAt, ChargeAt
<1>12. UploadsCharged(a) => UploadsCharged(a)'
  <2> SUFFICES ASSUME UploadsCharged(a), NEW u \in Upload
               PROVE  /\ up'[<<a, u>>].state = "open" => Size =< At(ledger', Stage(a, u))
                      /\ up'[<<a, u>>].state = "sealed" => Size =< At(ledger', Art(a, u))
    BY DEF UploadsCharged
  <2>1. /\ At(ledger, Stage(a, u)) =< At(ledger', Stage(a, u))
        /\ At(ledger, Art(a, u)) =< At(ledger', Art(a, u))
    BY <1>8, <1>10
  <2>2. Size \in Nat
    BY DeliveryAssumption DEF PublicationConstants
  <2> QED
    BY <1>1, <1>5, <1>7, <2>1, <2>2, LessThrough DEF UploadsCharged
<1>13. \A b \in Attempt \ {a} : input'[b] = input[b]
  BY <1>0, <1>1 DEF ServiceTypes
<1> QED
  BY <1>1, <1>2, <1>3, <1>7, <1>9, <1>11, <1>12, <1>13, QuietStep

\* What a dying publisher had done of its step changes no row.
LEMMA DieServes ==
    ASSUME PublisherInvariant, NEW a \in Attempt, Die(a)
    PROVE  Serves(a)
<1>0. AttemptAt(a) /\ UploadTypes /\ PubTypes /\ ServiceTypes /\ PublisherTypes /\ LedgerLike(ledger)
  BY Facts
<1>1. /\ open' = open \ {a} /\ job' = [job EXCEPT ![a] = Idle]
      /\ UNCHANGED <<up, data, dirty, pub, head, ledger>>
      /\ log' = log /\ input' = input /\ want' = want
      /\ Partial(a) \/ UNCHANGED <<link, desc>>
  BY DEF Die, Answered, rows
<1>2. \A b \in Attempt, v \in Upload :
         \/ link'[<<b, v>>] = link[<<b, v>>]
         \/ b = a /\ up[<<a, v>>].state = "open" /\ link[<<a, v>>] = {} /\ link'[<<a, v>>] = {"stage"}
  <2>1. CASE UNCHANGED <<link, desc>>
    BY <2>1
  <2>2. CASE Partial(a)
    <3>1. link' = [b \in Attempt \X Upload |->
                     IF job[a].op = "create" /\ b = <<a, job[a].x>> /\ link[b] = {}
                     THEN {"stage"} ELSE link[b]]
      BY <2>2 DEF Partial
    <3>2. job[a].op = "create" => up[<<a, job[a].x>>].state = "open"
      BY <1>0 DEF AttemptAt, JobAt
    <3> QED
      BY <3>1, <3>2
  <2> QED
    BY <1>1, <2>1, <2>2
<1>3. link' \in [Attempt \X Upload -> SUBSET {"stage", "art"}]
  <2>1. CASE UNCHANGED <<link, desc>>
    BY <1>0, <2>1 DEF UploadTypes
  <2>2. CASE Partial(a)
    BY <1>0, <2>2 DEF Partial, UploadTypes
  <2> QED
    BY <1>1, <2>1, <2>2
<1>4. /\ desc' \in [Attempt \X Pub -> {"absent", "torn", "whole", "synced"}]
      /\ \A b \in Attempt, q \in Pub :
            \/ desc'[<<b, q>>] = desc[<<b, q>>]
            \/ b = a /\ pub[<<a, q>>].state = "pending"
  <2>1. CASE desc' = desc
    BY <1>0, <2>1 DEF PubTypes
  <2>2. CASE desc' # desc
    <3>1. /\ job[a].op = "desc"
          /\ \E d \in {"absent", "torn", "whole"} : desc' = [desc EXCEPT ![<<a, job[a].x>>] = d]
      BY <1>1, <2>2 DEF Partial
    <3>2. pub[<<a, job[a].x>>].state = "pending"
      BY <1>0, <3>1 DEF AttemptAt, JobAt
    <3>3. PICK p \in Pub : p = job[a].x
      BY <3>1, JobTypes
    <3>4. PICK d \in {"absent", "torn", "whole"} : desc' = [desc EXCEPT ![<<a, p>>] = d]
      BY <3>1, <3>3
    <3> QED
      BY <1>0, <3>2, <3>3, <3>4 DEF PubTypes
  <2> QED
    BY <2>1, <2>2
<1>5. UploadTypes' /\ PubTypes' /\ ServiceTypes'
  <2>1. Idle \in Jobs
    BY JobTypes
  <2> QED
    BY <1>0, <1>1, <1>3, <1>4, <2>1 DEF UploadTypes, PubTypes, ServiceTypes
<1>6. \A u \in Upload : UploadAt(a, u)'
  BY <1>0, <1>1, <1>2 DEF AttemptAt, UploadAt
<1>7. \A p \in Pub : PublicationAt(a, p)'
  <2> SUFFICES ASSUME NEW p \in Pub PROVE PublicationAt(a, p)'
    OBVIOUS
  <2>1. PublicationAt(a, p)
    BY <1>0 DEF AttemptAt
  <2> QED
    BY <1>1, <1>4, <2>1 DEF PublicationAt
<1>8. \A k \in Kind : HeadAt(a, k)'
  BY <1>0, <1>1 DEF AttemptAt, HeadAt
<1>9. UndecidedAt(a)' /\ Newest(a)'
  BY <1>0, <1>1 DEF AttemptAt, UndecidedAt, UnresolvedOf, Newest
<1>10. JobAt(a)'
  <2>1. job'[a] = Idle
    BY <1>0, <1>1 DEF ServiceTypes
  <2> QED
    BY <1>1, <2>1 DEF JobAt, Idle
<1>11. LedgerTypes' /\ \A b \in Attempt : LedgerKept(b)
  BY <1>0, <1>1, LedgerStays
<1>12. ChargeAt(a)'
  <2>1. \A p \in Pub : desc'[<<a, p>>] # "absent" \/ pub'[<<a, p>>].state \in Unresolved
                => desc[<<a, p>>] # "absent" \/ pub[<<a, p>>].state \in Unresolved
    BY <1>1, <1>4 DEF Unresolved
  <2> QED
    BY <1>1, <1>11, <2>1, ChargesStay
<1>13. HeadsAdvance(a) /\ CommittedKept(a)
  BY <1>1 DEF HeadsAdvance, CommittedKept
<1>14. AnsweredKept(a)
  BY <1>0, <1>1 DEF AttemptAt, UploadAt, AnsweredKept
<1>15. SpoolKept(a)
  <2>1. Linked(a) => Linked(a)'
    <3> SUFFICES ASSUME Linked(a), NEW u \in Upload, up'[<<a, u>>].state = "sealed"
                 PROVE  "art" \in link'[<<a, u>>]
      BY DEF Linked
    <3> QED
      BY <1>1, <1>2 DEF Linked
  <2>2. UploadsCharged(a) => UploadsCharged(a)'
    BY <1>1 DEF UploadsCharged
  <2> QED
    BY <2>1, <2>2 DEF SpoolKept
<1>16. \A b \in Attempt \ {a} : Same(b)
  BY <1>0, <1>1, <1>2, <1>4 DEF Same, ServiceTypes
<1> QED
  BY <1>5, <1>6, <1>7, <1>8, <1>9, <1>10, <1>11, <1>12, <1>13, <1>14, <1>15, <1>16
     DEF Serves, PublisherTypes, AttemptAt

\* A power loss stops every publisher and takes what was not synced.
LEMMA LossOfBytes ==
    ASSUME PublisherInvariant, PowerLoss, NEW a \in Attempt, NEW u \in Upload
    PROVE  /\ data'[<<a, u>>] \in Seq(Byte)
           /\ up[<<a, u>>].off =< Len(data'[<<a, u>>])
           /\ Len(data'[<<a, u>>]) =< Size
           /\ SubSeq(data'[<<a, u>>], 1, up[<<a, u>>].off) = SubSeq(data[<<a, u>>], 1, up[<<a, u>>].off)
           /\ ~dirty[<<a, u>>] => data'[<<a, u>>] = data[<<a, u>>]
<1> DEFINE s == data[<<a, u>>]
           off == up[<<a, u>>].off
<1>1. UploadAt(a, u) /\ s \in Seq(Byte) /\ off \in Nat /\ Size \in Nat
  BY Facts, DeliveryAssumption DEF AttemptAt, UploadTypes, UploadRow, PublicationConstants
<1>2. Len(s) \in Nat /\ off =< Len(s) /\ Len(s) =< Size
  BY <1>1, LenProperties DEF UploadAt
<1>3. \/ data'[<<a, u>>] = s
      \/ dirty[<<a, u>>] /\ data'[<<a, u>>] = SubSeq(s, 1, Len(s) - 1)
  BY <1>1 DEF PowerLoss
<1>4. CASE data'[<<a, u>>] = s
  BY <1>1, <1>2, <1>4
<1>5. CASE dirty[<<a, u>>] /\ data'[<<a, u>>] = SubSeq(s, 1, Len(s) - 1)
  <2>1. off < Len(s)
    BY <1>1, <1>5 DEF UploadAt
  <2> DEFINE t == SubSeq(s, 1, Len(s) - 1)
  <2>2. t \in Seq(Byte) /\ Len(t) = Len(s) - 1 /\ SubSeq(t, 1, off) = SubSeq(s, 1, off)
    BY <1>1, <2>1, Truncated
  <2> HIDE DEF t, s, off
  <2>3. Len(t) \in Nat /\ off =< Len(t) /\ Len(t) =< Size
    BY <1>1, <1>2, <2>1, <2>2
  <2>4. data'[<<a, u>>] = t
    BY <1>5 DEF t
  <2> USE DEF s, off
  <2> HIDE DEF t
  <2> QED
    BY <1>5, <2>2, <2>3, <2>4
<1> QED
  BY <1>3, <1>4, <1>5

LEMMA LossKeeps ==
    ASSUME PublisherInvariant, PowerLoss
    PROVE  /\ PublisherInvariant'
           /\ \A a \in Attempt :
                 HeadsAdvance(a) /\ AnsweredKept(a) /\ CommittedKept(a) /\ SpoolKept(a)
<1>0. UploadTypes /\ PubTypes /\ ServiceTypes /\ LedgerLike(ledger)
  BY Facts
<1>1. /\ open' = {} /\ job' = [a \in Attempt |-> Idle]
      /\ desc' \in [Attempt \X Pub -> {"absent", "torn", "whole", "synced"}]
      /\ \A b \in Attempt \X Pub : desc'[b] \in Lost(desc[b])
      /\ dirty' = [b \in Attempt \X Upload |-> FALSE]
      /\ want' = [a \in Attempt |-> 0]
      /\ UNCHANGED <<up, pub, head, ledger, link>> /\ log' = log /\ input' = input
  BY DEF PowerLoss, rows
<1>2. UploadTypes'
  <2>1. \/ data' = data
        \/ data' = [b \in Attempt \X Upload |->
                       IF dirty[b] THEN SubSeq(data[b], 1, Len(data[b]) - 1) ELSE data[b]]
    BY DEF PowerLoss
  <2>2. DOMAIN data' = Attempt \X Upload /\ data' = [b \in DOMAIN data' |-> data'[b]]
    BY <1>0, <2>1 DEF UploadTypes
  <2>3. \A b \in Attempt \X Upload : data'[b] \in Seq(Byte)
    <3> SUFFICES ASSUME NEW a \in Attempt, NEW u \in Upload PROVE data'[<<a, u>>] \in Seq(Byte)
      OBVIOUS
    <3> QED
      BY LossOfBytes
  <2>4. data' \in [Attempt \X Upload -> Seq(Byte)]
    BY <2>2, <2>3
  <2> QED
    BY <1>0, <1>1, <2>4 DEF UploadTypes
<1>3. PubTypes' /\ ServiceTypes' /\ LedgerTypes'
  BY <1>0, <1>1 DEF PubTypes, ServiceTypes, Jobs, LedgerTypes, LedgerLike
<1>4. ASSUME NEW a \in Attempt
      PROVE  /\ AttemptAt(a)'
             /\ HeadsAdvance(a) /\ AnsweredKept(a) /\ CommittedKept(a) /\ SpoolKept(a)
  <2>0. AttemptAt(a)
    BY Facts
  <2>1. ASSUME NEW u \in Upload
        PROVE  /\ UploadAt(a, u)'
               /\ up[<<a, u>>].off =< Len(data'[<<a, u>>])
               /\ SubSeq(data'[<<a, u>>], 1, up[<<a, u>>].off) = SubSeq(data[<<a, u>>], 1, up[<<a, u>>].off)
               /\ up'[<<a, u>>].state = "sealed" => data'[<<a, u>>] = up'[<<a, u>>].sum
    <3>1. UploadAt(a, u) /\ data[<<a, u>>] \in Seq(Byte) /\ up'[<<a, u>>] = up[<<a, u>>]
          /\ link'[<<a, u>>] = link[<<a, u>>] /\ ~dirty'[<<a, u>>]
      BY <1>0, <1>1, <2>0 DEF AttemptAt, UploadTypes
    <3>2. /\ up[<<a, u>>].off =< Len(data'[<<a, u>>])
          /\ Len(data'[<<a, u>>]) =< Size
          /\ SubSeq(data'[<<a, u>>], 1, up[<<a, u>>].off) = SubSeq(data[<<a, u>>], 1, up[<<a, u>>].off)
          /\ ~dirty[<<a, u>>] => data'[<<a, u>>] = data[<<a, u>>]
      BY LossOfBytes
    <3>3. up[<<a, u>>].state \in {"none", "sealed"} => ~dirty[<<a, u>>]
      <4>1. Len(data[<<a, u>>]) \in Nat /\ Size \in Nat
        BY <3>1, LenProperties, DeliveryAssumption DEF PublicationConstants
      <4>2. CASE up[<<a, u>>].state = "none"
        <5>1. Len(data[<<a, u>>]) = 0 /\ up[<<a, u>>].off = 0
          BY <3>1, <4>2 DEF UploadAt
        <5> QED
          BY <3>1, <5>1 DEF UploadAt
      <4>3. CASE up[<<a, u>>].state = "sealed"
        <5>1. Len(data[<<a, u>>]) =< up[<<a, u>>].off /\ up[<<a, u>>].off = Size
          BY <3>1, <4>3 DEF UploadAt
        <5> QED
          BY <3>1, <4>1, <5>1 DEF UploadAt
      <4> QED
        BY <4>2, <4>3
    <3> QED
      BY <3>1, <3>2, <3>3 DEF UploadAt
  <2>2. ASSUME NEW p \in Pub PROVE PublicationAt(a, p)'
    <3>1. PublicationAt(a, p) /\ desc'[<<a, p>>] \in Lost(desc[<<a, p>>])
      BY <1>1, <2>0 DEF AttemptAt
    <3>2. /\ desc[<<a, p>>] = "synced" => desc'[<<a, p>>] = "synced"
          /\ desc[<<a, p>>] = "absent" => desc'[<<a, p>>] = "absent"
      BY <3>1 DEF Lost
    <3> QED
      BY <1>1, <3>1, <3>2 DEF PublicationAt
  <2>3. \A k \in Kind : HeadAt(a, k)'
    BY <1>1, <2>0 DEF AttemptAt, HeadAt
  <2>4. UndecidedAt(a)' /\ Newest(a)'
    BY <1>1, <2>0 DEF AttemptAt, UndecidedAt, UnresolvedOf, Newest
  <2>5. JobAt(a)'
    <3>1. job'[a] = Idle
      BY <1>1
    <3> QED
      BY <3>1 DEF JobAt, Idle
  <2>6. ChargeAt(a)'
    <3>1. log'[a] + want'[a] =< At(ledger', Log(a)) /\ input'[a] =< At(ledger', Input(a))
      <4>1. /\ log[a] \in Nat /\ want[a] \in Nat /\ At(ledger, Log(a)) \in Nat
            /\ log'[a] + want'[a] = log[a]
        BY <1>0, <1>1, AtNat DEF ServiceTypes
      <4>2. log[a] + want[a] =< At(ledger, Log(a)) /\ input[a] =< At(ledger, Input(a))
        BY <2>0 DEF AttemptAt, ChargeAt
      <4> QED
        BY <1>1, <4>1, <4>2
    <3>2. \A p \in Pub : desc'[<<a, p>>] # "absent" => desc[<<a, p>>] # "absent"
      <4> SUFFICES ASSUME NEW p \in Pub, desc[<<a, p>>] = "absent" PROVE desc'[<<a, p>>] = "absent"
        OBVIOUS
      <4>1. desc'[<<a, p>>] \in Lost(desc[<<a, p>>])
        BY <1>1
      <4> QED
        BY <4>1 DEF Lost
    <3> QED
      BY <1>1, <2>0, <3>1, <3>2 DEF AttemptAt, ChargeAt
  <2>7. HeadsAdvance(a) /\ CommittedKept(a) /\ SpoolKept(a)
    BY <1>1 DEF HeadsAdvance, CommittedKept, SpoolKept, Linked, UploadsCharged
  <2>8. AnsweredKept(a)
    BY <2>1 DEF AnsweredKept
  <2> QED
    BY <2>1, <2>2, <2>3, <2>4, <2>5, <2>6, <2>7, <2>8 DEF AttemptAt
<1> QED
  BY <1>2, <1>3, <1>4 DEF PublisherInvariant, PublisherTypes

-----------------------------------------------------------------------------
(* The publishers of a node.                                               *)
LEMMA PublisherStarts ==
    ASSUME PubInit
    PROVE  PublisherInvariant /\ \A a \in Attempt : Linked(a) /\ UploadsCharged(a)
<1>0. Size \in Nat
  BY DeliveryAssumption DEF PublicationConstants
<1>1. UploadTypes
  <2>1. <<>> \in Seq(Byte)
    OBVIOUS
  <2>2. NoUpload \in UploadRow
    BY <2>1 DEF NoUpload, UploadRow
  <2> QED
    BY <2>1, <2>2 DEF PubInit, UploadTypes
<1>2. PubTypes
  BY DEF PubInit, PubTypes, PubRow, NoPub
<1>3. ServiceTypes
  BY DEF PubInit, ServiceTypes, Jobs
<1>4. LedgerTypes
  BY DEF PubInit, LedgerTypes
<1>5. ASSUME NEW a \in Attempt PROVE AttemptAt(a)
  <2>1. \A u \in Upload : UploadAt(a, u)
    BY <1>0 DEF PubInit, UploadAt, NoUpload
  <2>2. \A p \in Pub : PublicationAt(a, p)
    BY DEF PubInit, PublicationAt, NoPub, Unresolved
  <2>3. \A k \in Kind : HeadAt(a, k)
    BY DEF PubInit, HeadAt
  <2>4. UndecidedAt(a)
    BY DEF PubInit, UndecidedAt, UnresolvedOf, NoPub, Unresolved
  <2>5. Newest(a)
    <3>1. \A p \in Pub : pub[<<a, p>>].seq = 0
      BY DEF PubInit, NoPub
    <3> QED
      BY <3>1 DEF Newest
  <2>6. JobAt(a)
    BY DEF PubInit, JobAt, Idle
  <2>7. ChargeAt(a)
    BY DEF PubInit, ChargeAt, At, NoPub, Unresolved
  <2> QED
    BY <2>1, <2>2, <2>3, <2>4, <2>5, <2>6, <2>7 DEF AttemptAt
<1>6. \A a \in Attempt : Linked(a) /\ UploadsCharged(a)
  BY DEF PubInit, Linked, UploadsCharged, NoUpload
<1> QED
  BY <1>1, <1>2, <1>3, <1>4, <1>5, <1>6 DEF PublisherInvariant, PublisherTypes

LEMMA ServeServes ==
    ASSUME PublisherInvariant, NEW a \in Attempt, Serve(a)
    PROVE  Serves(a)
BY BeginServes, BeginAgainServes, SealLinkServes, ChunkServes, ReconcileMissingServes,
   ReconcileFoundServes, CommitInsertServes DEF Serve

LEMMA ProgressServes ==
    ASSUME PublisherInvariant, NEW a \in Attempt, Progress(a)
    PROVE  Serves(a)
BY CreateStageServes, ChunkRowServes, SealUnlinkServes, SealRowServes, CommitWriteServes,
   CommitWriteFailsServes, CommitHeadServes, CommitHeadFailsServes DEF Progress

LEMMA PublisherSteps ==
    ASSUME PublisherInvariant, PubNext
    PROVE  /\ PublisherInvariant'
           /\ \A a \in Attempt :
                 HeadsAdvance(a) /\ AnsweredKept(a) /\ CommittedKept(a) /\ SpoolKept(a)
<1>1. CASE PowerLoss
  BY <1>1, LossKeeps
<1>2. ASSUME NEW a \in Attempt, Open(a) \/ Serve(a) \/ Progress(a) \/ Spool(a) \/ Die(a)
      PROVE  Serves(a)
  BY <1>2, OpenServes, ServeServes, ProgressServes, DieServes, CaptureReserveServes,
     CaptureWriteServes, DownloadServes, UndownloadServes DEF Spool
<1> QED
  BY <1>1, <1>2, ServesKeeps DEF PubNext

LEMMA PublisherRests ==
    ASSUME PublisherInvariant, UNCHANGED pvars
    PROVE  /\ PublisherInvariant'
           /\ \A a \in Attempt :
                 /\ HeadsAdvance(a) /\ AnsweredKept(a) /\ CommittedKept(a) /\ SpoolKept(a)
                 /\ Same(a)
<1>1. /\ UNCHANGED <<up, data, link, dirty, pub, desc, head, ledger, job, open, log, input, want>>
  BY DEF pvars, rows, files
<1>2. PublisherTypes'
  BY <1>1, Facts DEF PublisherTypes, UploadTypes, PubTypes, ServiceTypes, LedgerTypes
<1>3. \A a \in Attempt : Same(a)
  BY <1>1 DEF Same
<1>4. LedgerTypes' /\ \A a \in Attempt : LedgerKept(a)
  BY <1>1, Facts, LedgerStays
<1> QED
  BY <1>2, <1>3, <1>4, RestKept DEF PublisherInvariant

\* What the invariant says of a spool.
LEMMA SpoolIsSound ==
    ASSUME PublisherInvariant
    PROVE  /\ HeadIsDurable /\ OneUndecided
           /\ (\A a \in Attempt :
                  UploadsCharged(a) \/ \A u \in Upload : link[<<a, u>>] = {}) => DiskIsCharged
<1>1. HeadIsDurable
  <2> SUFFICES ASSUME NEW a \in Attempt, NEW k \in Kind, head[<<a, k>>] # None
               PROVE  LET p == head[<<a, k>>]
                      IN  /\ pub[<<a, p>>].state = "committed"
                          /\ pub[<<a, p>>].kind = k
                          /\ desc[<<a, p>>] = "synced"
                          /\ \A u \in pub[<<a, p>>].arts : up[<<a, u>>].state = "sealed"
    BY DEF HeadIsDurable
  <2> DEFINE p == head[<<a, k>>]
  <2>1. p \in Pub /\ HeadAt(a, k)
    BY Facts DEF PubTypes, AttemptAt
  <2>2. PublicationAt(a, p)
    BY <2>1, Facts DEF AttemptAt
  <2> QED
    BY <2>1, <2>2 DEF HeadAt, PublicationAt
<1>2. OneUndecided
  BY Facts DEF AttemptAt, UndecidedAt, OneUndecided
<1>3. ASSUME \A a \in Attempt : UploadsCharged(a) \/ \A u \in Upload : link[<<a, u>>] = {}
      PROVE  DiskIsCharged
  <2>1. ASSUME NEW a \in Attempt, NEW u \in Upload, link[<<a, u>>] # {}
        PROVE  Len(data[<<a, u>>]) =< At(ledger, Stage(a, u)) + At(ledger, Art(a, u))
    <3>1. UploadAt(a, u) /\ up[<<a, u>>].state \in {"none", "open", "sealed"}
          /\ data[<<a, u>>] \in Seq(Byte)
      BY Facts DEF AttemptAt, UploadTypes, UploadRow
    <3>2. UploadsCharged(a)
      BY <1>3, <2>1
    <3>3. \/ Size =< At(ledger, Stage(a, u))
          \/ Size =< At(ledger, Art(a, u))
      BY <2>1, <3>1, <3>2 DEF UploadAt, UploadsCharged
    <3>4. At(ledger, Stage(a, u)) \in Nat /\ At(ledger, Art(a, u)) \in Nat
      BY Facts, AtNat
    <3>5. Len(data[<<a, u>>]) \in Nat /\ Size \in Nat /\ Len(data[<<a, u>>]) =< Size
      BY <3>1, LenProperties, DeliveryAssumption DEF UploadAt, PublicationConstants
    <3> QED
      BY <3>3, <3>4, <3>5
  <2>2. ASSUME NEW a \in Attempt PROVE ChargeAt(a)
    BY Facts DEF AttemptAt
  <2> QED
    BY <2>1, <2>2 DEF DiskIsCharged, ChargeAt
<1> QED
  BY <1>1, <1>2, <1>3

LEMMA PublishedStays ==
    ASSUME \A a \in Attempt : HeadsAdvance(a) /\ AnsweredKept(a)
    PROVE  AdvancesHeads /\ KeepsAnswered
<1>1. AdvancesHeads
  BY DEF AdvancesHeads, HeadsAdvance
<1>2. KeepsAnswered
  <2> SUFFICES ASSUME NEW b \in Attempt \X Upload
               PROVE  /\ up[b].off =< Len(data'[b])
                      /\ SubSeq(data'[b], 1, up[b].off) = SubSeq(data[b], 1, up[b].off)
                      /\ up'[b].state = "sealed" => data'[b] = up'[b].sum
    BY DEF KeepsAnswered
  <2>1. PICK a \in Attempt, u \in Upload : b = <<a, u>>
    OBVIOUS
  <2>2. AnsweredKept(a)
    OBVIOUS
  <2> QED
    BY <2>1, <2>2 DEF AnsweredKept
<1> QED
  BY <1>1, <1>2

Publishers == PubInit /\ [][PubNext]_pvars
SpoolInvariant == PublisherInvariant /\ \A a \in Attempt : Linked(a) /\ UploadsCharged(a)

LEMMA SpoolSteps ==
    ASSUME SpoolInvariant, [PubNext]_pvars
    PROVE  SpoolInvariant'
<1>1. PublisherInvariant' /\ \A a \in Attempt : SpoolKept(a)
  BY PublisherSteps, PublisherRests DEF SpoolInvariant
<1> QED
  BY <1>1 DEF SpoolInvariant, SpoolKept

(* What a node's publishers keep on disk, in any sequence of requests,     *)
(* deaths and power losses: a head selects a committed publication that is *)
(* there for good, at most the newest one is undecided, and everything on  *)
(* disk is charged (publication.rs).                                       *)
THEOREM SpoolSound == Publishers => [](HeadIsDurable /\ OneUndecided /\ DiskIsCharged)
<1>1. PubInit => SpoolInvariant
  BY PublisherStarts DEF SpoolInvariant
<1>2. SpoolInvariant /\ [PubNext]_pvars => SpoolInvariant'
  BY SpoolSteps
<1>3. SpoolInvariant => HeadIsDurable /\ OneUndecided /\ DiskIsCharged
  BY SpoolIsSound DEF SpoolInvariant
<1> QED
  BY <1>1, <1>2, <1>3, PTL DEF Publishers

(* Heads only advance, the result head moves once, and a byte that was     *)
(* answered or hashed keeps its value, through power losses too (chunk,    *)
(* finish, commit, reconcile).                                             *)
THEOREM PublishedKept == Publishers => [][AdvancesHeads /\ KeepsAnswered]_pvars
<1>1. PubInit => PublisherInvariant
  BY PublisherStarts
<1>2. PublisherInvariant /\ [PubNext]_pvars => PublisherInvariant'
  BY PublisherSteps, PublisherRests
<1>3. PublisherInvariant /\ [PubNext]_pvars => [AdvancesHeads /\ KeepsAnswered]_pvars
  BY PublisherSteps, PublishedStays
<1> QED
  BY <1>1, <1>2, <1>3, PTL DEF Publishers

-----------------------------------------------------------------------------
(* Delivery and collection.                                                *)
LEMMA DeliveryFacts ==
    ASSUME DeliveryInvariant
    PROVE  /\ PublisherInvariant /\ DeliveryTypes
           /\ \A a \in Attempt : /\ DeliveryAt(a) /\ SupervisorAt(a) /\ ReportAt(a) /\ SpoolAt(a)
                                 /\ \A k \in Kind : TaskAt(a, k)
BY DEF DeliveryInvariant, DeliveryAt

\* The agent's words for a report are no publications.
LEMMA Words ==
    /\ Command \notin Pub /\ Failed \notin Pub /\ None \notin Pub
    /\ Command # None /\ Failed # None /\ Command # Failed
    /\ NoTask.desc = None /\ NoTask.left = {}
BY DeliveryAssumption DEF PublicationConstants, DeliveryConstants, Command, Failed, NoTask

\* A task in flight.
LEMMA TaskTypes ==
    ASSUME DeliveryTypes, NEW a \in Attempt, NEW k \in Kind
    PROVE  /\ task[a][k].desc \in Pub \cup {None, Command} /\ task[a][k].left \subseteq Upload
           /\ task[a][k] = [desc |-> task[a][k].desc, left |-> task[a][k].left]
BY DEF DeliveryTypes

\* What the result head and its candidates say to the agent does not change.
ResultRests(a) ==
    /\ head'[<<a, "result">>] = head[<<a, "result">>]
    /\ HeadReadable(a, "result") => HeadReadable(a, "result")'

LEMMA SameResultRests ==
    ASSUME NEW a \in Attempt, \A p \in Pub : pub'[<<a, p>>] = pub[<<a, p>>],
           \A k \in Kind : head'[<<a, k>>] = head[<<a, k>>]
    PROVE  ResultRests(a) /\ CommittedKept(a)
<1>1. head'[<<a, "result">>] = head[<<a, "result">>]
  BY DEF Kind
<1>2. UnresolvedOf(a)' = UnresolvedOf(a)
  BY DEF UnresolvedOf
<1> QED
  BY <1>1, <1>2 DEF ResultRests, HeadReadable, UnresolvedOf, CommittedKept

LEMMA TaskStays ==
    ASSUME DeliveryInvariant, NEW a \in Attempt, NEW k \in Kind, task'[a][k] = task[a][k],
           CommittedKept(a), stored[a] \subseteq stored'[a],
           k = "result" /\ task[a][k] # NoTask => ResultRests(a)
    PROVE  TaskAt(a, k)'
<1> DEFINE t == task[a][k]
<1>1. TaskAt(a, k) /\ t.desc \in Pub \cup {None, Command}
  BY DeliveryFacts, TaskTypes
<1>2. CASE t = NoTask
  BY <1>2, Words DEF TaskAt
<1>3. CASE t # NoTask
  <2>1. k = "result" => ResultRests(a)
    BY <1>3
  <2>2. ASSUME t.desc \in Pub
        PROVE  pub'[<<a, t.desc>>] = pub[<<a, t.desc>>]
    BY <1>1, <2>2 DEF TaskAt, CommittedKept
  <2>3. k = "result" /\ NoResult(a) => NoResult(a)'
    BY <2>1 DEF NoResult, ResultRests
  <2>4. k = "result" => head'[<<a, "result">>] = head[<<a, "result">>]
    BY <2>1 DEF ResultRests
  <2> QED
    BY <1>1, <2>2, <2>3, <2>4 DEF TaskAt
<1> QED
  BY <1>2, <1>3

LEMMA ReportStays ==
    ASSUME DeliveryInvariant, NEW a \in Attempt,
           phase[a] = "running" \/ phase'[a] = "released",
           phase'[a] = "running" => task'[a]["result"] = NoTask,
           receipt'[a] = receipt[a], accepted'[a] = accepted[a],
           poll'[a] = poll[a] \/ poll'[a] = {},
           a \in slots' /\ receipt[a] # None => a \in slots /\ reported'[a] = reported[a],
           CommittedKept(a), stored[a] \subseteq stored'[a],
           phase[a] = "running" \/ ResultRests(a)
    PROVE  ReportAt(a)'
<1>1. ReportAt(a) /\ PublisherInvariant /\ DeliveryTypes
  BY DeliveryFacts
<1>2. CASE phase[a] = "running"
  <2>1. receipt'[a] = None /\ accepted'[a] = None /\ poll'[a] = {}
    BY <1>1, <1>2 DEF ReportAt
  <2> QED
    BY <2>1, Words DEF ReportAt
<1>3. CASE phase[a] # "running"
  <2>1. ResultRests(a) /\ phase'[a] = "released"
    BY <1>3
  <2>2. ASSUME accepted[a] \in Pub
        PROVE  pub'[<<a, accepted[a]>>] = pub[<<a, accepted[a]>>]
    <3>1. head[<<a, "result">>] = accepted[a] /\ accepted[a] # None
      BY <1>1, <2>2, Words DEF ReportAt
    <3>2. HeadAt(a, "result")
      BY <1>1, Facts DEF AttemptAt, Kind
    <3> QED
      BY <2>2, <3>1, <3>2 DEF HeadAt, CommittedKept
  <2>3. NoResult(a) => NoResult(a)'
    BY <2>1 DEF NoResult, ResultRests
  <2> QED
    BY <1>1, <2>1, <2>2, <2>3 DEF ReportAt, ResultRests
<1> QED
  BY <1>2, <1>3

LEMMA SpoolStays ==
    ASSUME DeliveryInvariant, NEW a \in Attempt, SpoolKept(a),
           collected'[a] = collected[a],
           Shipped(a) => Shipped(a)',
           collected[a] => \A u \in Upload : link'[<<a, u>>] = {}
    PROVE  SpoolAt(a)'
<1>1. SpoolAt(a)
  BY DeliveryFacts
<1> QED
  BY <1>1 DEF SpoolAt, SpoolKept

\* Nothing of the delivery of b changes.
DeliveryRests(b) ==
    /\ leader'[b] = leader[b] /\ phase'[b] = phase[b] /\ sup'[b] = sup[b]
    /\ outcome'[b] = outcome[b] /\ queue'[b] = queue[b]
    /\ (b \in slots' <=> b \in slots) /\ reported'[b] = reported[b]
    /\ poll'[b] = poll[b] /\ (\A k \in Kind : task'[b][k] = task[b][k])
    /\ receipt'[b] = receipt[b] /\ accepted'[b] = accepted[b]
    /\ collected'[b] = collected[b] /\ stored'[b] = stored[b]

LEMMA ShippedStays ==
    ASSUME NEW a \in Attempt, Shipped(a),
           sup'[a] = sup[a], phase'[a] = phase[a], receipt'[a] = receipt[a],
           head'[<<a, "result">>] = head[<<a, "result">>],
           poll'[a] = {}, \A k \in Kind : task'[a][k] = task[a][k] \/ task'[a][k] = NoTask,
           a \in slots' => a \in slots /\ reported'[a] = reported[a]
    PROVE  Shipped(a)'
BY DEF Shipped

LEMMA OthersStay ==
    ASSUME DeliveryInvariant, NEW b \in Attempt, Same(b), LedgerKept(b), LedgerTypes',
           DeliveryRests(b)
    PROVE  DeliveryAt(b)'
<1>1. PublisherInvariant /\ SupervisorAt(b)
  BY DeliveryFacts
<1>2. CommittedKept(b) /\ SpoolKept(b)
  BY <1>1, RestKept
<1>3. ResultRests(b)
  BY SameResultRests DEF Same
<1>4. SupervisorAt(b)'
  BY <1>1 DEF SupervisorAt, Same, DeliveryRests
<1>5. \A k \in Kind : TaskAt(b, k)'
  BY <1>2, <1>3, TaskStays DEF DeliveryRests
<1>6. ReportAt(b)'
  <2>1. phase[b] \in {"running", "released"} /\ ReportAt(b)
    BY DeliveryFacts DEF DeliveryTypes
  <2>2. task'[b]["result"] = task[b]["result"]
    BY DEF DeliveryRests, Kind
  <2> QED
    BY <1>2, <1>3, <2>1, <2>2, ReportStays DEF DeliveryRests, ReportAt
<1>7. SpoolAt(b)'
  <2>1. Shipped(b) => Shipped(b)'
    <3>1. head'[<<b, "result">>] = head[<<b, "result">>]
      BY DEF Same, Kind
    <3> QED
      BY <3>1, ShippedStays DEF DeliveryRests, Shipped
  <2>2. collected[b] => \A u \in Upload : link'[<<b, u>>] = {}
    BY DeliveryFacts DEF SpoolAt, Same
  <2> QED
    BY <1>2, <2>1, <2>2, SpoolStays DEF DeliveryRests
<1> QED
  BY <1>4, <1>5, <1>6, <1>7 DEF DeliveryAt

LEMMA OneDelivers ==
    ASSUME DeliveryInvariant, NEW a \in Attempt, Serves(a) \/ UNCHANGED pvars,
           DeliveryTypes', \A b \in Attempt \ {a} : DeliveryRests(b), DeliveryAt(a)'
    PROVE  DeliveryInvariant'
<1>1. PublisherInvariant
  BY DeliveryFacts
<1>2. PublisherInvariant' /\ LedgerTypes' /\ \A b \in Attempt \ {a} : Same(b) /\ LedgerKept(b)
  <2>1. CASE Serves(a)
    BY <1>1, <2>1, ServesKeeps DEF Serves, PublisherTypes
  <2>2. CASE UNCHANGED pvars
    <3>1. ledger' = ledger
      BY <2>2 DEF pvars, rows
    <3>2. LedgerTypes' /\ \A b \in Attempt : LedgerKept(b)
      BY <1>1, <3>1, Facts, LedgerStays
    <3> QED
      BY <1>1, <2>2, <3>2, PublisherRests
  <2> QED
    BY <2>1, <2>2
<1>3. \A b \in Attempt : DeliveryAt(b)'
  <2> SUFFICES ASSUME NEW b \in Attempt PROVE DeliveryAt(b)'
    OBVIOUS
  <2>1. CASE b = a
    BY <2>1
  <2>2. CASE b # a
    BY <1>2, <2>2, OthersStay
  <2> QED
    BY <2>1, <2>2
<1> QED
  BY <1>2, <1>3 DEF DeliveryInvariant

\* Publishers rest.
LEMMA PublishersRest ==
    ASSUME DeliveryInvariant, UNCHANGED pvars, NEW a \in Attempt
    PROVE  /\ CommittedKept(a) /\ SpoolKept(a) /\ ResultRests(a)
           /\ UNCHANGED <<up, link, pub, head, job, open>>
<1>1. PublisherInvariant
  BY DeliveryFacts
<1>2. CommittedKept(a) /\ SpoolKept(a) /\ Same(a)
  BY <1>1, PublisherRests
<1>3. UNCHANGED <<up, link, pub, head, job, open>>
  BY DEF pvars, rows, files
<1> QED
  BY <1>2, <1>3, SameResultRests DEF Same

\* An attempt whose leader runs has no report, an attempt with one has no leader.
LEMMA RunningAt ==
    ASSUME DeliveryInvariant, NEW a \in Attempt, leader[a] = "running" \/ phase[a] = "running"
    PROVE  /\ phase[a] = "running" /\ outcome[a] = "none"
           /\ receipt[a] = None /\ accepted[a] = None /\ poll[a] = {}
           /\ task[a]["result"] = NoTask
           /\ ~Shipped(a) /\ ~collected[a]
           /\ leader[a] = "running" => sup[a] = "up"
<1>1. SupervisorAt(a) /\ ReportAt(a) /\ SpoolAt(a) /\ DeliveryTypes
  BY DeliveryFacts
<1>2. phase[a] = "running"
  BY <1>1 DEF SupervisorAt, DeliveryTypes
<1> QED
  BY <1>1, <1>2 DEF SupervisorAt, ReportAt, SpoolAt, Shipped, DeliveryTypes

\* A publisher serves an attempt that runs.
LEMMA RunningServes ==
    ASSUME DeliveryInvariant, NEW a \in Attempt, Serves(a) \/ UNCHANGED pvars,
           phase[a] = "running", DeliveryTypes', \A b \in Attempt \ {a} : DeliveryRests(b),
           UNCHANGED <<phase, poll, task, receipt, accepted, collected, stored>>,
           SupervisorAt(a)'
    PROVE  DeliveryInvariant'
<1>1. CommittedKept(a) /\ SpoolKept(a)
  BY PublishersRest DEF Serves
<1>2. /\ receipt[a] = None /\ task[a]["result"] = NoTask /\ ~Shipped(a) /\ ~collected[a]
      /\ stored[a] \subseteq stored'[a]
  BY RunningAt
<1>3. \A k \in Kind : TaskAt(a, k)'
  BY <1>1, <1>2, TaskStays DEF Kind
<1>4. ReportAt(a)'
  BY <1>1, <1>2, ReportStays
<1>5. SpoolAt(a)'
  BY <1>1, <1>2, SpoolStays
<1> QED
  BY <1>3, <1>4, <1>5, OneDelivers DEF DeliveryAt

LEMMA LaunchDelivers ==
    ASSUME DeliveryInvariant, NEW a \in Attempt, Launch(a)
    PROVE  DeliveryInvariant'
<1>1. /\ sup[a] = "up" /\ phase[a] = "running" /\ Open(a) /\ UNCHANGED <<local, agentv, remote>>
      /\ job' = job
  BY DEF Launch, Open
<1>2. Serves(a)
  BY <1>1, DeliveryFacts, OpenServes
<1>3. DeliveryTypes' /\ \A b \in Attempt : DeliveryRests(b)
  BY <1>1, DeliveryFacts DEF DeliveryTypes, DeliveryRests, local, agentv, remote
<1>4. SupervisorAt(a)'
  <2>1. SupervisorAt(a) /\ outcome[a] = "none"
    BY <1>1, DeliveryFacts, RunningAt
  <2> QED
    BY <1>1, <2>1 DEF SupervisorAt, local
<1> QED
  BY <1>1, <1>2, <1>3, <1>4, RunningServes DEF local, agentv, remote

LEMMA RequestDelivers ==
    ASSUME DeliveryInvariant, NEW a \in Attempt, Request(a)
    PROVE  DeliveryInvariant'
<1>1. leader[a] = "running" /\ UNCHANGED <<local, agentv, remote>>
  BY DEF Request
<1>2. Serves(a)
  BY DeliveryFacts, ServeServes DEF Request
<1>3. DeliveryTypes' /\ \A b \in Attempt : DeliveryRests(b)
  BY <1>1, DeliveryFacts DEF DeliveryTypes, DeliveryRests, local, agentv, remote
<1>4. phase[a] = "running" /\ outcome[a] = "none" /\ sup[a] = "up"
  BY <1>1, RunningAt
<1>5. SupervisorAt(a)'
  BY <1>1, <1>4 DEF SupervisorAt, local
<1> QED
  BY <1>1, <1>2, <1>3, <1>4, <1>5, RunningServes DEF local, agentv, remote

LEMMA PublishDelivers ==
    ASSUME DeliveryInvariant, NEW a \in Attempt, Publish(a)
    PROVE  DeliveryInvariant'
<1>1. UNCHANGED <<local, agentv, remote>>
  BY DEF Publish
<1>2. Serves(a)
  BY DeliveryFacts, ProgressServes DEF Publish
<1>3. DeliveryTypes' /\ \A b \in Attempt : DeliveryRests(b)
  BY <1>1, DeliveryFacts DEF DeliveryTypes, DeliveryRests, local, agentv, remote
<1>4. leader[a] = "running"
  <2>0. job[a].op \in {"create", "chunk", "linked", "unlinked", "desc", "head"}
    <3>1. CASE CreateStage(a) \/ ChunkRow(a)
      BY <3>1 DEF CreateStage, ChunkRow, Serving
    <3>2. CASE SealUnlink(a) \/ SealRow(a)
      BY <3>2 DEF SealUnlink, SealRow, Serving
    <3>3. CASE CommitWrite(a) \/ CommitWriteFails(a)
      BY <3>3 DEF CommitWrite, CommitWriteFails, Serving
    <3>4. CASE CommitHead(a) \/ CommitHeadFails(a)
      BY <3>4 DEF CommitHead, CommitHeadFails, Serving
    <3> QED
      BY <3>1, <3>2, <3>3, <3>4 DEF Publish, Progress
  <2>1. job[a] # Idle
    BY <2>0 DEF Idle
  <2> QED
    BY <2>1, DeliveryFacts DEF SupervisorAt
<1>5. phase[a] = "running" /\ outcome[a] = "none" /\ sup[a] = "up"
  BY <1>4, RunningAt
<1>6. SupervisorAt(a)'
  BY <1>1, <1>4, <1>5 DEF SupervisorAt, local
<1> QED
  BY <1>1, <1>2, <1>3, <1>5, <1>6, RunningServes DEF local, agentv, remote

LEMMA TakeResultDelivers ==
    ASSUME DeliveryInvariant, NEW a \in Attempt, TakeResult(a)
    PROVE  DeliveryInvariant'
<1>1. /\ queue[a] # {} /\ queue' = [queue EXCEPT ![a] = {}]
      /\ UNCHANGED <<leader, phase, sup, outcome, agentv, remote>>
  BY DEF TakeResult
<1>2. leader[a] = "running"
  BY <1>1, DeliveryFacts DEF SupervisorAt
<1>3. Serves(a) \/ UNCHANGED pvars
  <2>1. PICK r \in queue[a] : IF MayCommit(a, r[1], "result", r[2])
                              THEN CommitInsert(a, r[1], "result", r[2])
                              ELSE UNCHANGED pvars
    BY DEF TakeResult
  <2>2. r[1] \in Pub /\ r[2] \in SUBSET Upload
    BY DeliveryFacts DEF DeliveryTypes
  <2>3. "result" \in Kind
    BY DEF Kind
  <2> QED
    BY <2>1, <2>2, <2>3, DeliveryFacts, CommitInsertServes
<1>4. DeliveryTypes' /\ \A b \in Attempt \ {a} : DeliveryRests(b)
  BY <1>1, DeliveryFacts DEF DeliveryTypes, DeliveryRests, agentv, remote
<1>5. phase[a] = "running" /\ outcome[a] = "none" /\ sup[a] = "up"
  BY <1>2, RunningAt
<1>6. SupervisorAt(a)'
  BY <1>1, <1>2, <1>5 DEF SupervisorAt
<1> QED
  BY <1>1, <1>3, <1>4, <1>5, <1>6, RunningServes DEF agentv, remote

LEMMA SubmitResultDelivers ==
    ASSUME DeliveryInvariant, NEW a \in Attempt, NEW p \in Pub, NEW arts \in SUBSET Upload,
           SubmitResult(a, p, arts)
    PROVE  DeliveryInvariant'
<1>1. /\ leader[a] = "running" /\ queue' = [queue EXCEPT ![a] = {<<p, arts>>}]
      /\ UNCHANGED <<pvars, leader, phase, sup, outcome, agentv, remote>>
  BY DEF SubmitResult
<1>2. DeliveryTypes' /\ \A b \in Attempt \ {a} : DeliveryRests(b)
  <2>1. {<<p, arts>>} \in SUBSET (Pub \X SUBSET Upload)
    OBVIOUS
  <2>2. queue' \in [Attempt -> SUBSET (Pub \X SUBSET Upload)]
    BY <1>1, <2>1, DeliveryFacts DEF DeliveryTypes
  <2>3. \A b \in Attempt \ {a} : queue'[b] = queue[b]
    BY <1>1, DeliveryFacts DEF DeliveryTypes
  <2> QED
    BY <1>1, <2>2, <2>3, DeliveryFacts DEF DeliveryTypes, DeliveryRests, agentv, remote
<1>3. phase[a] = "running" /\ outcome[a] = "none" /\ sup[a] = "up"
  BY <1>1, RunningAt
<1>4. SupervisorAt(a)'
  BY <1>1, <1>3 DEF SupervisorAt
<1> QED
  BY <1>1, <1>2, <1>3, <1>4, RunningServes DEF agentv, remote

\* Without WorkerWaits the request in the queue would outlive its leader.
LEMMA LeaderExitDelivers ==
    ASSUME DeliveryInvariant, WorkerWaits, NEW a \in Attempt, LeaderExit(a)
    PROVE  DeliveryInvariant'
<1>1. /\ leader[a] = "running" /\ queue[a] = {} /\ job[a] = Idle
      /\ UNCHANGED <<pvars, phase, sup, outcome, queue, agentv, remote>>
  BY DEF LeaderExit
<1>2. PICK s \in {"ok", "bad"} : leader' = [leader EXCEPT ![a] = s]
  BY DEF LeaderExit
<1>3. DeliveryTypes' /\ \A b \in Attempt \ {a} : DeliveryRests(b)
  BY <1>1, <1>2, DeliveryFacts DEF DeliveryTypes, DeliveryRests, agentv, remote
<1>4. phase[a] = "running" /\ outcome[a] = "none" /\ sup[a] = "up"
  BY <1>1, RunningAt
<1>5. SupervisorAt(a)'
  <2>1. job' = job
    BY <1>1 DEF pvars
  <2> QED
    BY <1>1, <1>4, <2>1 DEF SupervisorAt
<1> QED
  BY <1>1, <1>3, <1>4, <1>5, RunningServes DEF agentv, remote

\* The supervisor's own steps change what is known of its processes only.
LEMMA SupervisorMoves ==
    ASSUME DeliveryInvariant, NEW a \in Attempt, UNCHANGED pvars, UNCHANGED <<agentv, remote>>,
           DeliveryTypes', \A b \in Attempt \ {a} : DeliveryRests(b),
           phase'[a] = phase[a] \/ phase'[a] = "released",
           Shipped(a) => UNCHANGED <<sup, phase>>,
           SupervisorAt(a)'
    PROVE  DeliveryInvariant'
<1>1. /\ CommittedKept(a) /\ SpoolKept(a) /\ ResultRests(a)
      /\ link' = link /\ head' = head
  BY PublishersRest
<1>2. /\ task' = task /\ receipt' = receipt /\ accepted' = accepted /\ poll' = poll
      /\ slots' = slots /\ reported' = reported /\ stored' = stored /\ collected' = collected
  BY DEF agentv, remote
<1>3. \A k \in Kind : TaskAt(a, k)'
  BY <1>1, <1>2, TaskStays
<1>4. ReportAt(a)'
  <2>1. phase[a] \in {"running", "released"} /\ ReportAt(a)
    BY DeliveryFacts DEF DeliveryTypes
  <2>2. phase[a] = "running" \/ phase'[a] = "released"
    BY <2>1
  <2>3. phase'[a] = "running" => task'[a]["result"] = NoTask
    BY <1>2, <2>1 DEF ReportAt
  <2> QED
    BY <1>1, <1>2, <2>2, <2>3, ReportStays
<1>5. SpoolAt(a)'
  <2>1. Shipped(a) => Shipped(a)'
    BY <1>1, <1>2, ShippedStays DEF Shipped
  <2>2. collected[a] => \A u \in Upload : link'[<<a, u>>] = {}
    BY <1>1, DeliveryFacts DEF SpoolAt
  <2> QED
    BY <1>1, <1>2, <2>1, <2>2, SpoolStays
<1> QED
  BY <1>3, <1>4, <1>5, OneDelivers DEF DeliveryAt

LEMMA ReleaseDelivers ==
    ASSUME DeliveryInvariant, NEW a \in Attempt, Release(a) \/ Recover(a)
    PROVE  DeliveryInvariant'
<1>1. /\ phase[a] = "running" /\ phase' = [phase EXCEPT ![a] = "released"]
      /\ UNCHANGED pvars /\ UNCHANGED <<leader, sup, outcome, queue, agentv, remote>>
      /\ leader[a] # "running" \/ sup[a] = "gone"
  BY DEF Release, Recover
<1>2. DeliveryTypes' /\ \A b \in Attempt \ {a} : DeliveryRests(b)
  BY <1>1, DeliveryFacts DEF DeliveryTypes, DeliveryRests, agentv, remote
<1>3. phase'[a] = "released"
  BY <1>1, DeliveryFacts DEF DeliveryTypes
<1>4. SupervisorAt(a)'
  <2>1. SupervisorAt(a) /\ job' = job /\ open' = open
    BY <1>1, DeliveryFacts DEF pvars
  <2> QED
    BY <1>1, <1>3, <2>1 DEF SupervisorAt
<1>5. ~Shipped(a)
  BY <1>1 DEF Shipped
<1> QED
  BY <1>1, <1>2, <1>3, <1>4, <1>5, SupervisorMoves

LEMMA ExitDelivers ==
    ASSUME DeliveryInvariant, NEW a \in Attempt, Exit(a)
    PROVE  DeliveryInvariant'
<1>1. /\ sup[a] = "up" /\ outcome[a] # "none" /\ sup' = [sup EXCEPT ![a] = "gone"]
      /\ UNCHANGED pvars /\ UNCHANGED <<leader, phase, outcome, queue, agentv, remote>>
  BY DEF Exit
<1>2. DeliveryTypes' /\ \A b \in Attempt \ {a} : DeliveryRests(b)
  BY <1>1, DeliveryFacts DEF DeliveryTypes, DeliveryRests, agentv, remote
<1>3. SupervisorAt(a)'
  <2>1. SupervisorAt(a) /\ job' = job /\ open' = open
    BY <1>1, DeliveryFacts DEF pvars
  <2> QED
    BY <1>1, <2>1 DEF SupervisorAt
<1>4. ~Shipped(a)
  BY <1>1 DEF Shipped
<1> QED
  BY <1>1, <1>2, <1>3, <1>4, SupervisorMoves

\* The publisher's thread is joined before the outcome is written.
LEMMA DrainDelivers ==
    ASSUME DeliveryInvariant, NEW a \in Attempt, Drain(a)
    PROVE  DeliveryInvariant'
<1>0. PublisherInvariant /\ DeliveryTypes /\ SupervisorAt(a) /\ SpoolAt(a)
  BY DeliveryFacts
<1>1. /\ sup[a] = "up" /\ phase[a] = "released" /\ a \in open
      /\ queue[a] = {} /\ job[a] = Idle
      /\ open' = open \ {a} /\ outcome' = [outcome EXCEPT ![a] = leader[a]]
      /\ UNCHANGED <<up, data, link, dirty, pub, desc, head, ledger, log, input, want, job>>
      /\ UNCHANGED <<leader, phase, sup, queue, agentv, remote>>
  BY DEF Drain, rows, files
<1>2. Serves(a)
  <2>1. AttemptAt(a) /\ ServiceTypes /\ LedgerLike(ledger)
    BY <1>0, Facts
  <2>2. ServiceTypes'
    BY <1>1, <2>1 DEF ServiceTypes
  <2>3. JobAt(a)'
    BY <1>1, <2>1 DEF AttemptAt, JobAt
  <2>4. LedgerTypes' /\ \A b \in Attempt : LedgerKept(b)
    BY <1>1, <2>1, LedgerStays
  <2>5. ChargeAt(a)'
    BY <1>0, <1>1, <2>4, ChargesStay
  <2>6. UploadsCharged(a) => UploadsCharged(a)'
    BY <1>1, <2>1, <2>4, UploadsStayCharged
  <2> QED
    BY <1>0, <1>1, <2>2, <2>3, <2>4, <2>5, <2>6, QuietStep
<1>3. leader[a] \in {"ok", "bad"}
  BY <1>0, <1>1 DEF SupervisorAt, DeliveryTypes
<1>4. DeliveryTypes' /\ \A b \in Attempt \ {a} : DeliveryRests(b)
  BY <1>0, <1>1, <1>3 DEF DeliveryTypes, DeliveryRests, agentv, remote
<1>5. SupervisorAt(a)'
  BY <1>0, <1>1, <1>3 DEF SupervisorAt
<1>6. CommittedKept(a) /\ ResultRests(a)
  BY <1>1, SameResultRests
<1>7. \A k \in Kind : TaskAt(a, k)'
  BY <1>1, <1>6, TaskStays DEF agentv, remote
<1>8. ReportAt(a)'
  BY <1>1, <1>6, ReportStays DEF agentv, remote
<1>9. SpoolAt(a)'
  <2>1. ~Shipped(a) /\ SpoolKept(a)
    BY <1>1, <1>2 DEF Shipped, Serves
  <2> QED
    BY <1>0, <1>1, <2>1, SpoolStays DEF SpoolAt, agentv, remote
<1> QED
  BY <1>2, <1>4, <1>5, <1>7, <1>8, <1>9, OneDelivers DEF DeliveryAt

LEMMA SupervisorDiesDelivers ==
    ASSUME DeliveryInvariant, NEW a \in Attempt, SupervisorDies(a)
    PROVE  DeliveryInvariant'
<1>0. PublisherInvariant /\ DeliveryTypes /\ SupervisorAt(a) /\ SpoolAt(a) /\ ServiceTypes
  BY DeliveryFacts, Facts
<1>1. /\ sup[a] = "up" /\ Die(a) /\ sup' = [sup EXCEPT ![a] = "gone"]
      /\ queue' = [queue EXCEPT ![a] = {}]
      /\ leader' = [leader EXCEPT ![a] = IF @ = "running" THEN "bad" ELSE @]
      /\ UNCHANGED <<phase, outcome, agentv, remote>>
  BY DEF SupervisorDies
<1>2. /\ a \in open /\ open' = open \ {a} /\ job' = [job EXCEPT ![a] = Idle]
      /\ pub' = pub /\ head' = head
  BY <1>1 DEF Die, Answered, rows
<1>3. Serves(a)
  BY <1>0, <1>1, DieServes
<1>4. DeliveryTypes' /\ \A b \in Attempt \ {a} : DeliveryRests(b)
  <2>1. leader' \in [Attempt -> {"running", "ok", "bad"}] /\ leader'[a] # "running"
    BY <1>0, <1>1 DEF DeliveryTypes
  <2>2. \A b \in Attempt \ {a} : /\ leader'[b] = leader[b] /\ queue'[b] = queue[b]
                                 /\ sup'[b] = sup[b]
    BY <1>0, <1>1 DEF DeliveryTypes
  <2> QED
    BY <1>0, <1>1, <2>1, <2>2 DEF DeliveryTypes, DeliveryRests, agentv, remote
<1>5. SupervisorAt(a)'
  <2>1. leader'[a] # "running" /\ queue'[a] = {} /\ job'[a] = Idle /\ outcome[a] = "none"
    BY <1>0, <1>1, <1>2 DEF DeliveryTypes, ServiceTypes, SupervisorAt
  <2> QED
    BY <1>1, <1>2, <2>1 DEF SupervisorAt
<1>6. CommittedKept(a) /\ ResultRests(a)
  BY <1>2, SameResultRests
<1>7. \A k \in Kind : TaskAt(a, k)'
  BY <1>1, <1>6, TaskStays DEF agentv, remote
<1>8. ReportAt(a)'
  <2>1. ReportAt(a) /\ phase[a] \in {"running", "released"}
    BY <1>0, DeliveryFacts DEF DeliveryTypes
  <2>2. phase'[a] = "running" => task'[a]["result"] = NoTask
    BY <1>1, <2>1 DEF ReportAt, agentv
  <2> QED
    BY <1>1, <1>6, <2>1, <2>2, ReportStays DEF agentv, remote
<1>9. SpoolAt(a)'
  <2>1. ~Shipped(a) /\ SpoolKept(a)
    BY <1>1, <1>3 DEF Shipped, Serves
  <2> QED
    BY <1>0, <1>1, <2>1, SpoolStays DEF SpoolAt, agentv, remote
<1> QED
  BY <1>3, <1>4, <1>5, <1>7, <1>8, <1>9, OneDelivers DEF DeliveryAt

(* The agent.                                                              *)
TaskType == [desc : Pub \cup {None, Command}, left : SUBSET Upload]

LEMMA TaskSet ==
    ASSUME DeliveryTypes, NEW a \in Attempt, NEW k \in Kind, NEW t \in TaskType,
           task' = [task EXCEPT ![a][k] = t]
    PROVE  /\ task' \in [Attempt -> [Kind -> TaskType]]
           /\ task'[a][k] = t
           /\ \A x \in Kind \ {k} : task'[a][x] = task[a][x]
           /\ \A b \in Attempt \ {a} : \A x \in Kind : task'[b][x] = task[b][x]
<1>1. task \in [Attempt -> [Kind -> TaskType]]
  BY DEF DeliveryTypes, TaskType
<1> QED
  BY <1>1

LEMMA KeptTypes ==
    ASSUME DeliveryTypes, task' \in [Attempt -> [Kind -> TaskType]],
           UNCHANGED local,
           slots' \subseteq Attempt,
           reported' \in [Attempt -> BOOLEAN],
           poll' \in [Attempt -> SUBSET ((Pub \cup {None}) \X BOOLEAN)],
           receipt' \in [Attempt -> Reports], accepted' \in [Attempt -> Reports],
           collected' \in [Attempt -> BOOLEAN],
           stored' \in [Attempt -> SUBSET Upload]
    PROVE  DeliveryTypes'
BY DEF DeliveryTypes, TaskType, local, Reports

LEMMA AgentMoves ==
    ASSUME DeliveryInvariant, NEW a \in Attempt, UNCHANGED pvars, UNCHANGED local,
           DeliveryTypes', \A b \in Attempt \ {a} : DeliveryRests(b),
           \A k \in Kind : TaskAt(a, k)', ReportAt(a)', SpoolAt(a)'
    PROVE  DeliveryInvariant'
<1>1. job' = job /\ open' = open /\ SupervisorAt(a)
  BY DeliveryFacts DEF pvars
<1>2. SupervisorAt(a)'
  BY <1>1 DEF SupervisorAt, local
<1> QED
  BY <1>2, OneDelivers DEF DeliveryAt

LEMMA UnshippedSpool ==
    ASSUME DeliveryInvariant, NEW a \in Attempt, UNCHANGED pvars, collected' = collected, ~Shipped(a)
    PROVE  SpoolAt(a)'
<1>1. SpoolAt(a) /\ SpoolKept(a)
  BY DeliveryFacts, PublishersRest
<1> QED
  BY <1>1, SpoolStays DEF SpoolAt

\* A head that is read is a committed publication.
LEMMA HeadRead ==
    ASSUME DeliveryInvariant, NEW a \in Attempt, NEW k \in Kind, head[<<a, k>>] # None
    PROVE  /\ head[<<a, k>>] \in Pub
           /\ pub[<<a, head[<<a, k>>]>>].state = "committed"
           /\ Task(a, head[<<a, k>>]) \in TaskType
           /\ Task(a, head[<<a, k>>]).desc = head[<<a, k>>]
           /\ Task(a, head[<<a, k>>]).left = pub[<<a, head[<<a, k>>]>>].arts
<1>1. PubTypes /\ AttemptAt(a)
  BY DeliveryFacts, Facts
<1>2. head[<<a, k>>] \in Pub /\ pub[<<a, head[<<a, k>>]>>].state = "committed"
  BY <1>1 DEF PubTypes, AttemptAt, HeadAt
<1>3. pub[<<a, head[<<a, k>>]>>].arts \subseteq Upload
  BY <1>1, <1>2 DEF PubTypes, PubRow
<1> QED
  BY <1>2, <1>3, Words DEF Task, TaskType

LEMMA PollCheckpointDelivers ==
    ASSUME DeliveryInvariant, NEW a \in Attempt, PollCheckpoint(a)
    PROVE  DeliveryInvariant'
<1> DEFINE h == head[<<a, "checkpoint">>]
           t == Task(a, h)
<1>0. DeliveryTypes /\ PubTypes
  BY DeliveryFacts, Facts
<1>1. /\ a \in slots /\ ~reported[a] /\ h # None
      /\ task' = [task EXCEPT ![a]["checkpoint"] = t]
      /\ UNCHANGED pvars /\ UNCHANGED local /\ UNCHANGED remote
      /\ UNCHANGED <<slots, reported, poll>>
  BY DEF PollCheckpoint
<1>2. "checkpoint" \in Kind /\ "result" \in Kind \ {"checkpoint"} /\ Kind = {"checkpoint", "result"}
  BY DEF Kind
<1>3. /\ h \in Pub /\ pub[<<a, h>>].state = "committed"
      /\ t \in TaskType /\ t.desc = h /\ t.left = pub[<<a, h>>].arts
  BY <1>1, <1>2, HeadRead
<1>4. /\ task' \in [Attempt -> [Kind -> TaskType]]
      /\ task'[a]["checkpoint"] = t /\ task'[a]["result"] = task[a]["result"]
      /\ \A b \in Attempt \ {a} : \A x \in Kind : task'[b][x] = task[b][x]
  <2> HIDE DEF t, h
  <2>1. /\ task' \in [Attempt -> [Kind -> TaskType]]
        /\ task'[a]["checkpoint"] = t
        /\ \A x \in Kind \ {"checkpoint"} : task'[a][x] = task[a][x]
        /\ \A b \in Attempt \ {a} : \A x \in Kind : task'[b][x] = task[b][x]
    <3>1. task' = [task EXCEPT ![a]["checkpoint"] = t] /\ "checkpoint" \in Kind /\ t \in TaskType
      BY <1>1, <1>2, <1>3
    <3> QED
      BY <1>0, <3>1, TaskSet, Zenon
  <2> QED
    BY <1>2, <2>1
<1>5. CommittedKept(a) /\ ResultRests(a) /\ pub' = pub /\ stored' = stored /\ collected' = collected
  BY <1>1, PublishersRest DEF remote
<1>6. TaskAt(a, "checkpoint")'
  <2>1. pub'[<<a, h>>] = pub[<<a, h>>]
    BY <1>5
  <2>2. h # None /\ h # Command /\ t # NoTask
    BY <1>1, <1>3, Words
  <2> HIDE DEF t, h
  <2> QED
    BY <1>3, <1>4, <2>1, <2>2 DEF TaskAt
<1>7. TaskAt(a, "result")'
  BY <1>2, <1>4, <1>5, TaskStays
<1>8. ReportAt(a)'
  <2>1. ReportAt(a) /\ phase[a] \in {"running", "released"}
    BY <1>0, DeliveryFacts DEF DeliveryTypes
  <2> QED
    BY <1>1, <1>4, <1>5, <2>1, ReportStays DEF ReportAt, local, remote
<1>9. SpoolAt(a)'
  BY <1>1, <1>5, UnshippedSpool DEF Shipped
<1>10. DeliveryTypes'
  BY <1>0, <1>1, <1>4, KeptTypes DEF DeliveryTypes, remote
<1>11. \A b \in Attempt \ {a} : DeliveryRests(b)
  BY <1>1, <1>4 DEF DeliveryRests, local, remote
<1> QED
  BY <1>1, <1>2, <1>6, <1>7, <1>8, <1>9, <1>10, <1>11, AgentMoves

LEMMA PollResultDelivers ==
    ASSUME DeliveryInvariant, NEW a \in Attempt, PollResult(a)
    PROVE  DeliveryInvariant'
<1> DEFINE r == <<head[<<a, "result">>], sup[a] = "gone">>
<1>0. DeliveryTypes /\ PubTypes /\ ReportAt(a)
  BY DeliveryFacts, Facts
<1>1. /\ a \in slots /\ ~reported[a] /\ phase[a] = "released" /\ HeadReadable(a, "result")
      /\ poll' = [poll EXCEPT ![a] = {r}]
      /\ UNCHANGED pvars /\ UNCHANGED local /\ UNCHANGED remote
      /\ UNCHANGED <<slots, reported, task>>
  BY DEF PollResult
<1>2. r \in (Pub \cup {None}) \X BOOLEAN
  BY <1>0 DEF PubTypes, Kind
<1>3. /\ poll' \in [Attempt -> SUBSET ((Pub \cup {None}) \X BOOLEAN)]
      /\ poll'[a] = {r} /\ \A b \in Attempt \ {a} : poll'[b] = poll[b]
  <2>1. {r} \in SUBSET ((Pub \cup {None}) \X BOOLEAN)
    BY <1>2
  <2> HIDE DEF r
  <2> QED
    BY <1>0, <1>1, <2>1 DEF DeliveryTypes
<1>4. /\ CommittedKept(a) /\ ResultRests(a) /\ pub' = pub /\ head' = head
      /\ stored' = stored /\ collected' = collected
  BY <1>1, PublishersRest DEF remote
<1>5. \A k \in Kind : TaskAt(a, k)'
  BY <1>1, <1>4, TaskStays
<1>6. ReportAt(a)'
  <2>1. HeadReadable(a, "result")' /\ \E b \in BOOLEAN : poll'[a] = {<<head'[<<a, "result">>], b>>}
    BY <1>1, <1>3, <1>4 DEF ResultRests
  <2>2. NoResult(a) => NoResult(a)'
    BY <1>4, <2>1 DEF NoResult
  <2>3. phase'[a] = "released" /\ receipt' = receipt /\ accepted' = accepted
    BY <1>1 DEF local, remote
  <2> QED
    BY <1>0, <1>1, <1>4, <2>1, <2>2, <2>3 DEF ReportAt
<1>7. SpoolAt(a)'
  BY <1>1, <1>4, UnshippedSpool DEF Shipped
<1>8. DeliveryTypes'
  BY <1>0, <1>1, <1>3, KeptTypes DEF DeliveryTypes, remote, TaskType
<1>9. \A b \in Attempt \ {a} : DeliveryRests(b)
  BY <1>1, <1>3 DEF DeliveryRests, local, remote
<1> QED
  BY <1>1, <1>5, <1>6, <1>7, <1>8, <1>9, AgentMoves

\* What was read of an attempt is its result head, and it still is.
LEMMA PollRead ==
    ASSUME DeliveryInvariant, NEW a \in Attempt, poll[a] # {}
    PROVE  /\ phase[a] = "released" /\ HeadReadable(a, "result")
           /\ Report(a)[1] = head[<<a, "result">>]
           /\ ~Shipped(a)
<1>1. ReportAt(a) /\ phase[a] \in {"running", "released"}
  BY DeliveryFacts DEF DeliveryTypes
<1>2. PICK b \in BOOLEAN : poll[a] = {<<head[<<a, "result">>], b>>}
  BY <1>1 DEF ReportAt
<1>3. Report(a) = <<head[<<a, "result">>], b>>
  <2>1. Report(a) \in poll[a]
    BY <1>2 DEF Report
  <2> QED
    BY <1>2, <2>1
<1> QED
  BY <1>1, <1>3 DEF ReportAt, Shipped

LEMMA PollUsed ==
    ASSUME DeliveryTypes, NEW a \in Attempt, Used(a)
    PROVE  /\ poll' \in [Attempt -> SUBSET ((Pub \cup {None}) \X BOOLEAN)]
           /\ poll'[a] = {} /\ \A b \in Attempt \ {a} : poll'[b] = poll[b]
BY DEF DeliveryTypes, Used

LEMMA PollAgainDelivers ==
    ASSUME DeliveryInvariant, NEW a \in Attempt, PollAgain(a)
    PROVE  DeliveryInvariant'
<1>0. DeliveryTypes /\ ReportAt(a)
  BY DeliveryFacts
<1>1. /\ poll[a] # {} /\ Used(a)
      /\ UNCHANGED pvars /\ UNCHANGED local /\ UNCHANGED remote
      /\ UNCHANGED <<slots, reported, task>>
  BY DEF PollAgain
<1>2. /\ poll' \in [Attempt -> SUBSET ((Pub \cup {None}) \X BOOLEAN)]
      /\ poll'[a] = {} /\ \A b \in Attempt \ {a} : poll'[b] = poll[b]
  BY <1>0, <1>1, PollUsed
<1>3. CommittedKept(a) /\ ResultRests(a) /\ stored' = stored /\ collected' = collected
  BY <1>1, PublishersRest DEF remote
<1>4. \A k \in Kind : TaskAt(a, k)'
  BY <1>1, <1>3, TaskStays
<1>5. phase[a] = "released" /\ ~Shipped(a)
  BY <1>1, PollRead
<1>6. ReportAt(a)'
  BY <1>1, <1>2, <1>3, <1>5, ReportStays DEF local, remote
<1>7. SpoolAt(a)'
  BY <1>1, <1>3, <1>5, UnshippedSpool
<1>8. DeliveryTypes'
  BY <1>0, <1>1, <1>2, KeptTypes DEF DeliveryTypes, remote, TaskType
<1>9. \A b \in Attempt \ {a} : DeliveryRests(b)
  BY <1>1, <1>2 DEF DeliveryRests, local, remote
<1> QED
  BY <1>1, <1>4, <1>6, <1>7, <1>8, <1>9, AgentMoves

\* The report that goes out: the result head, or the plain exit status.
FinalTask(a) ==
    IF head[<<a, "result">>] = None THEN [NoTask EXCEPT !.desc = Command]
    ELSE Task(a, head[<<a, "result">>])

LEMMA FinalTaskSet ==
    ASSUME DeliveryInvariant, NEW a \in Attempt, UNCHANGED pvars, HeadReadable(a, "result"),
           task' = [task EXCEPT ![a]["result"] = FinalTask(a)], stored' = stored
    PROVE  /\ task' \in [Attempt -> [Kind -> TaskType]]
           /\ \A k \in Kind : TaskAt(a, k)'
           /\ \A b \in Attempt \ {a} : \A x \in Kind : task'[b][x] = task[b][x]
<1> DEFINE h == head[<<a, "result">>]
           t == FinalTask(a)
<1>0. DeliveryTypes /\ "result" \in Kind /\ "checkpoint" \in Kind /\ Kind = {"checkpoint", "result"}
  BY DeliveryFacts DEF Kind
<1>1. CommittedKept(a) /\ ResultRests(a) /\ pub' = pub /\ head' = head
  BY PublishersRest
<1>2. /\ t \in TaskType
      /\ h = None => t.desc = Command /\ t.left = {}
      /\ h # None => /\ h \in Pub /\ pub[<<a, h>>].state = "committed"
                     /\ t.desc = h /\ t.left = pub[<<a, h>>].arts
  <2>1. CASE h = None
    <3>1. t = [desc |-> Command, left |-> {}]
      BY <2>1 DEF FinalTask, NoTask
    <3> QED
      BY <2>1, <3>1 DEF TaskType
  <2>2. CASE h # None
    BY <1>0, <2>2, HeadRead DEF FinalTask
  <2> QED
    BY <2>1, <2>2
<1> HIDE DEF t
<1>3. /\ task' \in [Attempt -> [Kind -> TaskType]]
      /\ task'[a]["result"] = t /\ task'[a]["checkpoint"] = task[a]["checkpoint"]
      /\ \A b \in Attempt \ {a} : \A x \in Kind : task'[b][x] = task[b][x]
  <2>1. /\ task' \in [Attempt -> [Kind -> TaskType]]
        /\ task'[a]["result"] = t
        /\ \A x \in Kind \ {"result"} : task'[a][x] = task[a][x]
        /\ \A b \in Attempt \ {a} : \A x \in Kind : task'[b][x] = task[b][x]
    <3>1. task' = [task EXCEPT ![a]["result"] = t]
      BY DEF t
    <3> QED
      BY <1>0, <1>2, <3>1, TaskSet, Zenon
  <2> QED
    BY <1>0, <2>1
<1>4. TaskAt(a, "result")'
  <2>1. CASE h = None
    <3>1. NoResult(a)'
      BY <1>1, <2>1 DEF NoResult, ResultRests
    <3> QED
      BY <1>2, <1>3, <2>1, <3>1, Words DEF TaskAt
  <2>2. CASE h # None
    BY <1>1, <1>2, <1>3, <2>2, Words DEF TaskAt
  <2> QED
    BY <2>1, <2>2
<1>5. TaskAt(a, "checkpoint")'
  BY <1>0, <1>1, <1>3, TaskStays
<1> QED
  BY <1>0, <1>3, <1>4, <1>5

LEMMA PollFinalDelivers ==
    ASSUME DeliveryInvariant, NEW a \in Attempt, PollFinal(a)
    PROVE  DeliveryInvariant'
<1>0. DeliveryTypes /\ ReportAt(a)
  BY DeliveryFacts
<1>1. /\ poll[a] # {} /\ Used(a)
      /\ UNCHANGED pvars /\ UNCHANGED local /\ UNCHANGED remote
      /\ UNCHANGED <<slots, reported>>
  BY DEF PollFinal
<1>2. /\ phase[a] = "released" /\ HeadReadable(a, "result") /\ ~Shipped(a)
      /\ Report(a)[1] = head[<<a, "result">>]
  BY <1>1, PollRead
<1>3. task' = [task EXCEPT ![a]["result"] = FinalTask(a)]
  BY <1>2 DEF PollFinal, FinalTask
<1>4. /\ poll' \in [Attempt -> SUBSET ((Pub \cup {None}) \X BOOLEAN)]
      /\ poll'[a] = {} /\ \A b \in Attempt \ {a} : poll'[b] = poll[b]
  BY <1>0, <1>1, PollUsed
<1>5. CommittedKept(a) /\ ResultRests(a) /\ stored' = stored /\ collected' = collected
  BY <1>1, PublishersRest DEF remote
<1>6. /\ task' \in [Attempt -> [Kind -> TaskType]]
      /\ \A k \in Kind : TaskAt(a, k)'
      /\ \A b \in Attempt \ {a} : \A x \in Kind : task'[b][x] = task[b][x]
  BY <1>1, <1>2, <1>3, <1>5, FinalTaskSet
<1>7. ReportAt(a)'
  BY <1>1, <1>2, <1>4, <1>5, ReportStays DEF local, remote
<1>8. SpoolAt(a)'
  BY <1>1, <1>2, <1>5, UnshippedSpool
<1>9. DeliveryTypes'
  BY <1>0, <1>1, <1>4, <1>6, KeptTypes DEF DeliveryTypes, remote
<1>10. \A b \in Attempt \ {a} : DeliveryRests(b)
  BY <1>1, <1>4, <1>6 DEF DeliveryRests, local, remote
<1> QED
  BY <1>1, <1>6, <1>7, <1>8, <1>9, <1>10, AgentMoves

\* A failure is reported of an attempt without a result.
LEMMA FailReported ==
    ASSUME DeliveryInvariant, NEW a \in Attempt, UNCHANGED pvars, phase' = phase,
           phase[a] = "released", FailAnswered(a),
           poll'[a] = poll[a] \/ poll'[a] = {}, slots' = slots, stored' = stored
    PROVE  /\ ReportAt(a)' /\ ~Shipped(a)
           /\ receipt' \in [Attempt -> Reports] /\ accepted' \in [Attempt -> Reports]
           /\ reported' \in [Attempt -> BOOLEAN]
           /\ \A b \in Attempt \ {a} : /\ receipt'[b] = receipt[b] /\ accepted'[b] = accepted[b]
                                       /\ reported'[b] = reported[b]
<1>0. DeliveryTypes /\ ReportAt(a) /\ ResultRests(a)
  BY DeliveryFacts, PublishersRest
<1>1. /\ accepted[a] \in {None, Failed} /\ accepted' = [accepted EXCEPT ![a] = Failed]
      /\ \/ /\ receipt' = [receipt EXCEPT ![a] = Failed]
            /\ reported' = [reported EXCEPT ![a] = TRUE]
         \/ receipt' = receipt /\ reported' = reported
  BY DEF FailAnswered
<1>2. receipt[a] \in {None, Failed}
  BY <1>0, <1>1 DEF ReportAt
<1>3. Failed \in Reports
  BY DEF Reports
<1>4. /\ receipt' \in [Attempt -> Reports] /\ accepted' \in [Attempt -> Reports]
      /\ reported' \in [Attempt -> BOOLEAN]
  BY <1>0, <1>1, <1>3 DEF DeliveryTypes
<1>5. \A b \in Attempt \ {a} : /\ receipt'[b] = receipt[b] /\ accepted'[b] = accepted[b]
                               /\ reported'[b] = reported[b]
  BY <1>0, <1>1 DEF DeliveryTypes
<1>6. /\ accepted'[a] = Failed /\ receipt'[a] \in {None, Failed}
      /\ a \in slots' /\ receipt'[a] # None => reported'[a]
  BY <1>0, <1>1, <1>2 DEF DeliveryTypes, ReportAt
<1>7. ReportAt(a)'
  BY <1>0, <1>6, Words DEF ReportAt, ResultRests
<1> QED
  BY <1>2, <1>4, <1>5, <1>7 DEF Shipped

LEMMA PollFailDelivers ==
    ASSUME DeliveryInvariant, NEW a \in Attempt, PollFail(a)
    PROVE  DeliveryInvariant'
<1>0. DeliveryTypes
  BY DeliveryFacts
<1>1. /\ poll[a] # {} /\ Used(a) /\ FailAnswered(a)
      /\ UNCHANGED pvars /\ UNCHANGED local
      /\ UNCHANGED <<slots, task, collected, stored>>
  BY DEF PollFail
<1>2. phase[a] = "released" /\ phase' = phase
  BY <1>1, PollRead DEF local
<1>3. /\ poll' \in [Attempt -> SUBSET ((Pub \cup {None}) \X BOOLEAN)]
      /\ poll'[a] = {} /\ \A b \in Attempt \ {a} : poll'[b] = poll[b]
  BY <1>0, <1>1, PollUsed
<1>4. /\ ReportAt(a)' /\ ~Shipped(a)
      /\ receipt' \in [Attempt -> Reports] /\ accepted' \in [Attempt -> Reports]
      /\ reported' \in [Attempt -> BOOLEAN]
      /\ \A b \in Attempt \ {a} : /\ receipt'[b] = receipt[b] /\ accepted'[b] = accepted[b]
                                  /\ reported'[b] = reported[b]
  BY <1>1, <1>2, <1>3, FailReported
<1>5. CommittedKept(a) /\ ResultRests(a)
  BY <1>1, PublishersRest
<1>6. \A k \in Kind : TaskAt(a, k)'
  BY <1>1, <1>5, TaskStays
<1>7. SpoolAt(a)'
  BY <1>1, <1>4, UnshippedSpool
<1>8. DeliveryTypes'
  BY <1>0, <1>1, <1>3, <1>4, KeptTypes DEF DeliveryTypes, TaskType
<1>9. \A b \in Attempt \ {a} : DeliveryRests(b)
  BY <1>1, <1>3, <1>4 DEF DeliveryRests, local
<1> QED
  BY <1>1, <1>4, <1>6, <1>7, <1>8, <1>9, AgentMoves

\* Durable outbox.
LEMMA OutboxDelivers ==
    ASSUME DeliveryInvariant, NEW a \in Attempt, Outbox(a)
    PROVE  DeliveryInvariant'
<1>0. DeliveryTypes /\ ReportAt(a)
  BY DeliveryFacts
<1>1. /\ phase[a] = "released" /\ receipt[a] = None /\ HeadReadable(a, "result")
      /\ UNCHANGED pvars /\ UNCHANGED local
      /\ UNCHANGED <<slots, poll, collected, stored>>
  BY DEF Outbox
<1>2. ~Shipped(a) /\ SpoolAt(a)'
  BY <1>1, UnshippedSpool DEF Shipped
<1>3. CommittedKept(a) /\ ResultRests(a)
  BY <1>1, PublishersRest
<1>4. CASE /\ task' = [task EXCEPT ![a]["result"] = FinalTask(a)]
           /\ UNCHANGED <<reported, receipt, accepted>>
  <2>1. /\ task' \in [Attempt -> [Kind -> TaskType]]
        /\ \A k \in Kind : TaskAt(a, k)'
        /\ \A b \in Attempt \ {a} : \A x \in Kind : task'[b][x] = task[b][x]
    BY <1>1, <1>4, FinalTaskSet
  <2>2. ReportAt(a)'
    BY <1>1, <1>3, <1>4, ReportStays DEF local
  <2>3. DeliveryTypes'
    BY <1>0, <1>1, <1>4, <2>1, KeptTypes DEF DeliveryTypes
  <2>4. \A b \in Attempt \ {a} : DeliveryRests(b)
    BY <1>1, <1>4, <2>1 DEF DeliveryRests, local
  <2> QED
    BY <1>1, <1>2, <2>1, <2>2, <2>3, <2>4, AgentMoves
<1>5. CASE FailAnswered(a) /\ UNCHANGED task
  <2>1. /\ ReportAt(a)'
        /\ receipt' \in [Attempt -> Reports] /\ accepted' \in [Attempt -> Reports]
        /\ reported' \in [Attempt -> BOOLEAN]
        /\ \A b \in Attempt \ {a} : /\ receipt'[b] = receipt[b] /\ accepted'[b] = accepted[b]
                                    /\ reported'[b] = reported[b]
    BY <1>1, <1>5, FailReported DEF local
  <2>2. \A k \in Kind : TaskAt(a, k)'
    BY <1>1, <1>3, <1>5, TaskStays
  <2>3. DeliveryTypes'
    BY <1>0, <1>1, <1>5, <2>1, KeptTypes DEF DeliveryTypes, TaskType
  <2>4. \A b \in Attempt \ {a} : DeliveryRests(b)
    BY <1>1, <1>5, <2>1 DEF DeliveryRests, local
  <2> QED
    BY <1>1, <1>2, <2>1, <2>2, <2>3, <2>4, AgentMoves
<1> QED
  BY <1>4, <1>5 DEF Outbox, FinalTask

\* publish(): an artifact that is sent is held by the coordinator.
LEMMA SendArtifactDelivers ==
    ASSUME DeliveryInvariant, NEW a \in Attempt, NEW k \in Kind, SendArtifact(a, k)
    PROVE  DeliveryInvariant'
<1>0. DeliveryTypes /\ ReportAt(a) /\ TaskAt(a, k)
  BY DeliveryFacts
<1>1. /\ UNCHANGED pvars /\ UNCHANGED local
      /\ UNCHANGED <<slots, reported, poll, receipt, collected, accepted>>
  BY DEF SendArtifact
<1>2. PICK u \in task[a][k].left :
          /\ stored' = [stored EXCEPT ![a] = @ \cup {u}]
          /\ task' = [task EXCEPT ![a][k].left = @ \ {u}]
  BY DEF SendArtifact
<1> DEFINE d == task[a][k].desc
           l == task[a][k].left
           t == [desc |-> d, left |-> l \ {u}]
<1>3. d \in Pub \cup {None, Command} /\ l \subseteq Upload /\ task[a][k] = [desc |-> d, left |-> l]
  BY <1>0, TaskTypes
<1>4. t \in TaskType /\ task' = [task EXCEPT ![a][k] = t]
  <2>1. t \in TaskType
    BY <1>3 DEF TaskType
  <2>2. [task[a][k] EXCEPT !.left = @ \ {u}] = t
    BY <1>3
  <2>3. task' = [task EXCEPT ![a] = [task[a] EXCEPT ![k] = [task[a][k] EXCEPT !.left = @ \ {u}]]]
    BY <1>0, <1>2 DEF DeliveryTypes
  <2>4. task' = [task EXCEPT ![a] = [task[a] EXCEPT ![k] = t]]
    BY <2>2, <2>3
  <2> QED
    BY <2>1, <2>4
<1>5. /\ task' \in [Attempt -> [Kind -> TaskType]]
      /\ task'[a][k] = t
      /\ \A x \in Kind \ {k} : task'[a][x] = task[a][x]
      /\ \A b \in Attempt \ {a} : \A x \in Kind : task'[b][x] = task[b][x]
  <2> HIDE DEF t
  <2> QED
    BY <1>0, <1>4, TaskSet
<1>6. CommittedKept(a) /\ ResultRests(a) /\ pub' = pub /\ head' = head
  BY <1>1, PublishersRest
<1>7. /\ stored' \in [Attempt -> SUBSET Upload] /\ stored'[a] = stored[a] \cup {u}
      /\ \A b \in Attempt \ {a} : stored'[b] = stored[b]
  BY <1>0, <1>2, <1>3 DEF DeliveryTypes
<1>8. d \in Pub /\ task[a][k] # NoTask
  <2>1. task[a][k] # NoTask
    BY <1>2, Words
  <2> QED
    BY <1>0, <1>2, <1>3, <2>1 DEF TaskAt
<1>9. TaskAt(a, k)'
  <2>1. /\ pub[<<a, d>>].state = "committed" /\ l \subseteq pub[<<a, d>>].arts
        /\ k = "result" => head[<<a, "result">>] = d
        /\ pub[<<a, d>>].arts \ l \subseteq stored[a]
    BY <1>0, <1>8 DEF TaskAt
  <2>2. t.desc = d /\ t.left = l \ {u}
    OBVIOUS
  <2>3. d # None /\ d # Command
    BY <1>8, Words
  <2> HIDE DEF t, d, l
  <2> QED
    BY <1>5, <1>6, <1>7, <1>8, <2>1, <2>2, <2>3 DEF TaskAt
<1>10. \A x \in Kind : TaskAt(a, x)'
  <2> SUFFICES ASSUME NEW x \in Kind, x # k PROVE TaskAt(a, x)'
    BY <1>9
  <2> QED
    BY <1>5, <1>6, <1>7, TaskStays
<1>11. ~Shipped(a)
  BY <1>8 DEF Shipped
<1>12. ReportAt(a)'
  <2>1. phase[a] \in {"running", "released"} /\ "result" \in Kind
    BY <1>0 DEF DeliveryTypes, Kind
  <2>2. phase[a] = "running" => k # "result" /\ task[a]["result"] = NoTask
    BY <1>0, <1>8 DEF ReportAt
  <2>3. phase'[a] = "running" => task'[a]["result"] = NoTask
    BY <1>1, <1>5, <2>1, <2>2 DEF local
  <2> QED
    BY <1>1, <1>6, <1>7, <2>1, <2>3, ReportStays DEF local
<1>13. SpoolAt(a)'
  BY <1>1, <1>11, UnshippedSpool
<1>14. DeliveryTypes'
  BY <1>0, <1>1, <1>5, <1>7, KeptTypes DEF DeliveryTypes
<1>15. \A b \in Attempt \ {a} : DeliveryRests(b)
  BY <1>1, <1>5, <1>7 DEF DeliveryRests, local
<1> QED
  BY <1>1, <1>10, <1>12, <1>13, <1>14, <1>15, AgentMoves

LEMMA SubmitCheckpointDelivers ==
    ASSUME DeliveryInvariant, NEW a \in Attempt, SubmitCheckpoint(a)
    PROVE  DeliveryInvariant'
<1>0. DeliveryTypes /\ ReportAt(a)
  BY DeliveryFacts
<1>1. /\ task[a]["checkpoint"] # NoTask
      /\ task' = [task EXCEPT ![a]["checkpoint"] = NoTask]
      /\ UNCHANGED pvars /\ UNCHANGED local /\ UNCHANGED remote
      /\ UNCHANGED <<slots, reported, poll>>
  BY DEF SubmitCheckpoint, InFlight
<1>2. "checkpoint" \in Kind /\ "result" \in Kind \ {"checkpoint"} /\ Kind = {"checkpoint", "result"}
  BY DEF Kind
<1>3. NoTask \in TaskType
  BY DEF NoTask, TaskType
<1>4. /\ task' \in [Attempt -> [Kind -> TaskType]]
      /\ task'[a]["checkpoint"] = NoTask /\ task'[a]["result"] = task[a]["result"]
      /\ \A b \in Attempt \ {a} : \A x \in Kind : task'[b][x] = task[b][x]
  <2>1. /\ task' \in [Attempt -> [Kind -> TaskType]]
        /\ task'[a]["checkpoint"] = NoTask
        /\ \A x \in Kind \ {"checkpoint"} : task'[a][x] = task[a][x]
        /\ \A b \in Attempt \ {a} : \A x \in Kind : task'[b][x] = task[b][x]
    BY <1>0, <1>1, <1>2, <1>3, TaskSet, Zenon
  <2> QED
    BY <1>2, <2>1
<1>5. CommittedKept(a) /\ ResultRests(a) /\ stored' = stored /\ collected' = collected
  BY <1>1, PublishersRest DEF remote
<1>6. TaskAt(a, "checkpoint")'
  BY <1>4, Words DEF TaskAt
<1>7. TaskAt(a, "result")'
  BY <1>2, <1>4, <1>5, TaskStays
<1>8. ReportAt(a)'
  <2>1. phase[a] \in {"running", "released"}
    BY <1>0 DEF DeliveryTypes
  <2> QED
    BY <1>0, <1>1, <1>4, <1>5, <2>1, ReportStays DEF ReportAt, local, remote
<1>9. SpoolAt(a)'
  BY <1>1, <1>2, <1>5, UnshippedSpool DEF Shipped
<1>10. DeliveryTypes'
  BY <1>0, <1>1, <1>4, KeptTypes DEF DeliveryTypes, remote
<1>11. \A b \in Attempt \ {a} : DeliveryRests(b)
  BY <1>1, <1>4 DEF DeliveryRests, local, remote
<1> QED
  BY <1>1, <1>2, <1>6, <1>7, <1>8, <1>9, <1>10, <1>11, AgentMoves

\* The coordinator keeps the first final report, and holds what it names.
LEMMA SubmitFinalDelivers ==
    ASSUME DeliveryInvariant, NEW a \in Attempt, SubmitFinal(a)
    PROVE  DeliveryInvariant'
<1> DEFINE d == task[a]["result"].desc
<1>0. DeliveryTypes /\ ReportAt(a) /\ TaskAt(a, "result") /\ PublisherInvariant
  BY DeliveryFacts DEF Kind
<1>1. /\ task[a]["result"] # NoTask /\ task[a]["result"].left = {}
      /\ IF accepted[a] \in {None, d}
         THEN /\ accepted' = [accepted EXCEPT ![a] = d]
              /\ \/ /\ receipt' = [receipt EXCEPT ![a] = d]
                    /\ reported' = [reported EXCEPT ![a] = TRUE]
                 \/ receipt' = receipt /\ reported' = reported
         ELSE accepted' = accepted /\ receipt' = receipt /\ reported' = reported
      /\ task' = [task EXCEPT ![a]["result"] = NoTask]
      /\ UNCHANGED pvars /\ UNCHANGED local
      /\ UNCHANGED <<slots, poll, collected, stored>>
  BY DEF SubmitFinal, InFlight
<1>2. "result" \in Kind /\ "checkpoint" \in Kind \ {"result"} /\ Kind = {"checkpoint", "result"}
  BY DEF Kind
<1>3. NoTask \in TaskType
  BY DEF NoTask, TaskType
<1>4. /\ task' \in [Attempt -> [Kind -> TaskType]]
      /\ task'[a]["result"] = NoTask /\ task'[a]["checkpoint"] = task[a]["checkpoint"]
      /\ \A b \in Attempt \ {a} : \A x \in Kind : task'[b][x] = task[b][x]
  <2>1. /\ task' \in [Attempt -> [Kind -> TaskType]]
        /\ task'[a]["result"] = NoTask
        /\ \A x \in Kind \ {"result"} : task'[a][x] = task[a][x]
        /\ \A b \in Attempt \ {a} : \A x \in Kind : task'[b][x] = task[b][x]
    BY <1>0, <1>1, <1>2, <1>3, TaskSet, Zenon
  <2> QED
    BY <1>2, <2>1
<1>5. CommittedKept(a) /\ ResultRests(a) /\ pub' = pub /\ head' = head
  BY <1>1, PublishersRest
<1>6. TaskAt(a, "result")'
  BY <1>4, Words DEF TaskAt
<1>7. TaskAt(a, "checkpoint")'
  BY <1>1, <1>2, <1>4, <1>5, TaskStays
<1>8. d \in Pub \cup {Command}
  <2>1. d \in Pub \cup {None, Command}
    BY <1>0, <1>2, TaskTypes
  <2> QED
    BY <1>0, <1>1, <2>1 DEF TaskAt
<1>9. /\ d = Command => NoResult(a)
      /\ d \in Pub => head[<<a, "result">>] = d /\ pub[<<a, d>>].arts \subseteq stored[a]
  BY <1>0, <1>1 DEF TaskAt
<1>10. phase[a] = "released"
  BY <1>0, <1>1 DEF ReportAt, DeliveryTypes
<1>11. d \in Reports
  BY <1>8 DEF Reports
<1> HIDE DEF d
<1>12. /\ receipt' \in [Attempt -> Reports] /\ accepted' \in [Attempt -> Reports]
       /\ reported' \in [Attempt -> BOOLEAN]
       /\ \A b \in Attempt \ {a} : /\ receipt'[b] = receipt[b] /\ accepted'[b] = accepted[b]
                                   /\ reported'[b] = reported[b]
  <2>1. CASE accepted[a] \in {None, d}
    BY <1>0, <1>1, <1>11, <2>1, ZenonT(40) DEF DeliveryTypes
  <2>2. CASE accepted[a] \notin {None, d}
    BY <1>0, <1>1, <2>2 DEF DeliveryTypes
  <2> QED
    BY <2>1, <2>2
<1>13. ReportAt(a)'
  <2>1. CASE accepted[a] \in {None, d}
    <3>1. accepted'[a] = d /\ receipt'[a] \in {d, receipt[a]}
      BY <1>0, <1>1, <2>1 DEF DeliveryTypes
    <3>2. a \in slots' /\ receipt'[a] # None => reported'[a]
      BY <1>0, <1>1, <2>1 DEF DeliveryTypes, ReportAt
    <3>3. receipt'[a] \notin {None, Failed} => receipt'[a] = d
      BY <1>0, <2>1, <3>1 DEF ReportAt
    <3>4. d = Command => NoResult(a)'
      BY <1>5, <1>9 DEF NoResult, ResultRests
    <3>5. d \in Pub => head'[<<a, "result">>] = d /\ pub'[<<a, d>>].arts \subseteq stored'[a]
      BY <1>1, <1>5, <1>9
    <3>6. phase'[a] = "released" /\ poll' = poll
      BY <1>1, <1>10 DEF local
    <3> QED
      BY <1>0, <1>5, <3>1, <3>2, <3>3, <3>4, <3>5, <3>6 DEF ReportAt, ResultRests
  <2>2. CASE accepted[a] \notin {None, d}
    BY <1>0, <1>1, <1>5, <1>10, <2>2, ReportStays DEF local
  <2> QED
    BY <2>1, <2>2
<1>14. SpoolAt(a)'
  BY <1>1, <1>2, UnshippedSpool DEF Shipped
<1>15. DeliveryTypes'
  BY <1>0, <1>1, <1>4, <1>12, KeptTypes DEF DeliveryTypes
<1>16. \A b \in Attempt \ {a} : DeliveryRests(b)
  BY <1>1, <1>4, <1>12 DEF DeliveryRests, local
<1> QED
  BY <1>1, <1>2, <1>6, <1>7, <1>13, <1>14, <1>15, <1>16, AgentMoves

(* Deaths of the agent, and collection.                                    *)
\* An agent that is gone knows nothing of an attempt.
LEMMA AgentForgets ==
    ASSUME DeliveryInvariant, AgentGone, UNCHANGED <<local, remote>>
    PROVE  /\ DeliveryTypes'
           /\ \A a \in Attempt :
                 /\ a \notin slots' /\ poll'[a] = {} /\ \A k \in Kind : task'[a][k] = NoTask
                 /\ \A k \in Kind : TaskAt(a, k)'
                 /\ CommittedKept(a) /\ ResultRests(a) => ReportAt(a)'
                 /\ Shipped(a) /\ ResultRests(a) => Shipped(a)'
<1>0. DeliveryTypes
  BY DeliveryFacts
<1>1. /\ slots' = {} /\ reported' = [a \in Attempt |-> FALSE]
      /\ poll' = [a \in Attempt |-> {}]
      /\ task' = [a \in Attempt |-> [k \in Kind |-> NoTask]]
  BY DEF AgentGone
<1>2. DeliveryTypes'
  <2>1. NoTask \in TaskType
    BY DEF NoTask, TaskType
  <2>2. task' \in [Attempt -> [Kind -> TaskType]]
    BY <1>1, <2>1
  <2> QED
    BY <1>0, <1>1, <2>2, KeptTypes DEF DeliveryTypes, remote
<1>3. ASSUME NEW a \in Attempt
      PROVE  a \notin slots' /\ poll'[a] = {} /\ \A k \in Kind : task'[a][k] = NoTask
  BY <1>1
<1>4. \A a \in Attempt : \A k \in Kind : TaskAt(a, k)'
  BY <1>3, Words DEF TaskAt
<1>5. ASSUME NEW a \in Attempt, CommittedKept(a), ResultRests(a) PROVE ReportAt(a)'
  <2>1. phase[a] \in {"running", "released"} /\ "result" \in Kind
    BY <1>0 DEF DeliveryTypes, Kind
  <2> QED
    BY <1>3, <1>5, <2>1, ReportStays DEF local, remote
<1>6. ASSUME NEW a \in Attempt, Shipped(a), ResultRests(a) PROVE Shipped(a)'
  BY <1>3, <1>6, ShippedStays DEF ResultRests, local, remote
<1> QED
  BY <1>2, <1>3, <1>4, <1>5, <1>6

LEMMA AgentGoneDelivers ==
    ASSUME DeliveryInvariant, AgentDies
    PROVE  DeliveryInvariant'
<1>0. PublisherInvariant
  BY DeliveryFacts
<1>1. AgentGone /\ UNCHANGED pvars /\ UNCHANGED <<local, remote>>
  BY DEF AgentDies
<1>2. PublisherInvariant'
  BY <1>0, <1>1, PublisherRests
<1>3. ASSUME NEW a \in Attempt PROVE DeliveryAt(a)'
  <2>1. /\ CommittedKept(a) /\ SpoolKept(a) /\ ResultRests(a)
        /\ UNCHANGED <<link, job, open>> /\ SupervisorAt(a) /\ SpoolAt(a)
    BY <1>1, PublishersRest, DeliveryFacts
  <2>2. SupervisorAt(a)'
    BY <1>1, <2>1 DEF SupervisorAt, local
  <2>3. (\A k \in Kind : TaskAt(a, k)') /\ ReportAt(a)' /\ (Shipped(a) => Shipped(a)')
    BY <1>1, <2>1, AgentForgets
  <2>4. SpoolAt(a)'
    BY <1>1, <2>1, <2>3, SpoolStays DEF SpoolAt, remote
  <2> QED
    BY <2>2, <2>3, <2>4 DEF DeliveryAt
<1> QED
  BY <1>1, <1>2, <1>3, AgentForgets DEF DeliveryInvariant

LEMMA AgentStartsDelivers ==
    ASSUME DeliveryInvariant, AgentStarts
    PROVE  DeliveryInvariant'
<1>0. PublisherInvariant /\ DeliveryTypes /\ LedgerLike(ledger)
  BY DeliveryFacts, Facts
<1>1. /\ UNCHANGED pvars /\ UNCHANGED <<local, remote>>
      /\ UNCHANGED <<slots, reported, poll, task>>
  BY DEF AgentStarts
<1>2. PublisherInvariant' /\ \A a \in Attempt : Same(a)
  BY <1>0, <1>1, PublisherRests
<1>3. LedgerTypes' /\ \A a \in Attempt : LedgerKept(a)
  <2>1. ledger' = ledger
    BY <1>1 DEF pvars, rows
  <2> QED
    BY <1>0, <2>1, LedgerStays
<1>4. DeliveryTypes' /\ \A a \in Attempt : DeliveryRests(a)
  BY <1>0, <1>1 DEF DeliveryTypes, DeliveryRests, local, remote
<1> QED
  BY <1>2, <1>3, <1>4, OthersStay DEF DeliveryInvariant

\* What is collectable was shipped, and nobody serves it.
LEMMA CollectableShipped ==
    ASSUME DeliveryInvariant, NEW a \in Attempt, Collectable(a)
    PROVE  Shipped(a) /\ a \notin open /\ job[a] = Idle
<1>1. /\ phase[a] = "released" /\ sup[a] = "gone" /\ receipt[a] \notin {None, Failed}
      /\ a \notin open /\ poll[a] = {} /\ \A k \in Kind : task[a][k] = NoTask
      /\ head[<<a, "result">>] = None => receipt[a] = Command
      /\ head[<<a, "result">>] # None => receipt[a] = head[<<a, "result">>]
  BY DEF Collectable, LivePin, InFlight
<1>2. ReportAt(a) /\ SupervisorAt(a) /\ receipt[a] # None
  BY <1>1, DeliveryFacts
<1>3. a \in slots => reported[a]
  BY <1>2 DEF ReportAt
<1>4. job[a] = Idle
  BY <1>1, <1>2 DEF SupervisorAt
<1> QED
  BY <1>1, <1>3, <1>4 DEF Shipped

\* Names of a's uploads go; their rows stay.
LEMMA Unlinked ==
    ASSUME PublisherInvariant, NEW a \in Attempt, job[a] = Idle, a \notin open,
           UNCHANGED <<up, pub, head, data, dirty, desc, log, want, job, open>>,
           link' \in [Attempt \X Upload -> SUBSET {"stage", "art"}],
           \A u \in Upload : link'[<<a, u>>] \subseteq link[<<a, u>>],
           \A b \in Attempt \ {a}, u \in Upload : link'[<<b, u>>] = link[<<b, u>>],
           input' \in [Attempt -> Nat], input'[a] =< At(ledger', Input(a)),
           \A b \in Attempt \ {a} : input'[b] = input[b],
           LedgerTypes', \A b \in Attempt \ {a} : LedgerKept(b),
           At(ledger', Log(a)) = At(ledger, Log(a)),
           \A p \in Pub : Desc(a, p) \in DOMAIN ledger => Desc(a, p) \in DOMAIN ledger'
    PROVE  PublisherInvariant' /\ \A b \in Attempt \ {a} : Same(b)
<1>0. AttemptAt(a) /\ UploadTypes /\ PubTypes /\ ServiceTypes
  BY Facts
<1>1. UploadTypes' /\ PubTypes' /\ ServiceTypes'
  BY <1>0 DEF UploadTypes, PubTypes, ServiceTypes
<1>2. \A b \in Attempt \ {a} : Same(b)
  BY DEF Same
<1>3. AttemptAt(a)'
  <2>1. \A u \in Upload : UploadAt(a, u)'
    <3> SUFFICES ASSUME NEW u \in Upload PROVE UploadAt(a, u)'
      OBVIOUS
    <3>1. UploadAt(a, u) /\ (link[<<a, u>>] = {} => link'[<<a, u>>] = {})
      BY <1>0 DEF AttemptAt
    <3> QED
      BY <3>1 DEF UploadAt
  <2>2. /\ \A p \in Pub : PublicationAt(a, p)'
        /\ \A k \in Kind : HeadAt(a, k)'
        /\ UndecidedAt(a)' /\ Newest(a)'
    BY PublicationsRest
  <2>3. JobAt(a)'
    BY DEF JobAt, Idle
  <2>4. ChargeAt(a)'
    BY <1>0 DEF AttemptAt, ChargeAt
  <2> QED
    BY <2>1, <2>2, <2>3, <2>4 DEF AttemptAt
<1>4. ASSUME NEW b \in Attempt PROVE AttemptAt(b)'
  <2>1. CASE b = a
    BY <1>3, <2>1
  <2>2. CASE b # a
    BY <1>2, <2>2, RestKept
  <2> QED
    BY <2>1, <2>2
<1> QED
  BY <1>1, <1>2, <1>4 DEF PublisherInvariant, PublisherTypes

LEMMA CollectDelivers ==
    ASSUME DeliveryInvariant, NEW a \in Attempt, Collect(a)
    PROVE  DeliveryInvariant'
<1>0. /\ PublisherInvariant /\ DeliveryTypes /\ UploadTypes /\ ServiceTypes /\ LedgerLike(ledger)
      /\ DeliveryAt(a) /\ SupervisorAt(a) /\ AttemptAt(a)
  BY DeliveryFacts, Facts
<1>1. /\ Collectable(a)
      /\ link' = [b \in Attempt \X Upload |-> IF b[1] = a THEN {} ELSE link[b]]
      /\ input' = [input EXCEPT ![a] = 0]
      /\ ledger' = Drop(ledger, SpoolPaths(a))
      /\ collected' = [collected EXCEPT ![a] = TRUE]
      /\ UNCHANGED <<up, pub, head, data, dirty, desc, log, want, job, open>>
      /\ UNCHANGED <<local, agentv, receipt, stored, accepted>>
  BY DEF Collect
<1>2. Shipped(a) /\ a \notin open /\ job[a] = Idle
  BY <1>1, CollectableShipped
<1>3. /\ link' \in [Attempt \X Upload -> SUBSET {"stage", "art"}]
      /\ \A u \in Upload : link'[<<a, u>>] = {}
      /\ \A b \in Attempt \ {a}, u \in Upload : link'[<<b, u>>] = link[<<b, u>>]
  BY <1>0, <1>1 DEF UploadTypes
<1>4. /\ input' \in [Attempt -> Nat] /\ input'[a] = 0
      /\ \A b \in Attempt \ {a} : input'[b] = input[b]
  BY <1>0, <1>1 DEF ServiceTypes
<1>5. /\ LedgerLike(ledger') /\ DOMAIN ledger' = DOMAIN ledger \ SpoolPaths(a)
      /\ \A x : x \notin SpoolPaths(a) => At(ledger', x) = At(ledger, x)
  BY <1>0, <1>1 DEF LedgerLike, Drop, Restrict, At
<1>6. \A x : At(ledger, x) \in Nat /\ At(ledger', x) \in Nat
  BY <1>0, <1>5, AtNat
<1>7. /\ Log(a) \notin SpoolPaths(a)
      /\ \A p \in Pub : Desc(a, p) \notin SpoolPaths(a)
      /\ \A b \in Attempt \ {a} :
            /\ Log(b) \notin SpoolPaths(a) /\ Input(b) \notin SpoolPaths(a)
            /\ \A u \in Upload : Stage(b, u) \notin SpoolPaths(a) /\ Art(b, u) \notin SpoolPaths(a)
            /\ \A p \in Pub : Desc(b, p) \notin SpoolPaths(a)
  BY DEF SpoolPaths, Stage, Art, Desc, Log, Input
<1>8. LedgerTypes' /\ \A b \in Attempt \ {a} : LedgerKept(b)
  <2>1. LedgerTypes'
    BY <1>5 DEF LedgerTypes, LedgerLike
  <2>2. \A x : x \notin SpoolPaths(a) => At(ledger, x) =< At(ledger', x)
    BY <1>5, <1>6
  <2> QED
    BY <1>5, <1>7, <2>1, <2>2 DEF LedgerKept
<1>9. PublisherInvariant' /\ \A b \in Attempt \ {a} : Same(b)
  <2>1. input'[a] =< At(ledger', Input(a))
    BY <1>4, <1>6
  <2>2. At(ledger', Log(a)) = At(ledger, Log(a))
    BY <1>5, <1>7
  <2>3. \A p \in Pub : Desc(a, p) \in DOMAIN ledger => Desc(a, p) \in DOMAIN ledger'
    BY <1>5, <1>7
  <2> QED
    BY <1>0, <1>1, <1>2, <1>3, <1>4, <1>8, <2>1, <2>2, <2>3, Unlinked
<1>10. DeliveryTypes' /\ collected'[a] /\ \A b \in Attempt \ {a} : DeliveryRests(b)
  BY <1>0, <1>1 DEF DeliveryTypes, DeliveryRests, local, agentv
<1>11. DeliveryAt(a)'
  <2>1. CommittedKept(a) /\ ResultRests(a)
    BY <1>1, SameResultRests
  <2>2. SupervisorAt(a)'
    BY <1>0, <1>1 DEF SupervisorAt, local
  <2>3. \A k \in Kind : TaskAt(a, k)'
    BY <1>1, <2>1, TaskStays DEF agentv
  <2>4. ReportAt(a)'
    <3>1. phase[a] = "released"
      BY <1>2 DEF Shipped
    <3> QED
      BY <1>1, <2>1, <3>1, ReportStays DEF local, agentv
  <2>5. Shipped(a)'
    BY <1>1, <1>2, ShippedStays DEF Shipped, local, agentv
  <2>6. SpoolAt(a)'
    BY <1>3, <1>10, <2>5 DEF SpoolAt
  <2> QED
    BY <2>2, <2>3, <2>4, <2>6 DEF DeliveryAt
<1>12. ASSUME NEW b \in Attempt PROVE DeliveryAt(b)'
  <2>1. CASE b = a
    BY <1>11, <2>1
  <2>2. CASE b # a
    BY <1>8, <1>9, <1>10, <2>2, OthersStay
  <2> QED
    BY <2>1, <2>2
<1> QED
  BY <1>9, <1>10, <1>12 DEF DeliveryInvariant

\* The names are gone, the transaction is not: everything stays charged.
LEMMA CollectInterruptedDelivers ==
    ASSUME DeliveryInvariant, NEW a \in Attempt, CollectInterrupted(a)
    PROVE  DeliveryInvariant'
<1>0. /\ PublisherInvariant /\ DeliveryTypes /\ UploadTypes /\ ServiceTypes /\ LedgerLike(ledger)
      /\ AttemptAt(a)
  BY DeliveryFacts, Facts
<1>1. /\ Collectable(a) /\ AgentGone
      /\ UNCHANGED <<up, pub, head, data, dirty, desc, log, want, job, open, input, ledger>>
      /\ UNCHANGED <<local, remote>>
  BY DEF CollectInterrupted, rows
<1>2. PICK S \in SUBSET Upload :
         link' = [b \in Attempt \X Upload |-> IF b[1] = a /\ b[2] \in S THEN {} ELSE link[b]]
  BY DEF CollectInterrupted
<1>3. Shipped(a) /\ a \notin open /\ job[a] = Idle
  BY <1>1, CollectableShipped
<1>4. /\ link' \in [Attempt \X Upload -> SUBSET {"stage", "art"}]
      /\ \A u \in Upload : link'[<<a, u>>] \subseteq link[<<a, u>>]
      /\ \A b \in Attempt \ {a}, u \in Upload : link'[<<b, u>>] = link[<<b, u>>]
  BY <1>0, <1>2 DEF UploadTypes
<1>5. LedgerTypes' /\ \A b \in Attempt : LedgerKept(b)
  BY <1>0, <1>1, LedgerStays
<1>6. PublisherInvariant' /\ \A b \in Attempt \ {a} : Same(b)
  <2>1. input'[a] =< At(ledger', Input(a)) /\ input' \in [Attempt -> Nat]
    BY <1>0, <1>1 DEF AttemptAt, ChargeAt, ServiceTypes
  <2>2. At(ledger', Log(a)) = At(ledger, Log(a))
    BY <1>1
  <2> QED
    BY <1>0, <1>1, <1>3, <1>4, <1>5, <2>1, <2>2, Unlinked
<1>7. ASSUME NEW b \in Attempt PROVE DeliveryAt(b)'
  <2>1. SupervisorAt(b) /\ SpoolAt(b)
    BY DeliveryFacts
  <2>2. SupervisorAt(b)'
    BY <1>1, <2>1 DEF SupervisorAt, local
  <2>3. CommittedKept(b) /\ ResultRests(b)
    BY <1>1, SameResultRests
  <2>4. (\A k \in Kind : TaskAt(b, k)') /\ ReportAt(b)' /\ (Shipped(b) => Shipped(b)')
    BY <1>1, <2>3, AgentForgets
  <2>5. UploadsCharged(b) => UploadsCharged(b)'
    BY <1>1 DEF UploadsCharged
  <2>6. SpoolAt(b)'
    <3>1. CASE b = a
      <4>1. collected[a] => \A u \in Upload : link'[<<a, u>>] = {}
        BY <1>4, <2>1, <3>1 DEF SpoolAt
      <4> QED
        BY <1>1, <1>3, <2>1, <2>4, <2>5, <3>1, <4>1 DEF SpoolAt, remote
    <3>2. CASE b # a
      <4>1. SpoolKept(b)
        BY <1>0, <1>5, <1>6, <3>2, RestKept
      <4>2. \A u \in Upload : link'[<<b, u>>] = link[<<b, u>>]
        BY <1>4, <3>2
      <4> QED
        BY <1>1, <2>1, <2>4, <4>1, <4>2, SpoolStays DEF SpoolAt, remote
    <3> QED
      BY <3>1, <3>2
  <2> QED
    BY <2>2, <2>4, <2>6 DEF DeliveryAt
<1> QED
  BY <1>1, <1>6, <1>7, AgentForgets DEF DeliveryInvariant

-----------------------------------------------------------------------------
(* The specification.                                                      *)
LEMMA DeliveryStarts ==
    ASSUME Init
    PROVE  DeliveryInvariant
<1>1. PublisherInvariant /\ \A a \in Attempt : Linked(a) /\ UploadsCharged(a)
  BY PublisherStarts DEF Init
<1>2. DeliveryTypes
  BY DEF Init, DeliveryTypes, NoTask, Reports
<1>3. ASSUME NEW a \in Attempt PROVE DeliveryAt(a)
  <2>1. SupervisorAt(a)
    BY DEF Init, PubInit, SupervisorAt
  <2>2. \A k \in Kind : TaskAt(a, k)
    BY Words DEF Init, TaskAt
  <2>3. ReportAt(a)
    BY Words DEF Init, ReportAt, Kind
  <2>4. SpoolAt(a)
    BY <1>1 DEF Init, SpoolAt
  <2> QED
    BY <2>1, <2>2, <2>3, <2>4 DEF DeliveryAt
<1> QED
  BY <1>1, <1>2, <1>3 DEF DeliveryInvariant

LEMMA DeliverySteps ==
    ASSUME WorkerWaits, DeliveryInvariant, Next
    PROVE  DeliveryInvariant'
<1>1. ASSUME NEW a \in Attempt, SupervisorStep(a) PROVE DeliveryInvariant'
  BY <1>1, LaunchDelivers, PublishDelivers, TakeResultDelivers, ReleaseDelivers, DrainDelivers,
     ExitDelivers DEF SupervisorStep
<1>2. ASSUME NEW a \in Attempt, AgentStep(a) PROVE DeliveryInvariant'
  BY <1>2, PollCheckpointDelivers, PollResultDelivers, PollAgainDelivers, PollFinalDelivers,
     PollFailDelivers, SubmitCheckpointDelivers, SubmitFinalDelivers, OutboxDelivers,
     ReleaseDelivers, CollectDelivers, SendArtifactDelivers DEF AgentStep
<1>3. ASSUME NEW a \in Attempt,
             \/ Request(a) \/ LeaderExit(a)
             \/ \E p \in Pub, arts \in SUBSET Upload : SubmitResult(a, p, arts)
             \/ SupervisorDies(a) \/ CollectInterrupted(a)
      PROVE  DeliveryInvariant'
  BY <1>3, RequestDelivers, LeaderExitDelivers, SubmitResultDelivers, SupervisorDiesDelivers,
     CollectInterruptedDelivers
<1>4. CASE AgentDies \/ AgentStarts
  BY <1>4, AgentGoneDelivers, AgentStartsDelivers
<1> QED
  BY <1>1, <1>2, <1>3, <1>4 DEF Next

LEMMA DeliveryKept ==
    ASSUME DeliveryInvariant, UNCHANGED vars
    PROVE  DeliveryInvariant'
<1>1. /\ UNCHANGED pvars /\ UNCHANGED <<local, agentv, remote>>
      /\ ledger' = ledger
  BY DEF vars, pvars, rows
<1>2. PublisherInvariant' /\ \A a \in Attempt : Same(a)
  BY <1>1, DeliveryFacts, PublisherRests
<1>3. LedgerTypes' /\ \A a \in Attempt : LedgerKept(a)
  BY <1>1, DeliveryFacts, Facts, LedgerStays
<1>4. DeliveryTypes' /\ \A a \in Attempt : DeliveryRests(a)
  BY <1>1, DeliveryFacts DEF DeliveryTypes, DeliveryRests, local, agentv, remote
<1> QED
  BY <1>2, <1>3, <1>4, OthersStay DEF DeliveryInvariant

LEMMA DeliveredIsSound ==
    ASSUME DeliveryInvariant
    PROVE  NoResultLost
<1>0. PublisherInvariant /\ DeliveryTypes /\ PubTypes
  BY DeliveryFacts, Facts
<1>1. NoPlainFallback
  BY DeliveryFacts, Words DEF NoPlainFallback, ReportAt, NoResult, HeadReadable
<1>2. ASSUME NEW a \in Attempt, NEW p \in Pub, pub[<<a, p>>].state = "committed", ~Shipped(a),
             NEW u \in pub[<<a, p>>].arts
      PROVE  u \in Upload /\ up[<<a, u>>].state = "sealed" /\ "art" \in link[<<a, u>>]
  <2>1. u \in Upload
    BY <1>0, <1>2 DEF PubTypes, PubRow
  <2>2. PublicationAt(a, p) /\ Linked(a)
    BY <1>0, <1>2, Facts, DeliveryFacts DEF AttemptAt, SpoolAt
  <2>3. up[<<a, u>>].state = "sealed"
    BY <1>2, <2>2 DEF PublicationAt
  <2> QED
    BY <2>1, <2>2, <2>3 DEF Linked
<1>3. SendableWhileInFlight
  <2> SUFFICES ASSUME NEW a \in Attempt, NEW k \in Kind, NEW u \in task[a][k].left
               PROVE  "art" \in link[<<a, u>>]
    BY DEF SendableWhileInFlight
  <2>1. task[a][k] # NoTask /\ TaskAt(a, k) /\ task[a][k].desc \in Pub \cup {None, Command}
    BY <1>0, DeliveryFacts, TaskTypes, Words
  <2>2. task[a][k].desc \in Pub
    BY <2>1 DEF TaskAt
  <2>3. /\ pub[<<a, task[a][k].desc>>].state = "committed"
        /\ u \in pub[<<a, task[a][k].desc>>].arts
    BY <2>1, <2>2 DEF TaskAt
  <2>4. ~Shipped(a)
    BY <2>1 DEF Shipped
  <2> QED
    BY <1>2, <2>2, <2>3, <2>4
<1>4. GoneIsDelivered
  <2> SUFFICES ASSUME NEW a \in Attempt, head[<<a, "result">>] # None,
                      NEW u \in pub[<<a, head[<<a, "result">>]>>].arts, link[<<a, u>>] = {}
               PROVE  accepted[a] = head[<<a, "result">>] /\ u \in stored[a]
    BY DEF GoneIsDelivered
  <2> DEFINE p == head[<<a, "result">>]
  <2>1. p \in Pub /\ pub[<<a, p>>].state = "committed"
    BY HeadRead DEF Kind
  <2>2. Shipped(a)
    BY <1>2, <2>1
  <2>3. receipt[a] = p /\ receipt[a] \notin {None, Failed}
    BY <2>2 DEF Shipped
  <2>4. accepted[a] = p
    BY <2>3, DeliveryFacts DEF ReportAt
  <2> QED
    BY <2>1, <2>4, DeliveryFacts DEF ReportAt
<1>5. DiskIsCharged
  <2>1. \A a \in Attempt : UploadsCharged(a) \/ \A u \in Upload : link[<<a, u>>] = {}
    BY DeliveryFacts DEF SpoolAt
  <2> QED
    BY <1>0, <2>1, SpoolIsSound
<1> QED
  BY <1>1, <1>3, <1>4, <1>5 DEF NoResultLost

(* DeliveryInvariant: rows, files, tasks, reports and receipts of an       *)
(* attempt agree, from its first upload to its collection.                 *)
THEOREM DeliveryInductive == ASSUME WorkerWaits PROVE Spec => []DeliveryInvariant
<1>1. Init => DeliveryInvariant
  BY DeliveryStarts
<1>2. DeliveryInvariant /\ [Next]_vars => DeliveryInvariant'
  BY DeliverySteps, DeliveryKept
<1> QED
  BY <1>1, <1>2, PTL DEF Spec

(* No committed result is lost, replaced by a plain exit status, or taken  *)
(* off the disk before the coordinator holds it, whatever supervisor or    *)
(* agent dies, if a worker waits for its last answer (agent.rs,            *)
(* publication_gc.rs).                                                     *)
THEOREM ResultsAreNotLost == ASSUME WorkerWaits PROVE Spec => []NoResultLost
<1>1. DeliveryInvariant => NoResultLost
  BY DeliveredIsSound
<1> QED
  BY <1>1, DeliveryInductive, PTL
=============================================================================
