---------------------------- MODULE Publication ----------------------------
(***************************************************************************)
(* The local publisher of a node (publication.rs).  A worker uploads       *)
(* artifacts chunk by chunk into a staging file, seals them, and commits   *)
(* publications that name sealed artifacts: a row, a descriptor file and a *)
(* head per kind.  SQLite transactions, file writes, hard links and        *)
(* directory syncs are separate steps; a publisher may die between any two *)
(* of them, and a power loss also takes what was not synced.  Every byte   *)
(* of every attempt is charged to one ledger with a node-wide quota.       *)
(*                                                                         *)
(* A publisher answers one request at a time; job is the request it is in  *)
(* the middle of.  A repeated request ID only returns the stored response, *)
(* so it is not a step here; a begin request ID and its upload are one u.  *)
(***************************************************************************)
EXTENDS Integers, FiniteSets, Sequences, SequencesExt, FiniteSetsExt, Functions

CONSTANTS
    Attempt,      \* attempts of this node
    Upload,       \* upload IDs of an attempt
    Pub,          \* publication IDs of an attempt
    Byte,         \* values of a byte
    Size,         \* bytes of every artifact
    Quota,        \* max_spool_bytes
    MaxLog,       \* bound: bytes of captured output per attempt
    MaxReopen,    \* bound: publishers opened again over an attempt
    MaxPower,     \* bound: power losses
    None

VARIABLES
    up,           \* local_uploads: state, offset and sha256
    data,         \* bytes of an upload's file
    link,         \* the names the file has: staging, artifacts
    dirty,        \* bytes past the synced ones may be lost
    pub,          \* local_publications
    desc,         \* descriptor file: absent, torn, whole (unsynced) or synced
    head,         \* local_publication_heads
    ledger,       \* local_spool_entries: path -> bytes
    job,          \* the request an attempt's publisher is serving
    open,         \* attempts with a publisher
    log, input,   \* bytes of captured output and of a downloaded input
    want,         \* bytes reserved by the capture thread and not yet written
    reopens, power

files == <<data, link, dirty, desc, log, input, want>>
rows  == <<up, pub, head, ledger>>
pvars == <<rows, files, job, open, reopens, power>>

Kind == {"checkpoint", "result"}
Idle == [op |-> "idle"]
Unresolved == {"pending", "uncertain"}
NoUpload == [state |-> "none", off |-> 0, sum |-> <<>>]
NoPub == [state |-> "none", kind |-> "none", seq |-> 0, arts |-> {}]

PublicationConstants ==
    /\ Size \in Nat \ {0} /\ Quota \in Nat
    /\ MaxLog \in Nat /\ MaxReopen \in Nat /\ MaxPower \in Nat
    /\ None \notin Pub

(***************************************************************************)
(* The ledger.                                                             *)
(***************************************************************************)
Stage(a, u) == <<"staging", a, u>>
Art(a, u)   == <<"artifacts", a, u>>
Desc(a, p)  == <<"publications", a, p>>
Log(a)      == <<"log", a, None>>
Input(a)    == <<"inputs", a, None>>

Charged(l) == MapThenSumSet(LAMBDA path : l[path], DOMAIN l)
Charge(l, path, n) == [x \in DOMAIN l \cup {path} |-> IF x = path THEN n ELSE l[x]]
Drop(l, S) == Restrict(l, DOMAIN l \ S)
At(l, path) == IF path \in DOMAIN l THEN l[path] ELSE 0

\* Faulty: only what the new file needs is compared with the quota.
FitsAlone(n) == n =< Quota

Fits(n) == Charged(ledger) + n =< Quota

\* The size of every file on disk, by path.
OnDisk ==
    LET F(a) == {<<Stage(a, u), Len(data[<<a, u>>])>> :
                    u \in {v \in Upload : "stage" \in link[<<a, v>>]}}
                \cup {<<Art(a, u), Len(data[<<a, u>>])>> :
                         u \in {v \in Upload : "art" \in link[<<a, v>>]}}
                \cup {<<Desc(a, p), 1>> : p \in {q \in Pub : desc[<<a, q>>] # "absent"}}
                \cup {<<Log(a), log[a]>>} \cup {<<Input(a), input[a]>>}
    IN  UNION {F(a) : a \in Attempt}

\* account_existing: reconcile upwards only.
Accounted ==
    LET seen == {f \in OnDisk : f[2] > 0 \/ f[1] \in DOMAIN ledger}
    IN  [path \in DOMAIN ledger \cup {f[1] : f \in seen} |->
            Max({At(ledger, path)} \cup {f[2] : f \in {g \in seen : g[1] = path}})]

(***************************************************************************)
(* Opening a publisher (child_supervision starts one per supervisor).      *)
(***************************************************************************)
Open(a) ==
    /\ a \notin open
    /\ reopens[a] =< MaxReopen
    /\ reopens' = [reopens EXCEPT ![a] = @ + 1]
    /\ open' = open \cup {a}
    /\ ledger' = Accounted
    /\ UNCHANGED <<up, pub, head, files, job, power>>

Free(a) == a \in open /\ job[a] = Idle
Serving(a, op) == a \in open /\ job[a].op = op
Answered(a) == job' = [job EXCEPT ![a] = Idle]
Continue(a, j) == job' = [job EXCEPT ![a] = j]

(***************************************************************************)
(* Uploads.                                                                *)
(***************************************************************************)
\* artifact_begin: the reservation and the row are one transaction.
Begin(a, u) ==
    /\ Free(a)
    /\ up[<<a, u>>].state = "none"
    /\ Fits(Size)
    /\ Stage(a, u) \notin DOMAIN ledger
    /\ ledger' = Charge(ledger, Stage(a, u), Size)
    /\ up' = [up EXCEPT ![<<a, u>>] = [NoUpload EXCEPT !.state = "open"]]
    /\ Continue(a, [op |-> "create", x |-> u])
    /\ UNCHANGED <<pub, head, files, open, reopens, power>>

\* A retried begin finds its row and may find the file missing.
BeginAgain(a, u) ==
    /\ Free(a)
    /\ up[<<a, u>>].state = "open"
    /\ up[<<a, u>>].off = 0
    /\ link[<<a, u>>] = {}
    /\ Continue(a, [op |-> "create", x |-> u])
    /\ UNCHANGED <<rows, files, open, reopens, power>>

\* The file and its name are synced; a failure keeps the reservation.
CreateStage(a) ==
    /\ Serving(a, "create")
    /\ LET u == job[a].x
       IN  \/ link' = [link EXCEPT ![<<a, u>>] = {"stage"}]
           \/ UNCHANGED link
    /\ Answered(a)
    /\ UNCHANGED <<rows, data, dirty, desc, log, input, want, open, reopens, power>>

\* artifact_chunk: a chunk below the offset, or of a sealed upload, is only
\* compared with what is there; the others are written.
Chunk(a, u, off, byte) ==
    /\ Free(a)
    /\ up[<<a, u>>].state = "open" /\ off = up[<<a, u>>].off
    /\ link[<<a, u>>] # {}
    /\ off + 1 =< Size
    /\ data' = [data EXCEPT ![<<a, u>>] = SubSeq(@, 1, off) \o <<byte>>
                                      \o SubSeq(@, off + 2, Len(@))]
    /\ dirty' = [dirty EXCEPT ![<<a, u>>] = TRUE]
    /\ Continue(a, [op |-> "chunk", x |-> u])
    /\ UNCHANGED <<rows, link, desc, log, input, want, open, reopens, power>>

\* The bytes are synced before the row says they are there.
ChunkRow(a) ==
    /\ Serving(a, "chunk")
    /\ LET u == job[a].x
       IN  /\ dirty' = [dirty EXCEPT ![<<a, u>>] = FALSE]
           /\ up' = [up EXCEPT ![<<a, u>>].off = @ + 1]
    /\ Answered(a)
    /\ UNCHANGED <<pub, head, ledger, data, link, desc, log, input, want, open, reopens, power>>

\* artifact_finish: hash, link the second name unless it is there, sync.
SealLink(a, u) ==
    /\ Free(a)
    /\ up[<<a, u>>].state = "open"
    /\ up[<<a, u>>].off = Size
    /\ link[<<a, u>>] # {}
    /\ Len(data[<<a, u>>]) = Size
    /\ link' = [link EXCEPT ![<<a, u>>] = @ \cup {"art"}]
    /\ dirty' = [dirty EXCEPT ![<<a, u>>] = FALSE]
    /\ Continue(a, [op |-> "linked", x |-> u, sum |-> data[<<a, u>>]])
    /\ UNCHANGED <<rows, data, desc, log, input, want, open, reopens, power>>

SealUnlink(a) ==
    /\ Serving(a, "linked")
    /\ link' = [link EXCEPT ![<<a, job[a].x>>] = @ \ {"stage"}]
    /\ Continue(a, [job[a] EXCEPT !.op = "unlinked"])
    /\ UNCHANGED <<rows, data, dirty, desc, log, input, want, open, reopens, power>>

\* One transaction seals the row and moves the charge to the new name.
SealRow(a) ==
    /\ Serving(a, "unlinked")
    /\ LET u == job[a].x
       IN  /\ up' = [up EXCEPT ![<<a, u>>].state = "sealed", ![<<a, u>>].sum = job[a].sum]
           /\ ledger' = Charge(Drop(ledger, {Stage(a, u)}), Art(a, u),
                               Max({At(ledger, Art(a, u)), Size}))
    /\ Answered(a)
    /\ UNCHANGED <<pub, head, files, open, reopens, power>>

(***************************************************************************)
(* Publications.                                                           *)
(***************************************************************************)
UnresolvedOf(a) == {p \in Pub : pub[<<a, p>>].state \in Unresolved}
NextSequence(a) == 1 + Max({pub[<<a, p>>].seq : p \in Pub} \cup {0})
HeadSequence(a, k) == IF head[<<a, k>>] = None THEN 0 ELSE pub[<<a, head[<<a, k>>]>>].seq

\* publication_commit, first transaction: sequence, charge and pending row.
MayCommit(a, p, k, arts) ==
    /\ pub[<<a, p>>].state = "none"
    /\ \A u \in arts : up[<<a, u>>].state = "sealed"
    /\ UnresolvedOf(a) = {}
    /\ k = "result" => head[<<a, "result">>] = None
    /\ Fits(1)
    /\ Desc(a, p) \notin DOMAIN ledger

CommitInsert(a, p, k, arts) ==
    /\ Free(a)
    /\ MayCommit(a, p, k, arts)
    /\ ledger' = Charge(ledger, Desc(a, p), 1)
    /\ pub' = [pub EXCEPT ![<<a, p>>] = [state |-> "pending", kind |-> k,
                                     seq |-> NextSequence(a), arts |-> arts]]
    /\ Continue(a, [op |-> "desc", x |-> p])
    /\ UNCHANGED <<up, head, files, open, reopens, power>>

\* The descriptor is written and synced with its directory.
CommitWrite(a) ==
    /\ Serving(a, "desc")
    /\ desc' = [desc EXCEPT ![<<a, job[a].x>>] = "synced"]
    /\ Continue(a, [job[a] EXCEPT !.op = "head"])
    /\ UNCHANGED <<rows, data, link, dirty, log, input, want, open, reopens, power>>

\* Creating, writing or syncing fails somewhere; marking the row may fail too.
CommitWriteFails(a) ==
    /\ Serving(a, "desc")
    /\ \E d \in {"absent", "torn", "whole"}, s \in Unresolved :
          /\ desc' = [desc EXCEPT ![<<a, job[a].x>>] = d]
          /\ pub' = [pub EXCEPT ![<<a, job[a].x>>].state = s]
    /\ Answered(a)
    /\ UNCHANGED <<up, head, ledger, data, link, dirty, log, input, want, open, reopens, power>>

\* Second transaction: the head moves and the row is committed, or neither.
CommitHead(a) ==
    /\ Serving(a, "head")
    /\ LET p == job[a].x
           k == pub[<<a, p>>].kind
       IN  /\ HeadSequence(a, k) < pub[<<a, p>>].seq
           /\ head' = [head EXCEPT ![<<a, k>>] = p]
           /\ pub' = [pub EXCEPT ![<<a, p>>].state = "committed"]
    /\ Answered(a)
    /\ UNCHANGED <<up, ledger, files, open, reopens, power>>

CommitHeadFails(a) ==
    /\ Serving(a, "head")
    /\ Answered(a)
    /\ UNCHANGED <<rows, files, open, reopens, power>>

(***************************************************************************)
(* reconcile: publication_status, or a commit of an ID that has a row.     *)
(***************************************************************************)
\* A candidate whose descriptor is gone was never committed.
ReconcileMissing(a, p) ==
    /\ Free(a)
    /\ pub[<<a, p>>].state \in Unresolved
    /\ desc[<<a, p>>] = "absent"
    /\ p \notin {head[<<a, k>>] : k \in Kind}
    /\ pub' = [pub EXCEPT ![<<a, p>>].state = "rejected"]
    /\ ledger' = Drop(ledger, {Desc(a, p)})
    /\ UNCHANGED <<up, head, files, job, open, reopens, power>>

\* Faulty: a torn descriptor is taken for the candidate.
ReconcileFoundUnhashed(a, p) ==
    /\ Free(a)
    /\ pub[<<a, p>>].state \in Unresolved
    /\ desc[<<a, p>>] # "absent"
    /\ head' = [head EXCEPT ![<<a, pub[<<a, p>>].kind>>] = p]
    /\ pub' = [pub EXCEPT ![<<a, p>>].state = "committed"]
    /\ UNCHANGED <<up, ledger, files, job, open, reopens, power>>

\* The exact candidate is synced again before its own operation is decided;
\* a torn one stays as it is.
ReconcileFound(a, p) ==
    /\ Free(a)
    /\ pub[<<a, p>>].state \in Unresolved
    /\ desc[<<a, p>>] \in {"whole", "synced"}
    /\ desc' = [desc EXCEPT ![<<a, p>>] = "synced"]
    /\ LET k == pub[<<a, p>>].kind
       IN  IF HeadSequence(a, k) >= pub[<<a, p>>].seq /\ head[<<a, k>>] # p
           THEN /\ pub' = [pub EXCEPT ![<<a, p>>].state = "rejected"]
                /\ UNCHANGED head
           ELSE /\ head' = [head EXCEPT ![<<a, k>>] = p]
                /\ pub' = [pub EXCEPT ![<<a, p>>].state = "committed"]
    /\ UNCHANGED <<up, ledger, data, link, dirty, log, input, want, job, open, reopens, power>>

(***************************************************************************)
(* Output capture and input downloads charge the same ledger.              *)
(***************************************************************************)
CaptureReserve(a) ==
    /\ want[a] = 0 /\ log[a] < MaxLog
    /\ Fits(1)
    /\ ledger' = Charge(ledger, Log(a), At(ledger, Log(a)) + 1)
    /\ want' = [want EXCEPT ![a] = 1]
    /\ UNCHANGED <<up, pub, head, data, link, dirty, desc, log, input, job, open, reopens, power>>

CaptureWrite(a) ==
    /\ want[a] = 1
    /\ log' = [log EXCEPT ![a] = @ + 1]
    /\ want' = [want EXCEPT ![a] = 0]
    /\ UNCHANGED <<rows, data, link, dirty, desc, input, job, open, reopens, power>>

\* A download reserves the whole file before it is created (after accounting).
Download(a) ==
    /\ MaxLog > 0 /\ input[a] = 0
    /\ Charged(Accounted) + 1 =< Quota
    /\ ledger' = Charge(Accounted, Input(a), At(Accounted, Input(a)) + 1)
    /\ input' \in {[input EXCEPT ![a] = 1], input}
    /\ UNCHANGED <<up, pub, head, data, link, dirty, desc, log, want, job, open, reopens, power>>

\* A failed download removes its file, then its charge.
Undownload(a) ==
    /\ input[a] = 1
    /\ input' = [input EXCEPT ![a] = 0]
    /\ ledger' = Drop(Accounted, {Input(a)})
    /\ UNCHANGED <<up, pub, head, data, link, dirty, desc, log, want, job, open, reopens, power>>

(***************************************************************************)
(* Faults.                                                                 *)
(***************************************************************************)
\* What the dying publisher had done of the step it was in.
Partial(a) ==
    /\ link' = [b \in Attempt \X Upload |->
                  IF job[a].op = "create" /\ b = <<a, job[a].x>> /\ link[b] = {}
                  THEN {"stage"} ELSE link[b]]
    /\ IF job[a].op = "desc"
       THEN \E d \in {"absent", "torn", "whole"} : desc' = [desc EXCEPT ![<<a, job[a].x>>] = d]
       ELSE UNCHANGED desc

Die(a) ==
    /\ a \in open
    /\ open' = open \ {a}
    /\ Answered(a)
    /\ Partial(a) \/ UNCHANGED <<link, desc>>
    /\ UNCHANGED <<rows, data, dirty, log, input, want, reopens, power>>

\* Everything stops; unsynced bytes and names may be lost.
Lost(d) == IF d = "whole" THEN {"absent", "torn", "whole"}
           ELSE IF d = "torn" THEN {"absent", "torn"} ELSE {d}
PowerLoss ==
    /\ power < MaxPower
    /\ power' = power + 1
    /\ open' = {}
    /\ job' = [a \in Attempt |-> Idle]
    /\ desc' \in {f \in [Attempt \X Pub -> {"absent", "torn", "whole", "synced"}] :
                     \A b \in Attempt \X Pub : f[b] \in Lost(desc[b])}
    /\ \/ UNCHANGED data
       \/ data' = [b \in Attempt \X Upload |->
                     IF dirty[b] THEN SubSeq(data[b], 1, Len(data[b]) - 1) ELSE data[b]]
    /\ dirty' = [b \in Attempt \X Upload |-> FALSE]
    /\ want' = [a \in Attempt |-> 0]
    /\ UNCHANGED <<rows, link, log, input, reopens>>

(***************************************************************************)
(* Specification.                                                          *)
(***************************************************************************)
PubInit ==
    /\ up = [b \in Attempt \X Upload |-> NoUpload]
    /\ data = [b \in Attempt \X Upload |-> <<>>]
    /\ link = [b \in Attempt \X Upload |-> {}]
    /\ dirty = [b \in Attempt \X Upload |-> FALSE]
    /\ pub = [b \in Attempt \X Pub |-> NoPub]
    /\ desc = [b \in Attempt \X Pub |-> "absent"]
    /\ head = [b \in Attempt \X Kind |-> None]
    /\ ledger = <<>>
    /\ job = [a \in Attempt |-> Idle]
    /\ open = {}
    /\ log = [a \in Attempt |-> 0] /\ input = log /\ want = log
    /\ reopens = [a \in Attempt |-> 0] /\ power = 0

Serve(a) ==
    \/ \E u \in Upload :
          \/ Begin(a, u) \/ BeginAgain(a, u) \/ SealLink(a, u)
          \/ \E off \in 0..Size, byte \in Byte : Chunk(a, u, off, byte)
    \/ \E p \in Pub :
          \/ ReconcileMissing(a, p) \/ ReconcileFound(a, p)
          \/ \E k \in Kind, arts \in SUBSET Upload : CommitInsert(a, p, k, arts)

Progress(a) ==
    \/ CreateStage(a) \/ ChunkRow(a) \/ SealUnlink(a) \/ SealRow(a)
    \/ CommitWrite(a) \/ CommitWriteFails(a) \/ CommitHead(a) \/ CommitHeadFails(a)

Spool(a) == CaptureReserve(a) \/ CaptureWrite(a) \/ Download(a) \/ Undownload(a)

PubNext ==
    \/ \E a \in Attempt : Open(a) \/ Serve(a) \/ Progress(a) \/ Spool(a) \/ Die(a)
    \/ PowerLoss


(***************************************************************************)
(* Properties.                                                             *)
(***************************************************************************)
TypeOK ==
    /\ up \in [Attempt \X Upload ->
                 [state : {"none", "open", "sealed"}, off : 0..Size, sum : BoundedSeq(Byte, Size)]]
    /\ data \in [Attempt \X Upload -> BoundedSeq(Byte, Size)]
    /\ link \in [Attempt \X Upload -> SUBSET {"stage", "art"}]
    /\ dirty \in [Attempt \X Upload -> BOOLEAN]
    /\ pub \in [Attempt \X Pub ->
                  [state : {"none", "committed", "rejected"} \cup Unresolved,
                   kind : Kind \cup {"none"}, seq : 0..Cardinality(Pub), arts : SUBSET Upload]]
    /\ desc \in [Attempt \X Pub -> {"absent", "torn", "whole", "synced"}]
    /\ head \in [Attempt \X Kind -> Pub \cup {None}]
    /\ \A path \in DOMAIN ledger : ledger[path] \in Nat
    /\ open \subseteq Attempt
    /\ log \in [Attempt -> 0..MaxLog] /\ input \in [Attempt -> 0..1] /\ want \in [Attempt -> 0..1]

(* A head selects a committed publication whose descriptor is on disk for  *)
(* good and whose artifacts are sealed: no crash, power loss, failed write *)
(* or reconciliation lets a torn or unsynced candidate become the head     *)
(* (commit 449-489, reconcile 491-558).                                    *)
HeadIsDurable ==
    \A a \in Attempt, k \in Kind :
        LET p == head[<<a, k>>]
        IN  p # None => /\ pub[<<a, p>>].state = "committed"
                        /\ pub[<<a, p>>].kind = k
                        /\ desc[<<a, p>>] = "synced"
                        /\ \A u \in pub[<<a, p>>].arts : up[<<a, u>>].state = "sealed"

(* An attempt has at most one publication whose fate is unknown, and it is *)
(* the newest one: reconciling it can never rewind a head (413-417, 538).  *)
OneUndecided ==
    \A a \in Attempt : \A p \in UnresolvedOf(a), q \in Pub :
        q # p => pub[<<a, q>>].seq < pub[<<a, p>>].seq

(* Heads only move to later sequences, and the result head never moves     *)
(* once it is set (423-429, 471-476, 541-544).                             *)
AdvancesHeads ==
    \A a \in Attempt, k \in Kind :
        head'[<<a, k>>] # head[<<a, k>>] =>
            /\ head'[<<a, k>>] # None
            /\ k = "result" => head[<<a, k>>] = None
            /\ HeadSequence(a, k) < pub'[<<a, head'[<<a, k>>]>>].seq

(* Bytes that an answered chunk covers keep their value for ever, whatever *)
(* is sent again and whenever the power fails; a sealed file is the one    *)
(* that was hashed (chunk 263-283, finish 316-365).                        *)
KeepsAnswered ==
    \A b \in Attempt \X Upload :
        /\ up[b].off =< Len(data'[b])
        /\ SubSeq(data'[b], 1, up[b].off) = SubSeq(data[b], 1, up[b].off)
        /\ up'[b].state = "sealed" => data'[b] = up'[b].sum

(* Bytes of a file, each inode once. *)
Held(a) ==
    MapThenSumSet(LAMBDA u : IF link[<<a, u>>] = {} THEN 0 ELSE Len(data[<<a, u>>]), Upload)
    + Cardinality({p \in Pub : desc[<<a, p>>] # "absent"}) + log[a] + input[a]

(* What is on disk is charged: no file is larger than the charges of its   *)
(* names, across interrupted seals, failed writes and rejected candidates  *)
(* (reserve 615-640, finish 352-363, reconcile 517-523).                   *)
DiskIsCharged ==
    /\ \A a \in Attempt, u \in Upload :
          link[<<a, u>>] # {} =>
              Len(data[<<a, u>>]) =< At(ledger, Stage(a, u)) + At(ledger, Art(a, u))
    /\ \A a \in Attempt : /\ log[a] + want[a] =< At(ledger, Log(a))
                          /\ input[a] =< At(ledger, Input(a))
                          /\ \A p \in Pub :
                                  desc[<<a, p>>] # "absent" => Desc(a, p) \in DOMAIN ledger

(* Publishers, captures and downloads of all attempts together never put   *)
(* more on disk than the node-wide quota.                                  *)
DiskWithinQuota == MapThenSumSet(Held, Attempt) =< Quota
=============================================================================
