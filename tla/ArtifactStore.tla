---------------------------- MODULE ArtifactStore ----------------------------
(***************************************************************************)
(* The coordinator's artifact store (artifacts.rs) and the lane on which   *)
(* it is used (Coordinator::dispatch).  An upload is a metadata file and a *)
(* partial file; publishing seals the partial, hashes it and links the     *)
(* inode under its digest.  Hashing runs outside the state mutex: a        *)
(* request authorizes, verifies on the lane, takes the mutex again and     *)
(* rechecks what may have changed.  The process may die between any two    *)
(* steps, and unsynced bytes may be lost or be garbage afterwards.         *)
(*                                                                         *)
(* A digest is its content: Sha is a set of byte sequences, and an upload  *)
(* ID, the hash of its metadata, is the pair of attempt and digest.        *)
(***************************************************************************)
EXTENDS Integers, FiniteSets, Sequences, SequencesExt, FiniteSetsExt

CONSTANTS
    Attempt,     \* assignment and generation
    Byte, Size,  \* every artifact has Size bytes
    Sha,         \* digests that are uploaded, each the content it names
    Quota,       \* quota_bytes
    Thread,      \* connections served concurrently
    Inode,       \* bound: files created, a set of numbers from 1
    MaxCrash,    \* bound: deaths of the coordinator
    None

StoreConstants ==
    /\ Size \in Nat \ {0} /\ Quota \in Nat /\ MaxCrash \in Nat
    /\ Sha \subseteq [1..Size -> Byte]
    /\ Cardinality(Inode) \in Nat /\ Inode = 1..Cardinality(Inode)
    /\ None \notin Thread

VARIABLES
    meta,      \* uploads/<id>.json
    part,      \* uploads/<id>.part: an inode, 0 when absent
    blob,      \* blobs/<sha>: an inode, 0 when absent
    synced,    \* digests whose directory entry is durable
    bytes,     \* content of an inode
    ro,        \* inodes with mode 0400
    used,      \* inodes created so far
    rows,      \* publications table
    result,    \* digests a result or checkpoint was accepted with, per attempt
    current,   \* attempts that are still current
    lane,      \* holder of the artifact lane
    th,        \* where each connection is, and what it has verified
    crashes

disk == <<meta, part, blob, synced, bytes, ro, used>>
db == <<rows, result, current>>
vars == <<disk, db, lane, th, crashes>>

Upload == Attempt \X Sha
Waiting == [pc |-> "idle", a |-> None, refs |-> {}, commit |-> FALSE, proof |-> {}, valid |-> TRUE]

(***************************************************************************)
(* Accounting: an upload without a blob is charged twice its size.         *)
(***************************************************************************)
Usage == Size * (Cardinality({s \in Sha : blob[s] # 0})
                 + Cardinality({u \in meta : blob[u[2]] # 0})
                 + 2 * Cardinality({u \in meta : blob[u[2]] = 0}))

Occupied == {part[u] : u \in Upload} \cup {blob[s] : s \in Sha}
Physical == MapThenSumSet(LAMBDA i : Len(bytes[i]), Occupied \ {0})

MayBegin == Usage + 2 * Size =< Quota

(***************************************************************************)
(* A proof pins an inode by its change time: links, unlinks, writes and    *)
(* mode changes of the inode invalidate it.                                *)
(***************************************************************************)
Touched(f, S) == [t \in Thread |->
    [f[t] EXCEPT !.valid = @ /\ f[t].proof \cap S = {}]]

\* Requests that hold the state mutex throughout run on a free lane.
Handled(a) == lane = None /\ a \in current

BeginUpload(u) ==
    /\ Handled(u[1])
    /\ u \in meta \/ MayBegin
    /\ part[u] = 0 /\ used < Cardinality(Inode)
    /\ meta' = meta \cup {u}
    /\ used' = used + 1
    /\ part' = [part EXCEPT ![u] = used + 1]
    /\ UNCHANGED <<blob, synced, bytes, ro, db, lane, th, crashes>>

\* A chunk at the end is appended and synced; any other is only compared.
UploadChunk(u, byte) ==
    /\ Handled(u[1])
    /\ u \in meta /\ part[u] # 0
    /\ Len(bytes[part[u]]) < Size
    /\ part[u] \notin ro
    /\ bytes' = [bytes EXCEPT ![part[u]] = Append(@, byte)]
    /\ th' = Touched(th, {part[u]})
    /\ UNCHANGED <<meta, part, blob, synced, ro, used, db, lane, crashes>>

\* An abort is authorized by the reservation alone, current or not.
AbortUpload(u) ==
    /\ lane = None
    /\ u \in meta
    /\ meta' = meta \ {u}
    /\ part' = [part EXCEPT ![u] = 0]
    /\ th' = Touched(th, {part[u]})
    /\ UNCHANGED <<blob, synced, bytes, ro, used, db, lane, crashes>>

(***************************************************************************)
(* CommitUpload, and the submissions that reference artifacts.             *)
(***************************************************************************)
\* First entry: the lane, then the mutex for the authorization only.
EnterCommit(t, u) ==
    /\ th[t].pc = "idle" /\ lane = None
    /\ u \in meta /\ u[1] \in current
    /\ lane' = t
    /\ th' = [th EXCEPT ![t] = [Waiting EXCEPT !.pc = "seal", !.a = u[1], !.refs = {u[2]},
                                              !.commit = TRUE]]
    /\ UNCHANGED <<disk, db, crashes>>

EnterAccept(t, a, S) ==
    /\ th[t].pc = "idle" /\ lane = None
    /\ lane' = t
    /\ th' = [th EXCEPT ![t] = [Waiting EXCEPT !.pc = "pin", !.a = a, !.refs = S]]
    /\ UNCHANGED <<disk, db, crashes>>

Content(i) == IF i = 0 THEN <<>> ELSE bytes[i]
Uploaded(t) == <<th[t].a, CHOOSE s \in th[t].refs : TRUE>>

\* publish: a complete partial is made read-only before it is hashed.
Seal(t) ==
    /\ th[t].pc = "seal"
    /\ LET i == part[Uploaded(t)]
       IN  /\ i # 0 /\ Len(bytes[i]) = Size
           /\ ro' = ro \cup {i}
           /\ th' = [Touched(th, {i} \ ro) EXCEPT ![t].pc = "link"]
    /\ UNCHANGED <<meta, part, blob, synced, bytes, used, db, lane, crashes>>

\* The digest must match; the link is no-clobber, an existing blob is verified.
Link(t) ==
    /\ th[t].pc = "link"
    /\ LET u == Uploaded(t)
           fresh == blob[u[2]] = 0
       IN  /\ Content(part[u]) = u[2]
           /\ ~fresh => bytes[blob[u[2]]] = u[2]
           /\ blob' = [blob EXCEPT ![u[2]] = IF fresh THEN part[u] ELSE @]
           /\ th' = [Touched(th, IF fresh THEN {part[u]} ELSE {}) EXCEPT ![t].pc = "sync"]
    /\ UNCHANGED <<meta, part, synced, bytes, ro, used, db, lane, crashes>>

SyncBlob(t) ==
    /\ th[t].pc = "sync"
    /\ synced' = synced \cup th[t].refs
    /\ th' = [th EXCEPT ![t].pc = "pin"]
    /\ UNCHANGED <<meta, part, blob, bytes, ro, used, db, lane, crashes>>

\* verify_pinned: open, seal and hash every referenced blob.
Pin(t) ==
    /\ th[t].pc = "pin"
    /\ \A s \in th[t].refs : blob[s] # 0 /\ bytes[blob[s]] = s
    /\ ro' = ro \cup {blob[s] : s \in th[t].refs}
    /\ th' = [th EXCEPT ![t].pc = "decide", ![t].proof = {blob[s] : s \in th[t].refs}]
    /\ UNCHANGED <<meta, part, blob, synced, bytes, used, db, lane, crashes>>

Leave(t) == /\ lane' = None
            /\ th' = [th EXCEPT ![t] = Waiting]

\* A missing, incomplete, wrong or stale artifact ends the request.
Refuse(t) ==
    /\ \/ th[t].pc = "seal" /\ Len(Content(part[Uploaded(t)])) < Size
       \/ th[t].pc = "link" /\ Content(part[Uploaded(t)]) # Uploaded(t)[2]
       \/ th[t].pc = "pin" /\ \E s \in th[t].refs : blob[s] = 0
       \/ th[t].pc = "decide" /\ (th[t].a \notin current \/ ~th[t].valid
                                  \/ (~th[t].commit /\ ~({th[t].a} \X th[t].refs \subseteq rows)))
    /\ Leave(t)
    /\ UNCHANGED <<disk, db, crashes>>

\* Faulty: the second entry trusts the first authorization.
DecideStale(t) ==
    /\ th[t].pc = "decide"
    /\ th[t].valid
    /\ IF th[t].commit
       THEN rows' = rows \cup ({th[t].a} \X th[t].refs) /\ UNCHANGED result
       ELSE /\ {th[t].a} \X th[t].refs \subseteq rows
            /\ result' = [result EXCEPT ![th[t].a] = @ \cup th[t].refs]
            /\ UNCHANGED rows
    /\ Leave(t)
    /\ UNCHANGED <<disk, current, crashes>>

\* Second entry, under the mutex: current attempt, metadata and proof again.
Decide(t) ==
    /\ th[t].pc = "decide"
    /\ th[t].a \in current
    /\ th[t].valid
    /\ IF th[t].commit
       THEN /\ Uploaded(t) \in meta
            /\ rows' = rows \cup ({th[t].a} \X th[t].refs)
            /\ UNCHANGED result
       ELSE /\ {th[t].a} \X th[t].refs \subseteq rows
            /\ result' = [result EXCEPT ![th[t].a] = @ \cup th[t].refs]
            /\ UNCHANGED rows
    /\ Leave(t)
    /\ UNCHANGED <<disk, current, crashes>>

(***************************************************************************)
(* What happens meanwhile.                                                 *)
(***************************************************************************)
\* Fencing, retry or reassignment under the state mutex, lane or not.
Fence(a) ==
    /\ a \in current
    /\ current' = current \ {a}
    /\ UNCHANGED <<disk, rows, result, lane, th, crashes>>

\* Death and loss of power: names not synced may go, an append in progress may
\* leave a garbage byte, a begin or an abort may leave the metadata alone.
Crash ==
    /\ crashes < MaxCrash /\ crashes' = crashes + 1
    /\ lane' = None /\ th' = [t \in Thread |-> Waiting]
    /\ \E kept \in SUBSET (Sha \ synced) :
          blob' = [s \in Sha |-> IF s \in synced \cup kept THEN blob[s] ELSE 0]
    /\ \/ UNCHANGED <<meta, part, bytes>>
       \/ \E u \in meta : /\ part[u] # 0 /\ part' = [part EXCEPT ![u] = 0]
                          /\ UNCHANGED <<meta, bytes>>
       \/ \E u \in Upload : /\ u \notin meta /\ MayBegin /\ meta' = meta \cup {u}
                            /\ UNCHANGED <<part, bytes>>
       \/ \E u \in meta, b \in Byte :
             /\ part[u] # 0 /\ Len(bytes[part[u]]) < Size
             /\ bytes' = [bytes EXCEPT ![part[u]] = Append(@, b)]
             /\ UNCHANGED <<meta, part>>
    /\ UNCHANGED <<synced, ro, used, db>>

Init ==
    /\ meta = {} /\ part = [u \in Upload |-> 0] /\ blob = [s \in Sha |-> 0]
    /\ synced = {} /\ bytes = [i \in Inode |-> <<>>] /\ ro = {} /\ used = 0
    /\ rows = {} /\ result = [a \in Attempt |-> {}] /\ current = Attempt
    /\ lane = None /\ th = [t \in Thread |-> Waiting] /\ crashes = 0

Next ==
    \/ \E u \in Upload : \/ BeginUpload(u) \/ AbortUpload(u)
                         \/ \E b \in Byte : UploadChunk(u, b)
                         \/ \E t \in Thread : EnterCommit(t, u)
    \/ \E t \in Thread : \/ Seal(t) \/ Link(t) \/ SyncBlob(t) \/ Pin(t) \/ Refuse(t) \/ Decide(t)
                         \/ \E a \in Attempt, S \in (SUBSET Sha) \ {{}} : EnterAccept(t, a, S)
    \/ \E a \in Attempt : Fence(a)
    \/ Crash

Spec == Init /\ [][Next]_vars

(***************************************************************************)
(* Properties.                                                             *)
(***************************************************************************)
TypeOK ==
    /\ meta \subseteq Upload
    /\ part \in [Upload -> Inode \cup {0}] /\ blob \in [Sha -> Inode \cup {0}]
    /\ synced \subseteq Sha /\ ro \subseteq Inode /\ used \in Inode \cup {0}
    /\ bytes \in [Inode -> BoundedSeq(Byte, Size)]
    /\ rows \subseteq Upload /\ result \in [Attempt -> SUBSET Sha] /\ current \subseteq Attempt
    /\ lane \in Thread \cup {None}
    /\ \A t \in Thread : th[t].pc # "idle" => lane = t

(* A name under blobs/ holds exactly the content it names, read-only, also *)
(* after wrong bytes, garbage from a power loss and aborted uploads that   *)
(* share the inode (publish 248-282).                                      *)
StoredAsNamed ==
    \A s \in Sha : blob[s] # 0 => bytes[blob[s]] = s /\ blob[s] \in ro

(* What the database says is published, or part of an accepted result, is  *)
(* on disk under a durable name: no crash loses a referenced blob.         *)
RecordedIsStored ==
    /\ \A u \in rows : blob[u[2]] # 0 /\ u[2] \in synced
    /\ \A a \in Attempt : {a} \X result[a] \subseteq rows

(* A blob is never replaced: a second uploader of the same content and a   *)
(* resend meet the first one's inode (hard_link 268-277).                  *)
KeepsBlobs == \A s \in synced : blob[s] # 0 => blob'[s] = blob[s]

(* Publications are recorded and results accepted only for an attempt that *)
(* is current at that moment, though it was authorized before the hashing  *)
(* (dispatch 189-252).                                                     *)
RecordsCurrent ==
    /\ \A u \in rows' \ rows : u[1] \in current
    /\ \A a \in Attempt : result'[a] # result[a] => a \in current

(* The lane keeps every proof valid until the state mutex is taken again:  *)
(* no upload, abort or other commit touches a pinned inode.                *)
ProofsHold == \A t \in Thread : th[t].pc = "decide" => th[t].valid

(* The files never exceed what is accounted, and that never exceeds the    *)
(* quota, through shared content, aborts and crashes (begin 160-172).      *)
StoreWithinQuota == Physical =< Usage /\ Usage =< Quota
=============================================================================
