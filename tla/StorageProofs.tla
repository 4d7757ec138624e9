--------------------------- MODULE StorageProofs ----------------------------
(***************************************************************************)
(* What the runs of MCStorage show of the disk, for any processes,         *)
(* directories, allocations, attempts, contents and sizes: the theorems of *)
(* Namespace, OfflineUpgrade, OfflineBackup and Publication, at the        *)
(* instances that it explores side by side, and the proofs about its       *)
(* artifact store, whose constants are those of the module.                *)
(***************************************************************************)
EXTENDS MCStorage, Sequences, TLAPS

-----------------------------------------------------------------------------
(* The artifact store.                                                     *)
Progress == {"idle", "seal", "link", "sync", "pin", "decide"}
Connection ==
    [pc : Progress, a : Pair \cup {None}, refs : SUBSET Digests, commit : BOOLEAN,
     proof : SUBSET (Inodes \cup {0}), valid : BOOLEAN]
StoreTypes ==
    /\ meta \subseteq Store!Upload /\ part \in [Store!Upload -> Inodes \cup {0}]
    /\ blob \in [Digests -> Inodes \cup {0}] /\ bytes \in [Inodes -> Seq(Byte)]
    /\ synced \subseteq Digests /\ used \in Nat
    /\ rows \subseteq Store!Upload /\ result \in [Pair -> SUBSET Digests]
    /\ th \in [Pair -> Connection]

(* What a request has done so far, on the lane that it holds.              *)
ConnectionAt(t) ==
    /\ th[t].pc # "idle" => lane = t
    /\ th[t].valid = TRUE
    /\ th[t].pc # "decide" => th[t].proof = {}
    /\ th[t].pc \in {"seal", "link", "sync"} => th[t].commit
    /\ th[t].pc # "idle" => th[t].a \in Pair
    /\ th[t].pc # "idle" /\ th[t].commit => \E s \in Digests : th[t].refs = {s}
    /\ th[t].pc = "link" => part[Store!Uploaded(t)] \in ro
    /\ th[t].pc = "sync" => \A s \in th[t].refs : blob[s] # 0
    /\ th[t].pc \in {"pin", "decide"} /\ th[t].commit =>
           \A s \in th[t].refs : blob[s] # 0 /\ s \in synced

StoreInvariant ==
    /\ StoreTypes /\ Store!StoredAsNamed /\ Store!RecordedIsStored
    /\ \A t \in Pair : ConnectionAt(t)

LEMMA StoreFacts ==
    ASSUME StoreInvariant
    PROVE  /\ StoreTypes /\ Store!StoredAsNamed /\ Store!RecordedIsStored
           /\ \A t \in Pair : ConnectionAt(t)
           /\ None \notin Pair /\ Length \in Nat \ {0}
           /\ \A s \in Digests : s \in Seq(Byte) /\ Len(s) = Length
<1>1. Length \in Nat \ {0} /\ Digests \subseteq [1..Length -> Byte] /\ None \notin Pair
  BY StoreAssumption DEF Store!StoreConstants
<1>2. \A s \in [1..Length -> Byte] : s \in Seq(Byte) /\ Len(s) = Length
  BY <1>1
<1> QED
  BY <1>1, <1>2 DEF StoreInvariant

\* No proof is held while a file is touched.
LEMMA NothingTouched ==
    ASSUME StoreInvariant, NEW S, \A t \in Pair : th[t].pc # "decide"
    PROVE  Store!Touched(th, S) = th
<1>1. \A t \in Pair : th[t] \in Connection /\ th[t].valid = TRUE /\ th[t].proof = {}
  BY StoreFacts DEF StoreTypes, ConnectionAt
<1>2. \A t \in Pair : [th[t] EXCEPT !.valid = @ /\ th[t].proof \cap S = {}] = th[t]
  <2> SUFFICES ASSUME NEW t \in Pair
               PROVE  [th[t] EXCEPT !.valid = @ /\ th[t].proof \cap S = {}] = th[t]
    OBVIOUS
  <2>1. (th[t].valid /\ th[t].proof \cap S = {}) = TRUE
    BY <1>1
  <2>2. [th[t] EXCEPT !.valid = TRUE] = th[t]
    BY <1>1 DEF Connection
  <2> QED
    BY <2>1, <2>2
<1>3. th = [t \in Pair |-> th[t]]
  BY StoreFacts DEF StoreTypes
<1> QED
  BY <1>2, <1>3 DEF Store!Touched

\* On a free lane every connection is idle, on a busy one all others.
LEMMA LaneOrder ==
    ASSUME StoreInvariant
    PROVE  /\ lane = None => \A t \in Pair : th[t].pc = "idle"
           /\ \A t \in Pair : th[t].pc # "idle" =>
                  \A x \in Pair \ {t} : th[x].pc = "idle"
BY StoreFacts DEF ConnectionAt

LEMMA WaitingConnection ==
    /\ Store!Waiting \in Connection /\ Store!Waiting.pc = "idle"
    /\ Store!Waiting.valid = TRUE /\ Store!Waiting.proof = {}
BY DEF Store!Waiting, Connection, Progress

\* The files of a digest stay: rows and connections rest on blobs that do.
LEMMA BlobsRest ==
    ASSUME StoreInvariant, StoreTypes', blob' = blob, ro \subseteq ro',
           \A s \in Digests : blob[s] # 0 => bytes'[blob[s]] = bytes[blob[s]],
           synced \subseteq synced', rows' = rows, result' = result
    PROVE  Store!StoredAsNamed' /\ Store!RecordedIsStored'
BY StoreFacts DEF Store!StoredAsNamed, Store!RecordedIsStored

LEMMA ConnectionsRest ==
    ASSUME StoreInvariant, th' = th, lane' = lane, blob' = blob, synced \subseteq synced',
           \A t \in Pair : th[t].pc = "link" =>
               part'[Store!Uploaded(t)] = part[Store!Uploaded(t)] /\ ro \subseteq ro'
    PROVE  \A t \in Pair : ConnectionAt(t)'
<1> SUFFICES ASSUME NEW t \in Pair PROVE ConnectionAt(t)'
  OBVIOUS
<1>1. ConnectionAt(t) /\ Store!Uploaded(t)' = Store!Uploaded(t)
  BY StoreFacts DEF Store!Uploaded
<1>2. th'[t].pc = "link" => part'[Store!Uploaded(t)'] \in ro'
  BY <1>1 DEF ConnectionAt
<1> QED
  BY <1>1, <1>2 DEF ConnectionAt

-----------------------------------------------------------------------------
\* Requests on a free lane.
LEMMA UploadsKeepStore ==
    ASSUME StoreInvariant, NEW u \in Store!Upload,
           \/ Store!BeginUpload(u) \/ Store!AbortUpload(u)
           \/ \E b \in Byte : Store!UploadChunk(u, b)
    PROVE  StoreInvariant'
<1>1. lane = None /\ UNCHANGED <<blob, synced, ro, rows, result, lane>>
  BY DEF Store!BeginUpload, Store!AbortUpload, Store!UploadChunk, Store!Handled, Store!db
<1>2. \A t \in Pair : th[t].pc = "idle"
  BY <1>1, LaneOrder
<1>3. \A S : Store!Touched(th, S) = th
  BY <1>2, NothingTouched
<1>4. th' = th
  BY <1>3 DEF Store!BeginUpload, Store!AbortUpload, Store!UploadChunk
<1>5. StoreTypes' /\ \A s \in Digests : blob[s] # 0 => bytes'[blob[s]] = bytes[blob[s]]
  <2>1. CASE Store!BeginUpload(u)
    <3>1. used + 1 \in Inodes
      BY <2>1, StoreFacts, StoreAssumption
         DEF Store!BeginUpload, Store!StoreConstants, StoreTypes
    <3> QED
      BY <2>1, <3>1, <1>1, <1>4, StoreFacts DEF Store!BeginUpload, StoreTypes
  <2>2. CASE Store!AbortUpload(u)
    BY <2>2, <1>1, <1>4, StoreFacts DEF Store!AbortUpload, StoreTypes
  <2>3. ASSUME NEW b \in Byte, Store!UploadChunk(u, b)
        PROVE  StoreTypes' /\ \A s \in Digests : blob[s] # 0 => bytes'[blob[s]] = bytes[blob[s]]
    <3>1. part[u] \in Inodes /\ Len(bytes[part[u]]) < Length /\ bytes[part[u]] \in Seq(Byte)
      BY <2>3, StoreFacts DEF Store!UploadChunk, StoreTypes
    <3>2. bytes' = [bytes EXCEPT ![part[u]] = Append(bytes[part[u]], b)]
      BY <2>3 DEF Store!UploadChunk
    <3>3. \A s \in Digests : blob[s] # 0 => blob[s] # part[u]
      BY <3>1, StoreFacts DEF Store!StoredAsNamed
    <3>4. bytes' \in [Inodes -> Seq(Byte)]
      BY <3>1, <3>2, StoreFacts DEF StoreTypes
    <3>5. \A s \in Digests : blob[s] # 0 => bytes'[blob[s]] = bytes[blob[s]]
      BY <3>2, <3>3, StoreFacts DEF StoreTypes
    <3> QED
      BY <2>3, <3>4, <3>5, <1>1, <1>4, StoreFacts DEF Store!UploadChunk, StoreTypes, Store!db
  <2> QED
    BY <2>1, <2>2, <2>3
<1>6. Store!StoredAsNamed' /\ Store!RecordedIsStored'
  BY <1>1, <1>5, BlobsRest
<1>7. \A t \in Pair : ConnectionAt(t)'
  BY <1>1, <1>2, <1>4, ConnectionsRest
<1> QED
  BY <1>5, <1>6, <1>7 DEF StoreInvariant

\* A request takes the free lane.
Enters(t, c) ==
    /\ lane = None /\ lane' = t /\ th' = [th EXCEPT ![t] = c]
    /\ c.pc \in {"seal", "pin"} /\ c.commit = (c.pc = "seal") /\ c.a \in Pair
    /\ c.proof = {} /\ c.valid = TRUE
    /\ c.commit => \E s \in Digests : c.refs = {s}

LEMMA EntersKeepStore ==
    ASSUME StoreInvariant, NEW t \in Pair,
           \/ \E u \in Store!Upload : Store!EnterCommit(t, u)
           \/ \E a \in Pair, S \in (SUBSET Digests) \ {{}} : Store!EnterAccept(t, a, S)
    PROVE  StoreInvariant'
<1>1. UNCHANGED <<meta, part, blob, synced, bytes, ro, used, rows, result>>
  BY DEF Store!EnterCommit, Store!EnterAccept, Store!disk, Store!db
<1>2. PICK c \in Connection : Enters(t, c)
  <2>1. ASSUME NEW u \in Store!Upload, Store!EnterCommit(t, u)
        PROVE  \E c \in Connection : Enters(t, c)
    <3> DEFINE c == [Store!Waiting EXCEPT !.pc = "seal", !.a = u[1], !.refs = {u[2]},
                                          !.commit = TRUE]
    <3>1. u[1] \in Pair /\ u[2] \in Digests
      BY DEF Store!Upload
    <3>2. c \in Connection
      BY <3>1 DEF Store!Waiting, Connection, Progress
    <3>3. /\ c.pc = "seal" /\ c.a = u[1] /\ c.refs = {u[2]} /\ c.commit = TRUE
          /\ c.proof = {} /\ c.valid = TRUE
      BY DEF Store!Waiting
    <3>4. lane = None /\ lane' = t /\ th' = [th EXCEPT ![t] = c]
      BY <2>1 DEF Store!EnterCommit
    <3> QED
      BY <3>1, <3>2, <3>3, <3>4 DEF Enters
  <2>2. ASSUME NEW a \in Pair, NEW S \in SUBSET Digests, Store!EnterAccept(t, a, S)
        PROVE  \E c \in Connection : Enters(t, c)
    <3> DEFINE c == [Store!Waiting EXCEPT !.pc = "pin", !.a = a, !.refs = S]
    <3>1. c \in Connection
      BY DEF Store!Waiting, Connection, Progress
    <3>2. /\ c.pc = "pin" /\ c.a = a /\ c.commit = FALSE /\ c.proof = {} /\ c.valid = TRUE
      BY DEF Store!Waiting
    <3>3. lane = None /\ lane' = t /\ th' = [th EXCEPT ![t] = c]
      BY <2>2 DEF Store!EnterAccept
    <3> QED
      BY <3>1, <3>2, <3>3 DEF Enters
  <2> QED
    BY <2>1, <2>2
<1>3. StoreTypes'
  BY <1>1, <1>2, StoreFacts DEF StoreTypes, Enters
<1>4. Store!StoredAsNamed' /\ Store!RecordedIsStored'
  BY <1>1, <1>3, BlobsRest
<1>5. ASSUME NEW x \in Pair PROVE ConnectionAt(x)'
  <2>1. CASE x = t
    <3>1. th'[t] = c
      BY <1>2, StoreFacts DEF StoreTypes, Enters
    <3> QED
      BY <2>1, <3>1, <1>2 DEF ConnectionAt, Enters
  <2>2. CASE x # t
    <3>1. th'[x] = th[x] /\ th[x].pc = "idle" /\ ConnectionAt(x)
      BY <2>2, <1>2, LaneOrder, StoreFacts DEF StoreTypes, Enters
    <3> QED
      BY <3>1 DEF ConnectionAt
  <2> QED
    BY <2>1, <2>2
<1> QED
  BY <1>3, <1>4, <1>5 DEF StoreInvariant

-----------------------------------------------------------------------------
\* The request on the lane goes on; all others are idle.
LEMMA OthersIdle ==
    ASSUME StoreInvariant, NEW t \in Pair, th[t].pc # "idle",
           \A x \in Pair \ {t} : th'[x] = th[x], ConnectionAt(t)'
    PROVE  \A x \in Pair : ConnectionAt(x)'
<1> SUFFICES ASSUME NEW x \in Pair, x # t PROVE ConnectionAt(x)'
  OBVIOUS
<1>1. th'[x] = th[x] /\ th[x].pc = "idle" /\ ConnectionAt(x)
  BY LaneOrder, StoreFacts
<1> QED
  BY <1>1 DEF ConnectionAt

\* What a step of a connection on the lane makes of it.
LEMMA Goes ==
    ASSUME StoreInvariant, NEW t \in Pair, NEW c \in Connection, th' = [th EXCEPT ![t] = c]
    PROVE  /\ th' \in [Pair -> Connection] /\ th'[t] = c
           /\ \A x \in Pair \ {t} : th'[x] = th[x]
BY StoreFacts DEF StoreTypes

\* A new step of the request, with the rest of it as before.
LEMMA NextStep ==
    ASSUME StoreInvariant, NEW t \in Pair, NEW p \in Progress,
           th' = [th EXCEPT ![t].pc = p]
    PROVE  /\ th' \in [Pair -> Connection] /\ \A x \in Pair \ {t} : th'[x] = th[x]
           /\ th'[t].pc = p /\ th'[t].a = th[t].a /\ th'[t].refs = th[t].refs
           /\ th'[t].commit = th[t].commit /\ th'[t].proof = th[t].proof
           /\ th'[t].valid = th[t].valid
           /\ Store!Uploaded(t)' = Store!Uploaded(t)
<1>1. th[t] \in Connection
  BY StoreFacts DEF StoreTypes
<1>2. [th[t] EXCEPT !.pc = p] \in Connection
  BY <1>1 DEF Connection
<1>3. th' \in [Pair -> Connection] /\ th'[t] = [th[t] EXCEPT !.pc = p]
      /\ \A x \in Pair \ {t} : th'[x] = th[x]
  BY <1>2, StoreFacts DEF StoreTypes
<1>4. /\ th'[t].pc = p /\ th'[t].a = th[t].a /\ th'[t].refs = th[t].refs
      /\ th'[t].commit = th[t].commit /\ th'[t].proof = th[t].proof
      /\ th'[t].valid = th[t].valid
  BY <1>1, <1>3 DEF Connection
<1> QED
  BY <1>3, <1>4 DEF Store!Uploaded

\* The upload that a commit is about.
LEMMA UploadOf ==
    ASSUME StoreInvariant, NEW t \in Pair, th[t].pc # "idle", th[t].commit
    PROVE  /\ Store!Uploaded(t) \in Store!Upload
           /\ th[t].refs = {Store!Uploaded(t)[2]} /\ th[t].a = Store!Uploaded(t)[1]
<1>1. PICK s \in Digests : th[t].refs = {s}
  BY StoreFacts DEF ConnectionAt
<1>2. (CHOOSE x \in th[t].refs : TRUE) = s
  BY <1>1
<1>3. Store!Uploaded(t) = <<th[t].a, s>> /\ th[t].a \in Pair
  BY <1>2, StoreFacts DEF Store!Uploaded, ConnectionAt
<1> QED
  BY <1>1, <1>3 DEF Store!Upload

LEMMA SealKeepsStore ==
    ASSUME StoreInvariant, NEW t \in Pair, Store!Seal(t)
    PROVE  StoreInvariant'
<1> DEFINE i == part[Store!Uploaded(t)]
<1>1. /\ th[t].pc = "seal" /\ i # 0 /\ ro' = ro \cup {i}
      /\ th' = [Store!Touched(th, {i} \ ro) EXCEPT ![t].pc = "link"]
      /\ UNCHANGED <<meta, part, blob, synced, bytes, used, rows, result, lane>>
  BY DEF Store!Seal, Store!db
<1>2. ConnectionAt(t) /\ \A x \in Pair : th[x].pc # "decide"
  BY <1>1, LaneOrder, StoreFacts
<1>3. th' = [th EXCEPT ![t].pc = "link"]
  BY <1>1, <1>2, NothingTouched
<1> HIDE DEF i
<1>4. /\ th' \in [Pair -> Connection] /\ \A x \in Pair \ {t} : th'[x] = th[x]
      /\ th'[t].pc = "link" /\ th'[t].a = th[t].a /\ th'[t].refs = th[t].refs
      /\ th'[t].commit = th[t].commit /\ th'[t].proof = th[t].proof
      /\ th'[t].valid = th[t].valid /\ Store!Uploaded(t)' = Store!Uploaded(t)
  BY <1>3, NextStep DEF Progress
<1>5. StoreTypes'
  BY <1>1, <1>4, StoreFacts DEF StoreTypes
<1>6. Store!StoredAsNamed' /\ Store!RecordedIsStored'
  BY <1>1, <1>5, BlobsRest
<1>7. part'[Store!Uploaded(t)'] \in ro'
  BY <1>1, <1>4 DEF i
<1>8. ConnectionAt(t)'
  BY <1>1, <1>2, <1>4, <1>7 DEF ConnectionAt
<1> QED
  BY <1>1, <1>4, <1>5, <1>6, <1>8, OthersIdle DEF StoreInvariant

LEMMA LinkKeepsStore ==
    ASSUME StoreInvariant, NEW t \in Pair, Store!Link(t)
    PROVE  StoreInvariant'
<1> DEFINE u == Store!Uploaded(t)
           i == IF blob[u[2]] = 0 THEN part[u] ELSE blob[u[2]]
<1>1. /\ th[t].pc = "link" /\ Store!Content(part[u]) = u[2]
      /\ blob' = [blob EXCEPT ![u[2]] = i]
      /\ \E S : th' = [Store!Touched(th, S) EXCEPT ![t].pc = "sync"]
      /\ UNCHANGED <<meta, part, synced, bytes, ro, used, rows, result, lane>>
  BY DEF Store!Link, Store!db
<1>2. ConnectionAt(t) /\ \A x \in Pair : th[x].pc # "decide"
  BY <1>1, LaneOrder, StoreFacts
<1>3. th' = [th EXCEPT ![t].pc = "sync"]
  BY <1>1, <1>2, NothingTouched
<1>4. /\ th' \in [Pair -> Connection] /\ \A x \in Pair \ {t} : th'[x] = th[x]
      /\ th'[t].pc = "sync" /\ th'[t].a = th[t].a /\ th'[t].refs = th[t].refs
      /\ th'[t].commit = th[t].commit /\ th'[t].proof = th[t].proof
      /\ th'[t].valid = th[t].valid
  BY <1>3, NextStep DEF Progress
<1>5. u \in Store!Upload /\ u[2] \in Digests /\ th[t].refs = {u[2]}
  BY <1>1, <1>2, UploadOf DEF ConnectionAt, Store!Upload
<1>6. part[u] \in ro
  BY <1>1, <1>2 DEF ConnectionAt
<1> HIDE DEF u
<1>7. /\ part[u] \in Inodes \cup {0} /\ part[u] # 0 /\ bytes[part[u]] = u[2]
  <2>1. Len(u[2]) # 0 /\ Len(<<>>) = 0
    BY <1>5, StoreFacts
  <2>2. u[2] # <<>>
    BY <2>1
  <2> QED
    BY <1>1, <1>5, <2>2, StoreFacts DEF Store!Content, StoreTypes
<1>8. i \in Inodes /\ i # 0 /\ bytes[i] = u[2] /\ i \in ro
  <2>1. blob[u[2]] # 0 => bytes[blob[u[2]]] = u[2] /\ blob[u[2]] \in ro
    BY <1>5, StoreFacts DEF Store!StoredAsNamed
  <2>2. blob[u[2]] \in Inodes \cup {0} /\ 0 \notin Inodes
    BY <1>5, StoreFacts, StoreAssumption DEF StoreTypes, Store!StoreConstants
  <2> QED
    BY <1>6, <1>7, <2>1, <2>2
<1> HIDE DEF i
<1>9. StoreTypes' /\ \A s \in Digests : blob'[s] = IF s = u[2] THEN i ELSE blob[s]
  BY <1>1, <1>4, <1>5, <1>8, StoreFacts DEF StoreTypes
<1>10. Store!StoredAsNamed' /\ Store!RecordedIsStored'
  BY <1>1, <1>8, <1>9, StoreFacts DEF Store!StoredAsNamed, Store!RecordedIsStored
<1>11. ConnectionAt(t)'
  BY <1>1, <1>2, <1>4, <1>5, <1>8, <1>9 DEF ConnectionAt
<1> QED
  BY <1>1, <1>4, <1>9, <1>10, <1>11, OthersIdle DEF StoreInvariant

LEMMA SyncKeepsStore ==
    ASSUME StoreInvariant, NEW t \in Pair, Store!SyncBlob(t)
    PROVE  StoreInvariant'
<1>1. /\ th[t].pc = "sync" /\ synced' = synced \cup th[t].refs
      /\ th' = [th EXCEPT ![t].pc = "pin"]
      /\ UNCHANGED <<meta, part, blob, bytes, ro, used, rows, result, lane>>
  BY DEF Store!SyncBlob, Store!db
<1>2. ConnectionAt(t) /\ th[t].refs \subseteq Digests
  BY StoreFacts DEF StoreTypes, Connection
<1>3. /\ th' \in [Pair -> Connection] /\ \A x \in Pair \ {t} : th'[x] = th[x]
      /\ th'[t].pc = "pin" /\ th'[t].a = th[t].a /\ th'[t].refs = th[t].refs
      /\ th'[t].commit = th[t].commit /\ th'[t].proof = th[t].proof
      /\ th'[t].valid = th[t].valid
  BY <1>1, NextStep DEF Progress
<1>4. StoreTypes'
  BY <1>1, <1>2, <1>3, StoreFacts DEF StoreTypes
<1>5. Store!StoredAsNamed' /\ Store!RecordedIsStored'
  BY <1>1, <1>4, BlobsRest
<1>6. ConnectionAt(t)'
  BY <1>1, <1>2, <1>3 DEF ConnectionAt
<1> QED
  BY <1>1, <1>3, <1>4, <1>5, <1>6, OthersIdle DEF StoreInvariant

LEMMA PinKeepsStore ==
    ASSUME StoreInvariant, NEW t \in Pair, Store!Pin(t)
    PROVE  StoreInvariant'
<1> DEFINE pinned == {blob[s] : s \in th[t].refs}
           c == [th[t] EXCEPT !.pc = "decide", !.proof = pinned]
<1>1. /\ th[t].pc = "pin" /\ ro' = ro \cup pinned /\ th' = [th EXCEPT ![t] = c]
      /\ UNCHANGED <<meta, part, blob, synced, bytes, used, rows, result, lane>>
  BY DEF Store!Pin, Store!db
<1>2. ConnectionAt(t) /\ th[t] \in Connection /\ th[t].refs \subseteq Digests
  BY StoreFacts DEF StoreTypes, Connection
<1>3. pinned \subseteq Inodes \cup {0}
  BY <1>2, StoreFacts DEF StoreTypes
<1> HIDE DEF pinned
<1>4. c \in Connection /\ c.pc = "decide" /\ c.a = th[t].a /\ c.refs = th[t].refs
      /\ c.commit = th[t].commit /\ c.valid = th[t].valid
  BY <1>2, <1>3 DEF Connection, Progress
<1> HIDE DEF c
<1>5. th' \in [Pair -> Connection] /\ th'[t] = c /\ \A x \in Pair \ {t} : th'[x] = th[x]
  BY <1>1, <1>4, Goes
<1>6. StoreTypes'
  BY <1>1, <1>5, StoreFacts DEF StoreTypes
<1>7. Store!StoredAsNamed' /\ Store!RecordedIsStored'
  BY <1>1, <1>6, BlobsRest
<1>8. ConnectionAt(t)'
  BY <1>1, <1>2, <1>4, <1>5 DEF ConnectionAt
<1> QED
  BY <1>1, <1>5, <1>6, <1>7, <1>8, OthersIdle DEF StoreInvariant

\* A request ends, refused or recorded.
LEMMA LeaveKeepsStore ==
    ASSUME StoreInvariant, NEW t \in Pair, Store!Leave(t), th[t].pc # "idle",
           UNCHANGED <<meta, part, blob, synced, bytes, ro, used>>,
           rows' \subseteq Store!Upload, result' \in [Pair -> SUBSET Digests],
           Store!RecordedIsStored'
    PROVE  StoreInvariant'
<1>1. lane' = None /\ th' = [th EXCEPT ![t] = Store!Waiting]
  BY DEF Store!Leave
<1>2. /\ th' \in [Pair -> Connection] /\ th'[t] = Store!Waiting
      /\ \A x \in Pair \ {t} : th'[x] = th[x]
  BY <1>1, WaitingConnection, Goes
<1>3. StoreTypes'
  BY <1>2, StoreFacts DEF StoreTypes
<1>4. Store!StoredAsNamed'
  BY StoreFacts DEF Store!StoredAsNamed
<1>5. ConnectionAt(t)'
  BY <1>2, WaitingConnection DEF ConnectionAt
<1> QED
  BY <1>2, <1>3, <1>4, <1>5, OthersIdle DEF StoreInvariant

LEMMA RefuseKeepsStore ==
    ASSUME StoreInvariant, NEW t \in Pair, Store!Refuse(t)
    PROVE  StoreInvariant'
<1>1. /\ Store!Leave(t) /\ th[t].pc # "idle"
      /\ UNCHANGED <<meta, part, blob, synced, bytes, ro, used, rows, result>>
  BY DEF Store!Refuse, Store!disk, Store!db
<1>2. Store!RecordedIsStored'
  BY <1>1, StoreFacts DEF Store!RecordedIsStored
<1>3. rows' \subseteq Store!Upload /\ result' \in [Pair -> SUBSET Digests]
  BY <1>1, StoreFacts DEF StoreTypes
<1> QED
  BY <1>1, <1>2, <1>3, LeaveKeepsStore

LEMMA DecideKeepsStore ==
    ASSUME StoreInvariant, NEW t \in Pair, Store!Decide(t)
    PROVE  StoreInvariant'
<1> DEFINE new == {th[t].a} \X th[t].refs
<1>1. /\ th[t].pc = "decide" /\ Store!Leave(t)
      /\ UNCHANGED <<meta, part, blob, synced, bytes, ro, used>>
  BY DEF Store!Decide, Store!disk
<1>2. \/ /\ th[t].commit /\ rows' = rows \cup new /\ result' = result
      \/ /\ new \subseteq rows /\ rows' = rows
         /\ result' = [result EXCEPT ![th[t].a] = @ \cup th[t].refs]
  BY DEF Store!Decide
<1>3. ConnectionAt(t) /\ th[t].a \in Pair /\ th[t].refs \subseteq Digests
  BY <1>1, StoreFacts DEF ConnectionAt, StoreTypes, Connection
<1>4. new \subseteq Store!Upload /\ \A u \in new : u[2] \in th[t].refs
  BY <1>3 DEF Store!Upload
<1>5. /\ rows' \subseteq Store!Upload /\ result' \in [Pair -> SUBSET Digests]
      /\ Store!RecordedIsStored'
  <2>1. CASE th[t].commit /\ rows' = rows \cup new /\ result' = result
    <3>1. \A u \in new : blob[u[2]] # 0 /\ u[2] \in synced
      BY <1>1, <1>3, <1>4, <2>1 DEF ConnectionAt
    <3>2. /\ \A u \in rows' : blob'[u[2]] # 0 /\ u[2] \in synced'
          /\ \A a \in Pair : {a} \X result'[a] \subseteq rows'
      BY <1>1, <2>1, <3>1, StoreFacts DEF Store!RecordedIsStored
    <3> QED
      BY <1>4, <2>1, <3>2, StoreFacts DEF Store!RecordedIsStored, StoreTypes
  <2>2. CASE /\ new \subseteq rows /\ rows' = rows
             /\ result' = [result EXCEPT ![th[t].a] = @ \cup th[t].refs]
    <3>1. result' \in [Pair -> SUBSET Digests]
      BY <1>3, <2>2, StoreFacts DEF StoreTypes
    <3>2. ASSUME NEW a \in Pair PROVE {a} \X result'[a] \subseteq rows
      <4>1. {a} \X result[a] \subseteq rows
        BY StoreFacts DEF Store!RecordedIsStored
      <4>2. CASE a = th[t].a
        <5>1. result'[a] = result[a] \cup th[t].refs
          BY <2>2, <4>2, StoreFacts DEF StoreTypes
        <5> QED
          BY <2>2, <4>1, <4>2, <5>1
      <4>3. CASE a # th[t].a
        BY <2>2, <4>1, <4>3, StoreFacts DEF StoreTypes
      <4> QED
        BY <4>2, <4>3
    <3> QED
      BY <1>1, <2>2, <3>1, <3>2, StoreFacts DEF Store!RecordedIsStored, StoreTypes
  <2> QED
    BY <1>2, <2>1, <2>2
<1> QED
  BY <1>1, <1>5, LeaveKeepsStore

LEMMA FenceKeepsStore ==
    ASSUME StoreInvariant, NEW a \in Pair, Store!Fence(a)
    PROVE  StoreInvariant'
<1>1. UNCHANGED <<meta, part, blob, synced, bytes, ro, used, rows, result, lane, th>>
  BY DEF Store!Fence, Store!disk
<1>2. StoreTypes'
  BY <1>1, StoreFacts DEF StoreTypes
<1>3. Store!StoredAsNamed' /\ Store!RecordedIsStored'
  BY <1>1, <1>2, BlobsRest
<1>4. \A t \in Pair : ConnectionAt(t)'
  BY <1>1, ConnectionsRest
<1> QED
  BY <1>2, <1>3, <1>4 DEF StoreInvariant

\* Only names that nobody relies on may go, and no blob has room for a byte.
LEMMA CrashKeepsStore ==
    ASSUME StoreInvariant, Store!Crash
    PROVE  StoreInvariant'
<1>1. /\ lane' = None /\ th' = [t \in Pair |-> Store!Waiting]
      /\ UNCHANGED <<synced, ro, used, rows, result>>
  BY DEF Store!Crash, Store!db
<1>2. PICK kept \in SUBSET (Digests \ synced) :
         blob' = [s \in Digests |-> IF s \in synced \cup kept THEN blob[s] ELSE 0]
  BY DEF Store!Crash
<1> DEFINE Kept == /\ meta' \subseteq Store!Upload /\ part' \in [Store!Upload -> Inodes \cup {0}]
                   /\ bytes' \in [Inodes -> Seq(Byte)]
                   /\ \A s \in Digests : blob[s] # 0 => bytes'[blob[s]] = bytes[blob[s]]
<1>3. Kept
  <2>1. CASE UNCHANGED <<meta, part, bytes>>
    BY <2>1, StoreFacts DEF StoreTypes
  <2>2. ASSUME NEW u \in meta, part' = [part EXCEPT ![u] = 0], UNCHANGED <<meta, bytes>>
        PROVE  Kept
    BY <2>2, StoreFacts DEF StoreTypes
  <2>3. ASSUME NEW u \in Store!Upload, meta' = meta \cup {u}, UNCHANGED <<part, bytes>>
        PROVE  Kept
    BY <2>3, StoreFacts DEF StoreTypes
  <2>4. ASSUME NEW u \in meta, NEW b \in Byte, part[u] # 0, Len(bytes[part[u]]) < Length,
               bytes' = [bytes EXCEPT ![part[u]] = Append(@, b)], UNCHANGED <<meta, part>>
        PROVE  Kept
    <3>1. part[u] \in Inodes /\ bytes[part[u]] \in Seq(Byte)
      BY <2>4, StoreFacts DEF StoreTypes
    <3>2. \A s \in Digests : blob[s] # 0 => blob[s] # part[u]
      BY <2>4, StoreFacts DEF Store!StoredAsNamed
    <3>3. bytes' \in [Inodes -> Seq(Byte)]
      BY <2>4, <3>1, StoreFacts DEF StoreTypes
    <3>4. \A s \in Digests : blob[s] # 0 => bytes'[blob[s]] = bytes[blob[s]]
      BY <2>4, <3>2, StoreFacts DEF StoreTypes
    <3> QED
      BY <2>4, <3>3, <3>4, StoreFacts DEF StoreTypes
  <2> QED
    BY <2>1, <2>2, <2>3, <2>4 DEF Store!Crash
<1>4. th' \in [Pair -> Connection] /\ \A t \in Pair : th'[t] = Store!Waiting
  BY <1>1, WaitingConnection
<1>5. /\ blob' \in [Digests -> Inodes \cup {0}]
      /\ \A s \in Digests : blob'[s] \in {0, blob[s]} /\ (s \in synced => blob'[s] = blob[s])
  BY <1>2, StoreFacts DEF StoreTypes
<1>6. StoreTypes'
  BY <1>1, <1>3, <1>4, <1>5, StoreFacts DEF StoreTypes
<1>7. Store!StoredAsNamed'
  BY <1>1, <1>3, <1>5, StoreFacts DEF Store!StoredAsNamed
<1>8. Store!RecordedIsStored'
  BY <1>1, <1>5, StoreFacts DEF Store!RecordedIsStored, StoreTypes
<1>9. \A t \in Pair : ConnectionAt(t)'
  BY <1>4, WaitingConnection DEF ConnectionAt
<1> QED
  BY <1>6, <1>7, <1>8, <1>9 DEF StoreInvariant

LEMMA StoreStarts ==
    ASSUME Store!Init
    PROVE  StoreInvariant
<1>1. <<>> \in Seq(Byte)
  OBVIOUS
<1>2. StoreTypes
  BY <1>1, WaitingConnection DEF Store!Init, StoreTypes
<1>3. Store!StoredAsNamed /\ Store!RecordedIsStored
  BY DEF Store!Init, Store!StoredAsNamed, Store!RecordedIsStored
<1>4. ASSUME NEW t \in Pair PROVE ConnectionAt(t)
  <2>1. th[t] = Store!Waiting
    BY DEF Store!Init
  <2> QED
    BY <2>1, WaitingConnection DEF ConnectionAt
<1> QED
  BY <1>2, <1>3, <1>4 DEF StoreInvariant

LEMMA StoreSteps ==
    ASSUME StoreInvariant, [Store!Next]_(Store!vars)
    PROVE  StoreInvariant'
<1>1. CASE \E u \in Store!Upload :
              \/ Store!BeginUpload(u) \/ Store!AbortUpload(u)
              \/ \E b \in Byte : Store!UploadChunk(u, b)
  BY <1>1, UploadsKeepStore
<1>2. CASE \E t \in Pair :
              \/ \E u \in Store!Upload : Store!EnterCommit(t, u)
              \/ \E a \in Pair, S \in (SUBSET Digests) \ {{}} : Store!EnterAccept(t, a, S)
  BY <1>2, EntersKeepStore
<1>3. CASE \E t \in Pair : Store!Seal(t) \/ Store!Link(t) \/ Store!SyncBlob(t)
  BY <1>3, SealKeepsStore, LinkKeepsStore, SyncKeepsStore
<1>4. CASE \E t \in Pair : Store!Pin(t) \/ Store!Refuse(t) \/ Store!Decide(t)
  BY <1>4, PinKeepsStore, RefuseKeepsStore, DecideKeepsStore
<1>5. CASE (\E a \in Pair : Store!Fence(a)) \/ Store!Crash
  BY <1>5, FenceKeepsStore, CrashKeepsStore
<1>6. CASE UNCHANGED Store!vars
  <2>1. /\ UNCHANGED <<meta, part, blob, synced, bytes, ro, used, rows, result>>
        /\ lane' = lane /\ th' = th
    BY <1>6 DEF Store!vars, Store!disk, Store!db
  <2>2. StoreTypes'
    BY <2>1, StoreFacts DEF StoreTypes
  <2> QED
    BY <2>1, <2>2, BlobsRest, ConnectionsRest DEF StoreInvariant
<1> QED
  BY <1>1, <1>2, <1>3, <1>4, <1>5, <1>6 DEF Store!Next

\* A proof made outside of the mutex is still good when it is used.
LEMMA StoreHolds ==
    ASSUME StoreInvariant
    PROVE  Store!StoredAsNamed /\ Store!RecordedIsStored /\ Store!ProofsHold
BY StoreFacts DEF Store!ProofsHold, ConnectionAt

LEMMA BlobsStay ==
    ASSUME StoreInvariant, Store!Next
    PROVE  Store!KeepsBlobs
<1>1. CASE blob' = blob
  BY <1>1 DEF Store!KeepsBlobs
<1>2. ASSUME NEW t \in Pair, Store!Link(t) PROVE Store!KeepsBlobs
  <2>1. \A s \in Digests : blob[s] # 0 => blob'[s] = blob[s]
    BY <1>2, StoreFacts DEF Store!Link, StoreTypes
  <2> QED
    BY <2>1, StoreFacts DEF Store!KeepsBlobs, StoreTypes
<1>3. CASE Store!Crash
  BY <1>3, StoreFacts DEF Store!Crash, Store!KeepsBlobs, StoreTypes
<1> QED
  BY <1>1, <1>2, <1>3 DEF Store!Next, Store!BeginUpload, Store!AbortUpload, Store!UploadChunk,
     Store!EnterCommit, Store!EnterAccept, Store!Seal, Store!SyncBlob, Store!Pin, Store!Refuse,
     Store!Decide, Store!Fence, Store!disk

LEMMA OnlyCurrent ==
    ASSUME StoreInvariant, Store!Next
    PROVE  Store!RecordsCurrent
<1>1. CASE rows' = rows /\ result' = result
  BY <1>1 DEF Store!RecordsCurrent
<1>2. ASSUME NEW t \in Pair, Store!Decide(t) PROVE Store!RecordsCurrent
  BY <1>2, StoreFacts DEF Store!Decide, Store!RecordsCurrent, StoreTypes
<1> QED
  BY <1>1, <1>2 DEF Store!Next, Store!BeginUpload, Store!AbortUpload, Store!UploadChunk,
     Store!EnterCommit, Store!EnterAccept, Store!Seal, Store!Link, Store!SyncBlob, Store!Pin,
     Store!Refuse, Store!Fence, Store!Crash, Store!db

-----------------------------------------------------------------------------

(* What holds on disk, whatever a behaviour is about.                      *)
StorageInvariant ==
    /\ about = "locks" => Locks!NamespaceInvariant
    /\ about = "durable" => Durable!UpgradeInvariant
    /\ about = "replay" => Replay!UpgradeInvariant
    /\ about = "copies" => Copies!BackupInvariant
    /\ about = "restores" => Restores!BackupInvariant
    /\ about = "heads" => Heads!SpoolInvariant
    /\ about = "store" => StoreInvariant

(* One step of NothingOverwritten.                                         *)
NoOverwrite ==
    /\ about = "locks" => Locks!KeepsAbandoned
    /\ about = "durable" => Durable!HoldsNoNewWork
    /\ about = "copies" => Copies!LeavesIncomplete
    /\ about = "restores" => Restores!LeavesIncomplete

(* One step of PublishedIsKept.                                            *)
NoRewrite ==
    /\ about = "heads" => Heads!AdvancesHeads /\ Heads!KeepsAnswered
    /\ about = "store" => Store!KeepsBlobs /\ Store!RecordsCurrent

-----------------------------------------------------------------------------
(* A step is a step of what the behaviour is about, and it stays about it.  *)
LEMMA OneSubject ==
    ASSUME Next
    PROVE  /\ about' = about
           /\ about = "locks" => Locks!Next
           /\ about = "durable" => Durable!Next
           /\ about = "replay" => Replay!Next
           /\ about = "copies" => Copies!Next
           /\ about = "restores" => Restores!Next
           /\ about = "heads" => Heads!PubNext
           /\ about = "store" => Store!Next
BY DEF Next

LEMMA OneSubjectRests ==
    ASSUME UNCHANGED vars
    PROVE  /\ about' = about
           /\ UNCHANGED Locks!vars /\ UNCHANGED Durable!vars /\ UNCHANGED Replay!vars
           /\ UNCHANGED Copies!vars /\ UNCHANGED Restores!vars
           /\ UNCHANGED Heads!pvars /\ UNCHANGED Store!vars
BY DEF vars, ofLocks, ofUpgrade, ofCopies, ofSpool, ofStore, Locks!vars, Durable!vars,
       Replay!vars, Copies!vars, Restores!vars, Heads!pvars, Heads!rows, Heads!files,
       Store!vars, Store!disk, Store!db

LEMMA StorageStarts ==
    ASSUME Init
    PROVE  StorageInvariant
<1>1. /\ about = "locks" => Locks!Init
      /\ about = "durable" => Durable!Init
      /\ about = "replay" => Replay!Init
      /\ about = "copies" => Copies!Init
      /\ about = "restores" => Restores!Init
      /\ about = "heads" => Heads!PubInit
      /\ about = "store" => Store!Init
  BY DEF Init
<1>2. about = "locks" => Locks!NamespaceInvariant
  BY <1>1, LocksAssumption, Locks!NamespaceStarts
<1>3. about = "durable" => Durable!UpgradeInvariant
  BY <1>1, UpgradesAssumption, Durable!UpgradeStarts
<1>4. about = "replay" => Replay!UpgradeInvariant
  BY <1>1, UpgradesAssumption, Replay!UpgradeStarts
<1>5. about = "copies" => Copies!BackupInvariant
  BY <1>1, CopiesAssumption, Copies!BackupStarts
<1>6. about = "restores" => Restores!BackupInvariant
  BY <1>1, CopiesAssumption, Restores!BackupStarts
<1>7. about = "heads" => Heads!SpoolInvariant
  BY <1>1, HeadsAssumption, Heads!PublisherStarts DEF Heads!SpoolInvariant
<1>8. about = "store" => StoreInvariant
  BY <1>1, StoreStarts
<1> QED
  BY <1>2, <1>3, <1>4, <1>5, <1>6, <1>7, <1>8 DEF StorageInvariant

LEMMA StorageSteps ==
    ASSUME StorageInvariant, [Next]_vars
    PROVE  StorageInvariant'
<1>1. /\ about' = about
      /\ about = "locks" => [Locks!Next]_(Locks!vars)
      /\ about = "durable" => [Durable!Next]_(Durable!vars)
      /\ about = "replay" => [Replay!Next]_(Replay!vars)
      /\ about = "copies" => [Copies!Next]_(Copies!vars)
      /\ about = "restores" => [Restores!Next]_(Restores!vars)
      /\ about = "heads" => [Heads!PubNext]_(Heads!pvars)
      /\ about = "store" => [Store!Next]_(Store!vars)
  BY OneSubject, OneSubjectRests
<1>2. about = "locks" => Locks!NamespaceInvariant'
  BY <1>1, LocksAssumption, Locks!NamespaceSteps DEF StorageInvariant
<1>3. about = "durable" => Durable!UpgradeInvariant'
  BY <1>1, UpgradesAssumption, Durable!UpgradeKept DEF StorageInvariant
<1>4. about = "replay" => Replay!UpgradeInvariant'
  BY <1>1, UpgradesAssumption, Replay!UpgradeKept DEF StorageInvariant
<1>5. about = "copies" => Copies!BackupInvariant'
  BY <1>1, CopiesAssumption, Copies!BackupSteps DEF StorageInvariant
<1>6. about = "restores" => Restores!BackupInvariant'
  BY <1>1, CopiesAssumption, Restores!BackupSteps DEF StorageInvariant
<1>7. about = "heads" => Heads!SpoolInvariant'
  BY <1>1, HeadsAssumption, Heads!SpoolSteps DEF StorageInvariant
<1>8. about = "store" => StoreInvariant'
  BY <1>1, StoreSteps DEF StorageInvariant
<1> QED
  BY <1>1, <1>2, <1>3, <1>4, <1>5, <1>6, <1>7, <1>8 DEF StorageInvariant

LEMMA StepsOverwriteNothing ==
    ASSUME StorageInvariant, Next
    PROVE  NoOverwrite
<1>1. about = "locks" => Locks!KeepsAbandoned
  BY OneSubject, LocksAssumption, Locks!AbandonedIsKept DEF StorageInvariant
<1>2. about = "durable" => Durable!HoldsNoNewWork
  BY OneSubject, UpgradesAssumption, Durable!NewWorkHolds DEF StorageInvariant
<1>3. about = "copies" => Copies!LeavesIncomplete
  BY OneSubject, CopiesAssumption, Copies!IncompleteIsLeft DEF StorageInvariant
<1>4. about = "restores" => Restores!LeavesIncomplete
  BY OneSubject, CopiesAssumption, Restores!IncompleteIsLeft DEF StorageInvariant
<1> QED
  BY <1>1, <1>2, <1>3, <1>4 DEF NoOverwrite

LEMMA StepsRewriteNothing ==
    ASSUME StorageInvariant, Next
    PROVE  NoRewrite
<1>1. about = "heads" => Heads!AdvancesHeads /\ Heads!KeepsAnswered
  BY OneSubject, HeadsAssumption, Heads!PublisherSteps, Heads!PublishedStays
     DEF StorageInvariant, Heads!SpoolInvariant
<1>2. about = "store" => Store!KeepsBlobs /\ Store!RecordsCurrent
  BY OneSubject, BlobsStay, OnlyCurrent DEF StorageInvariant
<1> QED
  BY <1>1, <1>2 DEF NoRewrite

-----------------------------------------------------------------------------
(* Every step keeps what the disk and the processes on it agree on.        *)
THEOREM StorageInductive == Spec => []StorageInvariant
<1>1. Init => StorageInvariant
  BY StorageStarts
<1>2. StorageInvariant /\ [Next]_vars => StorageInvariant'
  BY StorageSteps
<1> QED
  BY <1>1, <1>2, PTL DEF Spec

(* A process with a directory open has the current identity, and finds the *)
(* directory finished or not yet built (verify, activate).                 *)
THEOREM OpenSound == Spec => []OpenIsSound
<1>1. StorageInvariant => OpenIsSound
  BY LocksAssumption, Locks!OpenHolds DEF StorageInvariant, OpenIsSound
<1> QED
  BY <1>1, StorageInductive, PTL

(* A directory is moved, rebuilt or copied by a process alone, and one     *)
(* service owns a node (exclusive, activate).                              *)
THEOREM ReplacementAlone == Spec => []ReplacementIsAlone
<1>1. StorageInvariant => ReplacementIsAlone
  BY LocksAssumption, Locks!AloneHolds, Locks!OneServiceHolds DEF StorageInvariant,
     ReplacementIsAlone
<1> QED
  BY <1>1, StorageInductive, PTL

(* No two processes wait for each other's locks (begin_maintenance,        *)
(* acquire, activate).                                                     *)
THEOREM NoProcessesCircle == Spec => []NoWaitCycle
<1>1. StorageInvariant => NoWaitCycle
  BY LocksAssumption, Locks!NoCircleHolds DEF StorageInvariant, NoWaitCycle
<1> QED
  BY <1>1, StorageInductive, PTL

(* What 0.1 left is in its bundle, and its unfinished work is held, however *)
(* often the upgrade is interrupted (upgrade, migrate_database).           *)
THEOREM LegacyKept == Spec => []LegacyIsKept
<1>1. ASSUME StorageInvariant, about = "durable"
      PROVE  Durable!BundleIsOriginal /\ Durable!LegacyIsHeld
  BY <1>1, UpgradesAssumption, Durable!LegacyHolds
     DEF StorageInvariant, Durable!UpgradeInvariant
<1>2. ASSUME StorageInvariant, about = "replay"
      PROVE  Replay!LegacyIsBundled
  BY <1>2, UpgradesAssumption, Replay!LegacyHolds DEF StorageInvariant
<1>3. StorageInvariant => LegacyIsKept
  BY <1>1, <1>2 DEF LegacyIsKept
<1> QED
  BY <1>3, StorageInductive, PTL

(* Snapshots are whole, restored directories whole and fenced              *)
(* (verify_publications, copy_verified, restore).                          *)
THEOREM CopiesSound == Spec => []CopiesAreSound
<1>1. StorageInvariant => CopiesAreSound
  BY Copies!CopiesHold, Restores!CopiesHold DEF StorageInvariant, CopiesAreSound
<1> QED
  BY <1>1, StorageInductive, PTL

(* No step overwrites or takes over what an earlier command, or its death, *)
(* left behind.                                                            *)
THEOREM OverwritesNothing == Spec => NothingOverwritten
<1>1. StorageInvariant /\ [Next]_vars => [NoOverwrite]_vars
  BY StepsOverwriteNothing
<1>2. Spec => [][NoOverwrite]_vars
  BY <1>1, StorageInductive, PTL DEF Spec
<1> QED
  BY <1>2 DEF NothingOverwritten, NoOverwrite

(* Heads, their files and what the store has recorded are on disk for good *)
(* and under their hashes, whoever dies and whatever was not synced        *)
(* (commit, reconcile, publish, dispatch).                                 *)
THEOREM RecordedDurable == Spec => []RecordedIsDurable
<1>1. ASSUME StorageInvariant, about = "heads"
      PROVE  Heads!HeadIsDurable /\ Heads!OneUndecided
  BY <1>1, HeadsAssumption, Heads!SpoolIsSound DEF StorageInvariant, Heads!SpoolInvariant
<1>2. ASSUME StorageInvariant, about = "store"
      PROVE  Store!StoredAsNamed /\ Store!RecordedIsStored /\ Store!ProofsHold
  BY <1>2, StoreHolds DEF StorageInvariant
<1>3. StorageInvariant => RecordedIsDurable
  BY <1>1, <1>2 DEF RecordedIsDurable
<1> QED
  BY <1>3, StorageInductive, PTL

(* Heads never rewind, answered bytes and blobs are never replaced, and    *)
(* only a current attempt gets something recorded (chunk, finish,          *)
(* dispatch).                                                              *)
THEOREM PublishedHolds == Spec => PublishedIsKept
<1>1. StorageInvariant /\ [Next]_vars => [NoRewrite]_vars
  BY StepsRewriteNothing
<1>2. Spec => [][NoRewrite]_vars
  BY <1>1, StorageInductive, PTL DEF Spec
<1> QED
  BY <1>2 DEF PublishedIsKept, NoRewrite
=============================================================================
