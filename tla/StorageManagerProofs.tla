------------------------ MODULE StorageManagerProofs ------------------------
(***************************************************************************)
(* Proofs about the storage service, for every value of the constants.     *)
(***************************************************************************)
EXTENDS StorageRequirements, FiniteSetTheorems, WellFoundedInduction, TLAPS

(***************************************************************************)
(* Typing.                                                                 *)
(***************************************************************************)
\* The bytes of a payload map can be counted: finitely many ids, each with
\* finitely many bytes.
LEMMA BytesCounted ==
  ASSUME NEW p \in Payloads
  PROVE  IsFiniteSet(Bytes(p)) /\ Cardinality(Bytes(p)) \in Nat
<1> DEFINE piece == [i \in DOMAIN p |-> {i} \X (1 .. p[i])]
           pieces == {{i} \X (1 .. p[i]) : i \in DOMAIN p}
<1>1. DOMAIN p \subseteq Ids /\ \A i \in DOMAIN p : p[i] \in Nat
  <2>1. PICK S \in SUBSET Ids : p \in [S -> Sizes]
    BY DEF Payloads
  <2>2. QED BY <2>1, StorageAssumption
<1>2. IsFiniteSet(DOMAIN p)
  BY <1>1, FS_Subset, StorageAssumption
<1>3. piece \in Surjection(DOMAIN p, pieces)
  BY Zenon DEF Surjection
<1>4. IsFiniteSet(pieces)
  BY <1>2, <1>3, FS_Surjection, Zenon
<1>5. \A T \in pieces : IsFiniteSet(T)
  <2>1. ASSUME NEW i \in DOMAIN p PROVE IsFiniteSet({i} \X (1 .. p[i]))
    <3>1. IsFiniteSet(1 .. p[i])
      BY <1>1, FS_Interval
    <3>2. QED BY <3>1, FS_Singleton, FS_Product
  <2>2. QED BY <2>1
<1>6. IsFiniteSet(UNION pieces)
  BY <1>4, <1>5, FS_UNION, Zenon
<1>7. QED BY <1>6, FS_CardinalityType, Zenon DEF Bytes

\* The deltas of a request are integers.
LEMMA DeltasTyped ==
  ASSUME NEW r \in Request
  PROVE  CountDelta(r) \in Nat /\ UsageDelta(r) \in Int
<1>1. r.batch \in Payloads /\ r.seen \in Payloads
  BY DEF Request
<1>2. NewIds(r) \subseteq Ids
  BY <1>1 DEF NewIds, Payloads
<1>3. CountDelta(r) \in Nat
  BY <1>2, FS_Subset, FS_CardinalityType, StorageAssumption DEF CountDelta
<1>4. Cardinality(Bytes(r.batch)) \in Nat /\ Cardinality(Bytes(r.seen)) \in Nat
  BY <1>1, BytesCounted
<1>5. QED BY <1>3, <1>4 DEF UsageDelta

\* Metadata stays metadata when deltas are added, also to a missing item.
LEMMA AddedTyped ==
  ASSUME NEW m \in Meta \cup {None}, NEW ts \in Nat,
         NEW dcount \in Int, NEW dusage \in Int
  PROVE  Added(m, ts, dcount, dusage) \in Meta
BY StorageAssumption DEF Added, Meta

\* The expiry of an item is a whole second of the clock, or none.
LEMMA ExpiryTyped ==
  ASSUME now \in Nat, NEW ttl \in TTLs \cup {None}
  PROVE  Expiry(ttl) \in Nat \cup {None}
<1>1. now \div TicksPerSecond \in Nat
  BY StorageAssumption
<1>2. QED BY <1>1, StorageAssumption DEF Expiry

\* The empty batch is a batch: every lookup starts from it.
LEMMA NoPayloadTyped == NoPayload \in Payloads
<1>1. NoPayload \in [{} -> Sizes]
  BY DEF NoPayload
<1>2. QED BY <1>1 DEF Payloads

\* A free invocation holds a request of the right type.
LEMMA NoRequestTyped == NoRequest \in Request
BY NoPayloadTyped DEF NoRequest, Request, Labels

\* A request that has made no call yet.
Fresh ==
  {r \in GoodRequest : /\ r.expiry = None /\ r.seen = NoPayload
                       /\ \/ r.pc \in {"getObject", "getCollection", "checkHeader"}
                          \/ r.op = "DelAll" /\ r.pc = "stamp"}

\* Every request that arrives is well formed, and one of the instance's.
LEMMA RequestsTyped == Requests \subseteq {r \in Fresh : r.op \in Ops}
<1>1. ASSUME NEW op \in Operations, NEW c \in Collections \cup {None}, NEW pc \in Labels
      PROVE  /\ NewRequest(op, c, pc) \in Request
             /\ NewRequest(op, c, pc).op = op
             /\ NewRequest(op, c, pc).coll = c
             /\ NewRequest(op, c, pc).pc = pc
             /\ NewRequest(op, c, pc).colls = {}
             /\ NewRequest(op, c, pc).expiry = None
             /\ NewRequest(op, c, pc).seen = NoPayload
  <2>1. [NoRequest EXCEPT !.op = op] \in Request
    BY NoRequestTyped DEF Request
  <2>2. [NoRequest EXCEPT !.op = op, !.coll = c] \in Request
    BY <2>1 DEF Request
  <2>3. NewRequest(op, c, pc) \in Request
    BY <2>2 DEF NewRequest, Request
  <2>4. QED BY <2>3 DEF NewRequest, NoRequest
<1>2. ASSUME NEW op \in {"PutBso", "PostColl", "PutColl"}, NEW c \in Collections,
             NEW pc \in {"getObject", "getCollection", "checkHeader"},
             NEW batch \in Payloads,
             NEW ttl \in OptTTLs, NEW ius \in OptHeaders
      PROVE  BatchRequest(op, c, pc, batch, ttl, ius) \in Fresh
  <2> DEFINE q == BatchRequest(op, c, pc, batch, ttl, ius)
  <2>1. DOMAIN batch \subseteq Ids
    BY DEF Payloads
  <2>2. NewRequest(op, c, pc) \in Request
    BY <1>1 DEF Operations, Labels
  <2>3. q \in Request
    BY <2>1, <2>2 DEF BatchRequest, Request, OptTTLs, OptHeaders
  <2>4. q.op = op /\ q.coll = c /\ q.todo = DOMAIN q.batch /\ q.pc = pc /\ q.colls = {}
          /\ q.expiry = None /\ q.seen = NoPayload
    BY <1>1, <2>2 DEF BatchRequest, Request, Operations, Labels
  <2>5. QED BY <2>3, <2>4 DEF Fresh, GoodRequest, WellFormed, Writing
<1>3. ASSUME NEW op \in {"DelBso", "DelIds", "DelColl"}, NEW c \in Collections,
             NEW pc \in {"getObject", "getCollection"},
             NEW ids \in SUBSET Ids, NEW ius \in OptHeaders
      PROVE  DeleteRequest(op, c, pc, ids, ius) \in Fresh
  <2> DEFINE q == DeleteRequest(op, c, pc, ids, ius)
  <2>1. NewRequest(op, c, pc) \in Request
    BY <1>1 DEF Operations, Labels
  <2>2. q \in Request
    BY <2>1 DEF DeleteRequest, Request, OptHeaders
  <2>3. q.op = op /\ q.coll = c /\ q.pc = pc /\ q.colls = {}
          /\ q.expiry = None /\ q.seen = NoPayload
    BY <1>1, <2>1 DEF DeleteRequest, Request, Operations, Labels
  <2>4. QED BY <2>2, <2>3 DEF Fresh, GoodRequest, WellFormed, Writing
<1>4. PutBsoRequests \subseteq Fresh
  <2>1. Singles \subseteq Payloads
    BY DEF Singles, Payloads
  <2>2. QED BY <1>2, <2>1 DEF PutBsoRequests
<1>5. PostCollRequests \subseteq Fresh
  BY <1>2 DEF PostCollRequests, FirstCallOfPost
<1>6. PutCollRequests \subseteq Fresh
  BY <1>2 DEF PutCollRequests, WholeSeconds
<1>7. DelBsoRequests \subseteq Fresh
  <2>1. PICK f : f = [id \in Ids |-> {id}]
    OBVIOUS
  <2>2. DelBsoRequests =
          {DeleteRequest("DelBso", c, "getObject", f[id], ius) :
             c \in Collections, id \in Ids, ius \in OptHeaders}
    BY <2>1 DEF DelBsoRequests
  <2>3. \A id \in Ids : f[id] \in SUBSET Ids
    BY <2>1
  <2>4. QED BY <1>3, <2>2, <2>3
<1>8. DelIdsRequests \subseteq Fresh
  BY <1>3 DEF DelIdsRequests
<1>9. DelCollRequests \subseteq Fresh
  BY <1>3 DEF DelCollRequests
<1>10. DelAllRequests \subseteq Fresh
  <2>1. NewRequest("DelAll", None, "stamp") \in Fresh
    BY <1>1 DEF Operations, Labels, Fresh, GoodRequest, WellFormed, Writing
  <2>2. QED BY <2>1 DEF DelAllRequests
<1>11. QED
  BY <1>4, <1>5, <1>6, <1>7, <1>8, <1>9, <1>10 DEF Requests

\* What a step of the request of w leaves behind is a request.
LEMMA GotoTyped ==
  ASSUME req \in [Workers -> GoodRequest], NEW w, NEW r \in GoodRequest, Goto(w, r)
  PROVE  req' \in [Workers -> GoodRequest]
BY DEF Goto

\* An invocation that answers is free again.
LEMMA RespondTyped ==
  ASSUME req \in [Workers -> GoodRequest], NEW w, NEW status, Respond(w, status)
  PROVE  req' \in [Workers -> GoodRequest]
<1>1. NoRequest \in GoodRequest
  BY NoRequestTyped DEF GoodRequest, WellFormed, NoRequest, Writing
<1>2. QED BY <1>1 DEF Respond

\* delete_all_storage goes on with the collections left, or answers.
LEMMA CollectionDoneTyped ==
  ASSUME req \in [Workers -> GoodRequest], NEW w, NEW r \in Request,
         r.op # "DelAll" => r.colls = {},
         CollectionDone(w, r)
  PROVE  req' \in [Workers -> GoodRequest]
<1>1. CASE r.colls = {}
  BY <1>1, RespondTyped DEF CollectionDone
<1>2. CASE r.colls # {}
  <2> DEFINE q == [r EXCEPT !.pc = "getListed", !.todo = {}]
  <2>1. q \in Request
    BY DEF Request, Labels
  <2>2. q.op = "DelAll" /\ q.pc = "getListed"
    BY <1>2 DEF Request
  <2>3. q \in GoodRequest
    BY <2>1, <2>2 DEF GoodRequest, WellFormed, Writing
  <2>4. QED BY <1>2, <2>3, GotoTyped DEF CollectionDone
<1>3. QED BY <1>1, <1>2

\* What a request found in the table: the sizes of objects that are there.
LEMMA FoundTyped ==
  ASSUME TypeOK, NEW c \in Collections, NEW S
  PROVE  [i \in S \cap LiveIds(c) |-> objs[c][i].size] \in Payloads
<1> DEFINE T == S \cap LiveIds(c)
<1>1. T \subseteq Ids
  BY DEF LiveIds
<1>2. \A i \in T : objs[c][i] \in Bso
  BY DEF LiveIds, Live, TypeOK
<1>3. [i \in T |-> objs[c][i].size] \in [T -> Sizes]
  BY <1>2 DEF Bso
<1>4. QED BY <1>1, <1>3 DEF Payloads

\* A batch without one of its ids is a batch.
LEMMA DroppingTyped ==
  ASSUME NEW p \in Payloads, NEW id
  PROVE  Dropping(p, id) \in Payloads /\ DOMAIN Dropping(p, id) = DOMAIN p \ {id}
<1>1. PICK S \in SUBSET Ids : p \in [S -> Sizes]
  BY DEF Payloads
<1>2. Dropping(p, id) \in [S \ {id} -> Sizes]
  BY <1>1 DEF Dropping
<1>3. S \ {id} \in SUBSET Ids
  BY <1>1
<1>4. QED BY <1>1, <1>2, <1>3 DEF Payloads

\* The empty table, with the collections created before, has its type.
LEMMA TypeInit == Init => TypeOK
<1> SUFFICES ASSUME Init PROVE TypeOK
  OBVIOUS
<1>1. meta \in [Collections -> Meta \cup {None}]
  BY DEF Init, Meta
<1>2. NoRequest \in GoodRequest
  BY NoRequestTyped DEF GoodRequest, WellFormed, NoRequest, Writing
<1>3. QED BY <1>1, <1>2 DEF Init, TypeOK

\* The label that follows the timestamp, by operation.
LEMMA AfterStampLabels ==
  ASSUME NEW r \in Request, r.op # "none"
  PROVE  /\ r.op \in {"DelBso", "DelIds"} => AfterStamp(r) = "erase"
         /\ r.op = "DelColl" => AfterStamp(r) = "query"
         /\ r.op = "DelAll" => AfterStamp(r) = "list"
         /\ r.op \in Writing => AfterStamp(r) \in {"metadata", "batchGet", "write"}
         /\ r.op \in {"DelBso", "DelIds", "DelColl", "DelAll"} \cup Writing
<1>1. r.op \in {"DelBso", "DelIds"} => AfterStamp(r) = "erase"
  BY DEF AfterStamp
<1>2. r.op = "DelColl" => AfterStamp(r) = "query"
  BY DEF AfterStamp
<1>3. r.op = "DelAll" => AfterStamp(r) = "list"
  BY DEF AfterStamp
<1>4. r.op \in Writing => AfterStamp(r) \in {"metadata", "batchGet", "write"}
  BY DEF AfterStamp, Writing
<1>5. r.op \in {"DelBso", "DelIds", "DelColl", "DelAll"} \cup Writing
  BY DEF Request, Operations, Writing
<1>6. QED BY <1>1, <1>2, <1>3, <1>4, <1>5

\* What FlushFails leaves of a request.
Retried(r, b, s, t, p) == [r EXCEPT !.batch = b, !.seen = s, !.todo = t, !.pc = p]

\* A request some of whose writes failed is a request: it differs from the
\* one before in what is left to do and in what has been written.
LEMMA RetriedTyped ==
  ASSUME NEW r \in Request, NEW b \in Payloads, NEW s \in Payloads,
         NEW t \in SUBSET (Ids \cup {Metadata}), NEW p \in Labels
  PROVE  LET q == Retried(r, b, s, t, p)
         IN  /\ q \in Request /\ q.op = r.op /\ q.coll = r.coll /\ q.batch = b
             /\ q.todo = t /\ q.pc = p /\ q.found = r.found /\ q.colls = r.colls
<1> DEFINE q == Retried(r, b, s, t, p)
<1> USE DEF Request, Retried
<1>1. /\ q.op = r.op /\ q.coll = r.coll /\ q.batch = b /\ q.todo = t
      /\ q.pc = p /\ q.found = r.found /\ q.colls = r.colls
  OBVIOUS
<1>2. q \in Request
  OBVIOUS
<1>3. QED BY <1>1, <1>2

\* Every call of every handler, and every step of the environment, keeps the
\* type: one step per action.
LEMMA TypeNext == TypeOK /\ [Next]_vars => TypeOK'
<1> SUFFICES ASSUME TypeOK, [Next]_vars PROVE TypeOK'
  OBVIOUS
<1> USE DEF TypeOK
<1>1. ASSUME NEW w \in Workers, Arrive(w) PROVE TypeOK'
  <2>1. PICK r \in Requests : Goto(w, r)
    BY <1>1 DEF Arrive
  <2>2. req' \in [Workers -> GoodRequest]
    BY <2>1, RequestsTyped, GotoTyped DEF Fresh
  <2>3. QED BY <1>1, <2>2 DEF Arrive, table
<1>2. ASSUME NEW w \in Workers, GetObjectForPut(w) PROVE TypeOK'
  <2> DEFINE r == req[w]
  <2>1. r \in Request /\ WellFormed(r) /\ r.coll \in Collections
    BY <1>2 DEF GoodRequest, WellFormed, GetObjectForPut
  <2>2. CASE Respond(w, 412)
    BY <1>2, <2>2, RespondTyped DEF GetObjectForPut, table
  <2>3. CASE Goto(w, [r EXCEPT !.pc = "stamp",
                               !.seen = [i \in r.todo \cap LiveIds(r.coll) |->
                                           objs[r.coll][i].size]])
    <3> DEFINE found == [i \in r.todo \cap LiveIds(r.coll) |-> objs[r.coll][i].size]
    <3>1. found \in Payloads
      BY <2>1, FoundTyped
    <3>2. [r EXCEPT !.pc = "stamp", !.seen = found] \in GoodRequest
      <4> HIDE DEF found
      <4> QED BY <1>2, <2>1, <3>1 DEF GoodRequest, WellFormed, Request, Labels, GetObjectForPut
    <3>3. QED BY <1>2, <2>3, <3>2, GotoTyped DEF GetObjectForPut, table
  <2>4. QED BY <1>2, <2>2, <2>3 DEF GetObjectForPut
<1>3. ASSUME NEW w \in Workers, GetObjectForDelete(w) PROVE TypeOK'
  <2>1. req[w] \in Request /\ WellFormed(req[w])
    BY DEF GoodRequest
  <2>2. [req[w] EXCEPT !.pc = "stamp"] \in GoodRequest
    <3> DEFINE q == [req[w] EXCEPT !.pc = "stamp"]
    <3>1. q \in Request /\ q.op = "DelBso" /\ q.coll = req[w].coll /\ q.pc = "stamp"
            /\ q.colls = req[w].colls
      BY <1>3, <2>1 DEF GetObjectForDelete, Request, Labels
    <3>2. QED BY <1>3, <2>1, <3>1 DEF GetObjectForDelete, WellFormed, GoodRequest, Writing
  <2>3. req' \in [Workers -> GoodRequest]
    BY <1>3, <2>2, GotoTyped, RespondTyped DEF GetObjectForDelete
  <2>4. QED BY <1>3, <2>3 DEF GetObjectForDelete, table
<1>4. ASSUME NEW w \in Workers, CheckPrecondition(w) PROVE TypeOK'
  <2>1. req[w] \in Request /\ WellFormed(req[w])
    BY DEF GoodRequest
  <2>2. [req[w] EXCEPT !.pc = "getCollection"] \in GoodRequest
    BY <1>4, <2>1 DEF CheckPrecondition, WellFormed, GoodRequest, Request, Labels
  <2>3. req' \in [Workers -> GoodRequest]
    BY <1>4, <2>2, GotoTyped, RespondTyped DEF CheckPrecondition
  <2>4. QED BY <1>4, <2>3 DEF CheckPrecondition, table
<1>5. ASSUME NEW w \in Workers,
             GetCollectionForPost(w) \/ GetCollectionForPut(w) \/ GetCollectionForDelete(w)
      PROVE  TypeOK'
  <2> DEFINE r == req[w]
             q == [r EXCEPT !.pc = "stamp", !.found = meta[r.coll]]
  <2>1. r \in Request /\ WellFormed(r) /\ r.op \notin {"none", "DelAll"}
    BY <1>5 DEF GoodRequest, WellFormed, GetCollectionForPost, GetCollectionForPut,
                GetCollectionForDelete
  <2>2. meta[r.coll] \in Meta \cup {None}
    BY <2>1 DEF WellFormed
  <2>3. q \in Request /\ q.op = r.op /\ q.coll = r.coll /\ q.found = meta[r.coll]
          /\ q.pc = "stamp" /\ q.todo = r.todo /\ q.batch = r.batch
          /\ q.colls = r.colls
    BY <2>1, <2>2 DEF Request, Labels
  <2>4. CASE r.op # "DelIds" \/ meta[r.coll] # None
    <3>1. q \in GoodRequest
      BY <2>1, <2>3, <2>4 DEF GoodRequest, WellFormed
    <3>2. req' \in [Workers -> GoodRequest]
      BY <1>5, <3>1, GotoTyped, RespondTyped
         DEF GetCollectionForPost, GetCollectionForPut, GetCollectionForDelete
    <3>3. QED BY <1>5, <3>2 DEF GetCollectionForPost, GetCollectionForPut,
                                GetCollectionForDelete, table
  <2>5. CASE r.op = "DelIds" /\ meta[r.coll] = None
    <3>1. req' \in [Workers -> GoodRequest]
      BY <1>5, <2>5, RespondTyped
         DEF GetCollectionForPost, GetCollectionForPut, GetCollectionForDelete
    <3>2. QED BY <1>5, <3>1 DEF GetCollectionForPost, GetCollectionForPut,
                                GetCollectionForDelete, table
  <2>6. QED BY <2>4, <2>5
<1>6. ASSUME NEW w \in Workers, TakeTimestamp(w) PROVE TypeOK'
  <2> DEFINE r == req[w]
             q == [r EXCEPT !.pc = AfterStamp(r), !.ts = now, !.expiry = Expiry(r.ttl)]
  <2>1. r \in Request /\ WellFormed(r) /\ r.pc = "stamp" /\ r.op \in Operations
    BY <1>6 DEF GoodRequest, WellFormed, TakeTimestamp, Request
  <2>2. Expiry(r.ttl) \in Nat \cup {None}
    BY <2>1, ExpiryTyped DEF Request
  <2>3. AfterStamp(r) \in Labels
    BY <2>1, AfterStampLabels DEF Labels, Operations
  <2>4. q \in Request /\ q.op = r.op /\ q.coll = r.coll /\ q.found = r.found
          /\ q.pc = AfterStamp(r) /\ q.todo = r.todo /\ q.batch = r.batch
          /\ q.colls = r.colls
    BY <2>1, <2>2, <2>3 DEF Request
  <2>5. WellFormed(q)
    <3> HIDE DEF q
    <3> QED BY <2>1, <2>4, AfterStampLabels DEF WellFormed, Writing
  <2>6. QED BY <1>6, <2>4, <2>5, GotoTyped DEF TakeTimestamp, table, GoodRequest
<1>7. ASSUME NEW w \in Workers, BatchGet(w) PROVE TypeOK'
  <2> DEFINE r == req[w]
             found == [i \in DOMAIN r.batch \cap LiveIds(r.coll) |-> objs[r.coll][i].size]
             q == [r EXCEPT !.pc = "write", !.expiry = Expiry(r.ttl), !.seen = found]
  <2>1. r \in Request /\ WellFormed(r) /\ r.coll \in Collections /\ r.op \in Writing
    BY <1>7 DEF GoodRequest, WellFormed, BatchGet, Writing
  <2>2. Expiry(r.ttl) \in Nat \cup {None}
    BY <2>1, ExpiryTyped DEF Request
  <2>3. found \in Payloads
    BY <2>1, FoundTyped
  <2>4. q \in Request /\ q.op = r.op /\ q.coll = r.coll /\ q.pc = "write"
          /\ q.todo = r.todo /\ q.batch = r.batch /\ q.colls = r.colls
    <3> HIDE DEF found
    <3> QED BY <2>1, <2>2, <2>3 DEF Request, Labels
  <2>5. q \in GoodRequest
    BY <2>1, <2>4 DEF GoodRequest, WellFormed, Writing
  <2>6. QED BY <1>7, <2>5, GotoTyped DEF BatchGet, table
<1>8. ASSUME NEW w \in Workers, NEW id \in Ids, WriteObject(w, id) PROVE TypeOK'
  <2> DEFINE r == req[w]
             item == [modified |-> r.ts, size |-> r.batch[id], expiry |-> r.expiry]
             q == [r EXCEPT !.todo = r.todo \ {id},
                            !.pc = IF r.todo = {id} THEN "metadata" ELSE "write"]
  <2>1. /\ r \in Request /\ WellFormed(r) /\ r.coll \in Collections
        /\ r.op \in Writing /\ id \in DOMAIN r.batch
    BY <1>8 DEF GoodRequest, WellFormed, WriteObject, Writing
  <2>2. r.batch[id] \in Sizes
    <3>1. PICK S \in SUBSET Ids : r.batch \in [S -> Sizes]
      BY <2>1 DEF Request, Payloads
    <3>2. QED BY <2>1, <3>1
  <2>3. item \in Bso
    BY <2>1, <2>2 DEF Bso, Request
  <2>4. objs' \in [Collections -> [Ids -> Bso \cup {None}]]
    BY <1>8, <2>1, <2>3 DEF WriteObject
  <2>5. /\ q \in Request /\ q.op = r.op /\ q.coll = r.coll /\ q.found = r.found
        /\ q.pc \in {"metadata", "write"} /\ q.todo \subseteq r.todo /\ q.batch = r.batch
        /\ q.colls = r.colls
    BY <2>1, SMTT(40), ZenonT(40) DEF Request, Labels
  <2>6. q \in GoodRequest
    BY <2>1, <2>5 DEF GoodRequest, WellFormed, Writing
  <2>7. req' \in [Workers -> GoodRequest]
    BY <1>8, <2>6, GotoTyped DEF WriteObject
  <2>8. QED BY <1>8, <2>4, <2>7 DEF WriteObject
<1>9. ASSUME NEW w \in Workers, UpdateMetadata(w) \/ PutNewMetadata(w) PROVE TypeOK'
  <2> DEFINE r == req[w]
  <2>1. r \in Request /\ r.coll \in Collections /\ r.ts \in Nat
    BY <1>9 DEF GoodRequest, WellFormed, UpdateMetadata, PutNewMetadata, Request
  <2>2. CountDelta(r) \in Int /\ UsageDelta(r) \in Int
    BY <2>1, DeltasTyped
  <2>3. \A m \in Meta \cup {None} : Added(m, r.ts, CountDelta(r), UsageDelta(r)) \in Meta
    BY <2>1, <2>2, AddedTyped
  <2>4. meta' \in [Collections -> Meta \cup {None}]
    BY <1>9, <2>1, <2>3 DEF UpdateMetadata, PutNewMetadata
  <2>5. req' \in [Workers -> GoodRequest]
    BY <1>9, RespondTyped DEF UpdateMetadata, PutNewMetadata
  <2>6. QED BY <1>9, <2>4, <2>5 DEF UpdateMetadata, PutNewMetadata
<1>10. ASSUME NEW w \in Workers, PutStaleMetadata(w) PROVE TypeOK'
  <2> DEFINE r == req[w]
  <2>1. /\ r \in Request /\ r.coll \in Collections /\ r.ts \in Nat
        /\ r.found \in Meta
    BY <1>10 DEF GoodRequest, WellFormed, PutStaleMetadata, Request
  <2>2. [r.found EXCEPT !.modified = r.ts] \in Meta
    BY <2>1 DEF Meta
  <2>3. meta' \in [Collections -> Meta \cup {None}]
    BY <1>10, <2>1, <2>2 DEF PutStaleMetadata
  <2>4. req' \in [Workers -> GoodRequest]
    BY <1>10, RespondTyped DEF PutStaleMetadata
  <2>5. QED BY <1>10, <2>3, <2>4 DEF PutStaleMetadata
<1>11. ASSUME NEW w \in Workers, QueryKeys(w) PROVE TypeOK'
  <2> DEFINE r == req[w]
             q == [r EXCEPT !.pc = "erase", !.todo = KeysOf(r.coll)]
  <2>1. /\ r \in Request /\ WellFormed(r) /\ r.op \in {"DelColl", "DelAll"}
        /\ r.coll \in Collections
        /\ r.op # "DelAll" => r.colls = {}
    BY <1>11 DEF GoodRequest, WellFormed, QueryKeys
  <2>2. KeysOf(r.coll) \subseteq Ids \cup {Metadata}
    BY DEF KeysOf
  <2>3. /\ q \in Request /\ q.op = r.op /\ q.coll = r.coll /\ q.pc = "erase"
        /\ q.colls = r.colls
    BY <2>1, <2>2 DEF Request, Labels
  <2>4. q \in GoodRequest
    BY <2>1, <2>3 DEF GoodRequest, WellFormed, Writing
  <2>5. req' \in [Workers -> GoodRequest]
    BY <1>11, <2>1, <2>4, GotoTyped, CollectionDoneTyped DEF QueryKeys
  <2>6. QED BY <1>11, <2>5 DEF QueryKeys, table
<1>12. ASSUME NEW w \in Workers, NEW key \in Ids \cup {Metadata}, EraseItem(w, key)
       PROVE  TypeOK'
  <2> DEFINE r == req[w]
             shorter == [r EXCEPT !.todo = r.todo \ {key}]
             done == [r EXCEPT !.todo = {}, !.pc = "metadata"]
  <2>1. /\ r \in Request /\ WellFormed(r) /\ r.op \notin Writing /\ r.pc = "erase"
        /\ r.coll \in Collections
        /\ r.op # "DelAll" => r.colls = {}
    BY <1>12 DEF GoodRequest, WellFormed, EraseItem
  <2>2. /\ shorter \in Request /\ shorter.op = r.op /\ shorter.coll = r.coll
        /\ shorter.pc = r.pc /\ shorter.colls = r.colls /\ shorter.found = r.found
    BY <2>1 DEF Request
  <2>3. shorter \in GoodRequest
    BY <2>1, <2>2 DEF GoodRequest, WellFormed
  <2>4. r.op = "DelIds" => done \in GoodRequest
    <3>1. /\ done \in Request /\ done.op = r.op /\ done.coll = r.coll
          /\ done.pc = "metadata" /\ done.colls = r.colls /\ done.found = r.found
      BY <2>1 DEF Request, Labels
    <3>2. QED BY <2>1, <3>1 DEF GoodRequest, WellFormed, Writing
  <2>5. req' \in [Workers -> GoodRequest]
    BY <1>12, <2>1, <2>3, <2>4, GotoTyped, CollectionDoneTyped DEF EraseItem
  <2>6. objs' \in [Collections -> [Ids -> Bso \cup {None}]]
    BY <1>12, <2>1 DEF EraseItem
  <2>7. meta' \in [Collections -> Meta \cup {None}]
    BY <1>12, <2>1 DEF EraseItem
  <2>8. QED BY <1>12, <2>5, <2>6, <2>7 DEF EraseItem
<1>13. ASSUME NEW w \in Workers, ListCollections(w) PROVE TypeOK'
  <2> DEFINE q == [req[w] EXCEPT !.colls = {c \in Collections : index[c] # None}]
  <2>1. req[w] \in Request /\ req[w].op = "DelAll"
    BY <1>13 DEF GoodRequest, WellFormed, ListCollections
  <2>2. q \in Request /\ q.op = "DelAll"
    BY <2>1 DEF Request
  <2>3. req' \in [Workers -> GoodRequest]
    BY <1>13, <2>2, CollectionDoneTyped DEF ListCollections
  <2>4. QED BY <1>13, <2>3 DEF ListCollections, table
<1>14. ASSUME NEW w \in Workers, NEW c \in Collections, GetListed(w, c) PROVE TypeOK'
  <2> DEFINE r == [req[w] EXCEPT !.coll = c, !.colls = @ \ {c}]
             q == [r EXCEPT !.pc = "query"]
  <2>1. req[w] \in Request /\ req[w].op = "DelAll"
    BY <1>14 DEF GoodRequest, WellFormed, GetListed
  <2>2. r \in Request /\ r.op = "DelAll" /\ r.coll = c
    BY <2>1 DEF Request
  <2>3. q \in Request /\ q.op = "DelAll" /\ q.coll = c /\ q.pc = "query"
    BY <2>2 DEF Request, Labels
  <2>4. q \in GoodRequest
    BY <2>3 DEF GoodRequest, WellFormed, Writing
  <2>5. req' \in [Workers -> GoodRequest]
    BY <1>14, <2>2, <2>4, GotoTyped, CollectionDoneTyped DEF GetListed
  <2>6. QED BY <1>14, <2>5 DEF GetListed, table
<1>15. ASSUME NEW c \in Collections, NEW ims, ReadCollection(c, ims) PROVE TypeOK'
  BY <1>15 DEF ReadCollection, table
<1>16. ASSUME Tick PROVE TypeOK'
  BY <1>16 DEF Tick, table
<1>17. ASSUME NEW c \in Collections, NEW id \in Ids, Sweep(c, id) PROVE TypeOK'
  BY <1>17 DEF Sweep
<1>18. ASSUME NEW c \in Collections, PropagateIndex(c) PROVE TypeOK'
  BY <1>18 DEF PropagateIndex, table
<1>19. ASSUME NEW w \in Workers, Crash(w) PROVE TypeOK'
  <2>1. NoRequest \in GoodRequest
    BY NoRequestTyped DEF GoodRequest, WellFormed, NoRequest, Writing
  <2>2. req' \in [Workers -> GoodRequest]
    BY <1>19, <2>1, GotoTyped DEF Crash
  <2>3. QED BY <1>19, <2>2 DEF Crash, Failing, table
<1>20. ASSUME NEW w \in Workers, PreconditionUnchecked(w) PROVE TypeOK'
  <2>1. req[w] \in Request /\ WellFormed(req[w])
    BY DEF GoodRequest
  <2>2. [req[w] EXCEPT !.pc = "getCollection"] \in GoodRequest
    BY <1>20, <2>1 DEF PreconditionUnchecked, WellFormed, GoodRequest, Request, Labels
  <2>3. req' \in [Workers -> GoodRequest]
    BY <1>20, <2>2, GotoTyped DEF PreconditionUnchecked
  <2>4. QED BY <1>20, <2>3 DEF PreconditionUnchecked, Failing, table
<1>21. ASSUME NEW w \in Workers, NEW ids \in SUBSET Ids, FlushFails(w, ids) PROVE TypeOK'
  <2> DEFINE r == req[w]
  <2>1. PICK last \in ids :
          Goto(w, [r EXCEPT !.batch = Dropping(r.batch, last),
                            !.seen = Dropping(r.seen, last),
                            !.todo = r.todo \ ids,
                            !.pc = IF r.todo = ids THEN "metadata" ELSE r.pc])
    BY <1>21 DEF FlushFails
  <2> DEFINE b == Dropping(r.batch, last)
             s == Dropping(r.seen, last)
             t == r.todo \ ids
             p == IF r.todo = ids THEN "metadata" ELSE r.pc
             q == Retried(r, b, s, t, p)
  <2>2. r \in Request /\ WellFormed(r)
    BY DEF GoodRequest
  <2>3. b \in Payloads /\ DOMAIN b = DOMAIN r.batch \ {last} /\ s \in Payloads
    BY <2>2, DroppingTyped DEF Request
  <2>4. \/ r.pc = "write" /\ r.op \in Writing
        \/ r.pc = "erase" /\ r.op = "DelIds"
    BY <1>21, <2>2 DEF FlushFails, WellFormed
  <2>5. /\ t \in SUBSET (Ids \cup {Metadata}) /\ t = r.todo \ ids
        /\ p \in Labels /\ p \in {r.pc, "metadata"}
    BY <2>2 DEF Request, Labels
  <2> HIDE DEF b, s, t, p
  <2>6. /\ q \in Request /\ q.op = r.op /\ q.coll = r.coll /\ q.batch = b
        /\ q.todo = r.todo \ ids /\ q.pc \in {r.pc, "metadata"} /\ q.found = r.found
        /\ q.colls = r.colls
    BY <2>2, <2>3, <2>5, RetriedTyped
  <2> HIDE DEF q
  <2>7. q \in GoodRequest
    BY <2>1, <2>2, <2>3, <2>4, <2>6 DEF GoodRequest, WellFormed, Writing
  <2>8. Goto(w, q)
    BY <2>1 DEF q, b, s, t, p, Retried
  <2>9. QED BY <1>21, <2>7, <2>8, GotoTyped DEF FlushFails, Failing, table
<1>22. CASE UNCHANGED vars
  BY <1>22 DEF vars
<1>23. QED
  BY <1>1, <1>2, <1>3, <1>4, <1>5, <1>6, <1>7, <1>8, <1>9, <1>10, <1>11, <1>12,
     <1>13, <1>14, <1>15, <1>16, <1>17, <1>18, <1>19, <1>20, <1>21, <1>22
     DEF Next, Handle

\* The state always has its type, and every request in flight has what its
\* next call needs: no handler reads a field that was never set.
THEOREM TypeCorrect == Spec => []TypeOK
<1>1. Init => TypeOK
  BY TypeInit
<1>2. TypeOK /\ [Next]_vars => TypeOK'
  BY TypeNext
<1>3. QED BY <1>1, <1>2, PTL DEF Spec

(***************************************************************************)
(* Counting.  In an instance that only adds objects the count of a         *)
(* collection, with what is owed to it, covers its objects.                *)
(***************************************************************************)
CountOf(c) == IF meta[c] = None THEN 0 ELSE meta[c].count

\* Ids and invocations are finitely many, so everything counted is finite,
\* before a step and after it.
LEMMA Counted ==
  ASSUME NEW c
  PROVE  /\ IsFiniteSet(StoredIds(c)) /\ Cardinality(StoredIds(c)) \in Nat
         /\ IsFiniteSet(Owed(c)) /\ Cardinality(Owed(c)) \in Nat
         /\ IsFiniteSet(StoredIds(c)') /\ Cardinality(StoredIds(c)') \in Nat
         /\ IsFiniteSet(Owed(c)') /\ Cardinality(Owed(c)') \in Nat
<1>1. IsFiniteSet(Ids) /\ IsFiniteSet(Workers \X Ids)
  BY FS_Product, StorageAssumption
<1>2. /\ StoredIds(c) \in SUBSET Ids /\ Owed(c) \in SUBSET (Workers \X Ids)
      /\ StoredIds(c)' \in SUBSET Ids /\ Owed(c)' \in SUBSET (Workers \X Ids)
  BY DEF StoredIds, Owed
<1>3. /\ IsFiniteSet(StoredIds(c)) /\ IsFiniteSet(Owed(c))
      /\ IsFiniteSet(StoredIds(c)') /\ IsFiniteSet(Owed(c)')
  BY <1>1, <1>2, FS_Subset
<1>4. QED BY <1>3, FS_CardinalityType

\* A request that has written nothing yet owes nothing: when it moves on, or
\* leaves, no debt is forgotten.
LEMMA NoDebtForgotten ==
  ASSUME TypeOK, NEW w \in Workers, NEW q,
         req' = [req EXCEPT ![w] = q],
         req[w].pc \notin {"write", "metadata"},
         NEW c \in Collections
  PROVE  Owed(c) \subseteq Owed(c)'
<1> SUFFICES ASSUME NEW p \in Owed(c) PROVE p \in Owed(c)'
  OBVIOUS
<1>1. p \in Workers \X Ids /\ p[1] # w
  BY DEF Owed
<1>2. req'[p[1]] = req[p[1]]
  BY <1>1 DEF TypeOK
<1>3. QED BY <1>1, <1>2 DEF Owed, NewIds

\* A step that leaves the table alone and forgets no debt keeps the count good.
LEMMA CountKept ==
  ASSUME TypeOK, CountCoversObjects, UNCHANGED table,
         \A c \in Collections : Owed(c) \subseteq Owed(c)'
  PROVE  CountCoversObjects'
<1> SUFFICES ASSUME NEW c \in Collections
             PROVE  CountOf(c)' + Cardinality(Owed(c)') >= Cardinality(StoredIds(c)')
  BY DEF CountCoversObjects, CountOf
<1>1. CountOf(c)' = CountOf(c) /\ StoredIds(c)' = StoredIds(c)
  BY DEF CountOf, StoredIds, table
<1>2. CountOf(c) \in Int
  BY DEF CountOf, TypeOK, Meta
<1>3. CountOf(c) + Cardinality(Owed(c)) >= Cardinality(StoredIds(c))
  BY DEF CountCoversObjects, CountOf
<1>4. Cardinality(Owed(c)) <= Cardinality(Owed(c)')
  BY Counted, FS_Subset
<1>5. QED BY <1>1, <1>2, <1>3, <1>4, Counted

\* At first nothing is stored, so nothing is uncounted.
LEMMA CountInit == AddOnly /\ Init => CountInvariant
<1> SUFFICES ASSUME AddOnly, Init PROVE CountInvariant
  OBVIOUS
<1>1. TypeOK
  BY TypeInit
<1>2. \A c \in Collections : StoredIds(c) = {} /\ CountOf(c) = 0
  BY DEF Init, StoredIds, CountOf
<1>3. CountCoversObjects
  <2> SUFFICES ASSUME NEW c \in Collections
               PROVE  CountOf(c) + Cardinality(Owed(c)) >= Cardinality(StoredIds(c))
    BY DEF CountCoversObjects, CountOf
  <2>1. QED BY <1>2, Counted, FS_EmptySet
<1>4. \A w \in Workers : /\ req[w].op = "none" /\ req[w].expiry = None
                         /\ DOMAIN req[w].seen = {}
  BY DEF Init, NoRequest, NoPayload
<1>5. \A c \in Existing : meta[c] # None
  BY StorageAssumption DEF Init, Meta
<1>6. QED
  BY <1>1, <1>2, <1>3, <1>4, <1>5 DEF CountInvariant, Init, SeenStaysStored, PostHasFound

\* The steps of a request that neither writes nor has written.
LEMMA CountLookup ==
  ASSUME AddOnly, CountInvariant, TypeOK', UNCHANGED <<table, failures>>,
         NEW w \in Workers, NEW q,
         req' = [req EXCEPT ![w] = q], req[w].pc \notin {"write", "metadata"},
         q.op \in Ops \cup {"none"}, q.expiry = None,
         SeenStaysStored(q), PostHasFound(q)
  PROVE  CountInvariant'
<1>1. CountCoversObjects'
  BY NoDebtForgotten, CountKept DEF CountInvariant
<1>2. \A c : StoredIds(c)' = StoredIds(c)
  BY DEF StoredIds, table
<1>3. ASSUME NEW v \in Workers
      PROVE  /\ req'[v].op \in Ops \cup {"none"} /\ req'[v].expiry = None
             /\ SeenStaysStored(req'[v]) /\ PostHasFound(req'[v])
  BY DEF CountInvariant, TypeOK
<1>4. \A v \in Workers : SeenStaysStored(req[v])'
  BY <1>2, <1>3 DEF SeenStaysStored
<1>5. \A v \in Workers : PostHasFound(req[v])'
  BY <1>3 DEF PostHasFound
<1>6. QED BY <1>1, <1>2, <1>3, <1>4, <1>5 DEF CountInvariant, table

\* What WriteObject writes is an object, for a known collection.
LEMMA WrittenIsBso ==
  ASSUME TypeOK, NEW w \in Workers, NEW id \in Ids, WriteObject(w, id)
  PROVE  LET r == req[w] IN
         /\ r \in Request /\ r.coll \in Collections
         /\ r.op \in Writing /\ id \in DOMAIN r.batch
         /\ [modified |-> r.ts, size |-> r.batch[id], expiry |-> r.expiry] \in Bso
<1> DEFINE r == req[w]
<1>1. r \in Request /\ WellFormed(r)
  BY DEF TypeOK, GoodRequest
<1>2. r.coll \in Collections /\ r.op \in Writing /\ id \in DOMAIN r.batch
  BY <1>1 DEF WellFormed, WriteObject, Writing
<1>3. r.batch[id] \in Sizes
  <2>1. PICK S \in SUBSET Ids : r.batch \in [S -> Sizes]
    BY <1>1 DEF Request, Payloads
  <2>2. QED BY <1>2, <2>1
<1>4. QED BY <1>1, <1>2, <1>3 DEF Bso, Request

\* An object lands.  If its id was not stored, then the writer did not see it,
\* so it is one of the new ids the writer will count, and it is owed from now.
LEMMA CountWrite ==
  ASSUME AddOnly, CountInvariant, TypeOK',
         NEW w \in Workers, NEW id \in Ids, WriteObject(w, id)
  PROVE  CountInvariant'
<1> DEFINE r == req[w]
           item == [modified |-> r.ts, size |-> r.batch[id], expiry |-> r.expiry]
           q == [r EXCEPT !.todo = r.todo \ {id},
                          !.pc = IF r.todo = {id} THEN "metadata" ELSE "write"]
<1>1. /\ TypeOK /\ r \in Request /\ r.coll \in Collections /\ r.op \in Writing
      /\ id \in DOMAIN r.batch /\ item \in Bso
  BY WrittenIsBso DEF CountInvariant
<1>2. /\ q.op = r.op /\ q.coll = r.coll /\ q.batch = r.batch /\ q.seen = r.seen
      /\ q.expiry = r.expiry /\ q.found = r.found /\ q.todo = r.todo \ {id}
      /\ q.pc \in {"write", "metadata"}
  BY <1>1 DEF Request
<1>3. req' = [req EXCEPT ![w] = q] /\ r.pc = "write" /\ id \in r.todo
  BY DEF WriteObject, Goto
<1>4. \A c \in Collections :
        StoredIds(c)' = StoredIds(c) \cup (IF c = r.coll THEN {id} ELSE {})
  <2>1. item # None
    BY <1>1, StorageAssumption
  <2>2. objs' = [objs EXCEPT ![r.coll][id] = item]
    BY DEF WriteObject
  <2> HIDE DEF item
  <2>3. \A c \in Collections, i \in Ids :
          objs'[c][i] = IF c = r.coll /\ i = id THEN item ELSE objs[c][i]
    BY <1>1, <2>2 DEF TypeOK
  <2> HIDE DEF r
  <2>4. QED BY <2>1, <2>3 DEF StoredIds
<1> HIDE DEF q, item
<1>5. \A v \in Workers : req'[v] = IF v = w THEN q ELSE req[v]
  BY <1>1, <1>3 DEF TypeOK
<1>6. \A c \in Collections : Owed(c) \subseteq Owed(c)'
  BY <1>2, <1>3, <1>5 DEF Owed, NewIds
<1>7. \A c \in Collections : CountOf(c)' = CountOf(c)
  BY DEF CountOf, WriteObject
<1>8. ASSUME NEW c \in Collections
      PROVE  CountOf(c)' + Cardinality(Owed(c)') >= Cardinality(StoredIds(c)')
  <2>1. CountOf(c) + Cardinality(Owed(c)) >= Cardinality(StoredIds(c))
    BY DEF CountInvariant, CountCoversObjects, CountOf
  <2>2. Cardinality(Owed(c)) <= Cardinality(Owed(c)')
    BY <1>6, Counted, FS_Subset
  <2>3. CountOf(c) \in Int
    BY <1>1 DEF CountOf, TypeOK, Meta
  <2>4. CASE StoredIds(c)' = StoredIds(c)
    BY <1>7, <2>1, <2>2, <2>3, <2>4, Counted
  <2>5. CASE c = r.coll /\ id \notin StoredIds(c)
    <3>1. id \notin DOMAIN r.seen
      BY <2>5 DEF CountInvariant, SeenStaysStored
    <3>2. <<w, id>> \in Owed(c)' /\ <<w, id>> \notin Owed(c)
      BY <1>1, <1>2, <1>3, <1>5, <2>5, <3>1 DEF Owed, NewIds
    <3>3. /\ IsFiniteSet(Owed(c) \cup {<<w, id>>})
          /\ Cardinality(Owed(c) \cup {<<w, id>>}) = Cardinality(Owed(c)) + 1
      BY <3>2, Counted, FS_AddElement
    <3>4. Owed(c) \cup {<<w, id>>} \in SUBSET Owed(c)'
      BY <1>6, <3>2
    <3>5. Cardinality(Owed(c) \cup {<<w, id>>}) <= Cardinality(Owed(c)')
      BY <3>4, Counted, FS_Subset
    <3>6. Cardinality(StoredIds(c)') = Cardinality(StoredIds(c)) + 1
      <4>1. StoredIds(c)' = StoredIds(c) \cup {id}
        BY <1>4, <2>5
      <4>2. IsFiniteSet(StoredIds(c))
        BY Counted
      <4>3. Cardinality(StoredIds(c) \cup {id}) = Cardinality(StoredIds(c)) + 1
        BY <2>5, <4>2, FS_AddElement
      <4>4. QED BY <4>1, <4>3
    <3>7. CountOf(c)' = CountOf(c)
      BY <1>7
    <3>8. /\ Cardinality(StoredIds(c)) \in Nat /\ Cardinality(Owed(c)) \in Nat
          /\ Cardinality(Owed(c)') \in Nat
      BY Counted
    <3>9. QED BY <2>1, <2>3, <3>3, <3>5, <3>6, <3>7, <3>8
  <2>6. QED BY <1>4, <2>4, <2>5
<1>9. CountCoversObjects'
  BY <1>8 DEF CountCoversObjects, CountOf
<1>10. \A c \in Collections : StoredIds(c) \subseteq StoredIds(c)'
  BY <1>4
<1>11. \A c \in Collections : \A i \in StoredIds(c)' : objs'[c][i].expiry = None
  <2>1. objs' = [objs EXCEPT ![r.coll][id] = item]
    BY DEF WriteObject, item
  <2>2. item.expiry = None
    BY DEF CountInvariant, item
  <2>3. QED BY <1>1, <1>4, <2>1, <2>2 DEF CountInvariant, TypeOK, StoredIds
<1>12. ASSUME NEW v \in Workers
       PROVE  /\ req'[v].op \in Ops \cup {"none"} /\ req'[v].expiry = None
              /\ SeenStaysStored(req[v])' /\ PostHasFound(req[v])'
  <2>1. /\ req[v].op \in Ops \cup {"none"} /\ req[v].expiry = None
        /\ SeenStaysStored(req[v]) /\ PostHasFound(req[v])
    BY DEF CountInvariant
  <2>2. /\ req'[v].op = req[v].op /\ req'[v].expiry = req[v].expiry
        /\ req'[v].seen = req[v].seen /\ req'[v].coll = req[v].coll
        /\ req'[v].found = req[v].found
    BY <1>2, <1>5
  <2>3. SeenStaysStored(req[v])'
    BY <1>10, <2>1, <2>2 DEF SeenStaysStored
  <2>4. PostHasFound(req[v])'
    BY <1>2, <1>3, <1>5, <2>1 DEF PostHasFound
  <2>5. QED BY <2>1, <2>2, <2>3, <2>4
<1>13. failures' = 0 /\ meta' = meta
  BY DEF WriteObject, CountInvariant
<1>14. QED
  BY <1>9, <1>11, <1>12, <1>13 DEF CountInvariant

\* The metadata of a write lands: exactly what the request owed is added.
LEMMA CountSettled ==
  ASSUME AddOnly, CountInvariant, TypeOK', NEW w \in Workers, UpdateMetadata(w)
  PROVE  CountInvariant'
<1> DEFINE r == req[w]
           paid == {w} \X NewIds(r)
<1>1. TypeOK /\ r \in Request /\ r.coll \in Collections /\ r.ts \in Nat
  BY DEF CountInvariant, TypeOK, GoodRequest, WellFormed, UpdateMetadata, Request
<1>2. /\ req' = [req EXCEPT ![w] = NoRequest] /\ objs' = objs /\ failures' = failures
      /\ meta' = [meta EXCEPT ![r.coll] =
                    Added(meta[r.coll], r.ts, CountDelta(r), UsageDelta(r))]
  BY DEF UpdateMetadata, Respond
<1>3. CountDelta(r) \in Nat /\ UsageDelta(r) \in Int
  BY <1>1, DeltasTyped
<1> DEFINE added == Added(meta[r.coll], r.ts, CountDelta(r), UsageDelta(r))
<1>3a. added \in Meta /\ added.count = CountOf(r.coll) + CountDelta(r)
  <2>1. \A m \in Meta \cup {None} : Added(m, r.ts, CountDelta(r), UsageDelta(r)) \in Meta
    BY <1>1, <1>3, AddedTyped
  <2>2. added \in Meta
    BY <1>1, <2>1 DEF TypeOK
  <2>3. QED BY <2>2 DEF Added, CountOf
<1>4. \A v \in Workers : req'[v] = IF v = w THEN NoRequest ELSE req[v]
  BY <1>1, <1>2 DEF TypeOK
<1>5. \A c : StoredIds(c)' = StoredIds(c)
  BY <1>2 DEF StoredIds
<1>6. IsFiniteSet(paid) /\ Cardinality(paid) = CountDelta(r)
  <2>1. NewIds(r) \in SUBSET Ids
    BY <1>1 DEF NewIds, Request, Payloads
  <2>2. IsFiniteSet(NewIds(r)) /\ Cardinality(NewIds(r)) \in Nat
    BY <2>1, FS_Subset, FS_CardinalityType, StorageAssumption
  <2>3. IsFiniteSet({w}) /\ Cardinality({w}) = 1
    BY FS_Singleton
  <2>4. IsFiniteSet(paid) /\ Cardinality(paid) = 1 * Cardinality(NewIds(r))
    BY <2>2, <2>3, FS_Product
  <2>5. QED BY <2>2, <2>4 DEF CountDelta
<1> HIDE DEF paid
<1>7. \A c \in Collections :
        CountOf(c)' = CountOf(c) + (IF c = r.coll THEN CountDelta(r) ELSE 0)
  <2>1. \A c \in Collections : meta'[c] = IF c = r.coll THEN added ELSE meta[c]
    BY <1>1, <1>2 DEF TypeOK
  <2>2. added # None
    BY <1>3a, StorageAssumption
  <2>3. \A c \in Collections : CountOf(c) \in Int
    BY <1>1 DEF CountOf, TypeOK, Meta
  <2> HIDE DEF added, r
  <2>4. QED BY <1>3a, <2>1, <2>2, <2>3 DEF CountOf
<1>8. \A c \in Collections : Owed(c) \subseteq Owed(c)' \cup (IF c = r.coll THEN paid ELSE {})
  BY <1>4 DEF Owed, NewIds, paid
<1>9. ASSUME NEW c \in Collections
      PROVE  CountOf(c)' + Cardinality(Owed(c)') >= Cardinality(StoredIds(c)')
  <2>1. CountOf(c) + Cardinality(Owed(c)) >= Cardinality(StoredIds(c))
    BY DEF CountInvariant, CountCoversObjects, CountOf
  <2>2. CountOf(c) \in Int
    BY <1>1 DEF CountOf, TypeOK, Meta
  <2>3. CASE c = r.coll
    <3>1. /\ IsFiniteSet(Owed(c)' \cup paid)
          /\ Cardinality(Owed(c)' \cup paid)
               = Cardinality(Owed(c)') + Cardinality(paid) - Cardinality(Owed(c)' \cap paid)
      BY <1>6, Counted, FS_Union
    <3>2. Cardinality(Owed(c)' \cap paid) \in Nat
      BY Counted, FS_Intersection, FS_CardinalityType
    <3>3. Owed(c) \in SUBSET (Owed(c)' \cup paid)
      BY <1>8, <2>3
    <3>4. Cardinality(Owed(c)) <= Cardinality(Owed(c)' \cup paid)
      BY <3>1, <3>3, FS_Subset
    <3>5. Cardinality(Owed(c)) <= Cardinality(Owed(c)') + CountDelta(r)
      BY <1>3, <1>6, <3>1, <3>2, <3>4, Counted
    <3>6. CountOf(c)' = CountOf(c) + CountDelta(r) /\ StoredIds(c)' = StoredIds(c)
      <4> HIDE DEF r
      <4> QED BY <1>5, <1>7, <2>3
    <3>7. QED BY <1>3, <2>1, <2>2, <3>5, <3>6, Counted
  <2>4. CASE c # r.coll
    <3>1. Owed(c) \in SUBSET Owed(c)'
      BY <1>8, <2>4
    <3>2. Cardinality(Owed(c)) <= Cardinality(Owed(c)')
      BY <3>1, Counted, FS_Subset
    <3>3. CountOf(c)' = CountOf(c) /\ StoredIds(c)' = StoredIds(c)
      BY <1>5, <1>7, <2>2, <2>4
    <3>4. QED BY <2>1, <2>2, <3>2, <3>3, Counted
  <2>5. QED BY <2>3, <2>4
<1>10. CountCoversObjects'
  BY <1>9 DEF CountCoversObjects, CountOf
<1>11. \A c \in Existing : meta'[c] # None
  <2>1. added # None
    BY <1>3a, StorageAssumption
  <2>2. \A c \in Collections : meta'[c] = IF c = r.coll THEN added ELSE meta[c]
    BY <1>1, <1>2 DEF TypeOK
  <2>3. QED BY <2>1, <2>2, StorageAssumption DEF CountInvariant
<1>12. ASSUME NEW v \in Workers
       PROVE  /\ req'[v].op \in Ops \cup {"none"} /\ req'[v].expiry = None
              /\ SeenStaysStored(req[v])' /\ PostHasFound(req[v])'
  <2>1. CASE v = w
    <3>1. req'[v] = NoRequest
      BY <1>4, <2>1
    <3>2. QED BY <3>1 DEF NoRequest, NoPayload, SeenStaysStored, PostHasFound
  <2>2. CASE v # w
    <3>1. req'[v] = req[v]
      BY <1>4, <2>2
    <3>2. QED BY <1>5, <3>1 DEF CountInvariant, SeenStaysStored, PostHasFound
  <2>3. QED BY <2>1, <2>2
<1>13. \A c \in Collections : \A i \in StoredIds(c)' : objs'[c][i].expiry = None
  BY <1>2, <1>5 DEF CountInvariant
<1>14. QED
  BY <1>2, <1>10, <1>11, <1>12, <1>13 DEF CountInvariant

\* Every step of an instance that only adds keeps the inductive invariant:
\* one step per action, the deletions and failures being impossible.
LEMMA CountNext == AddOnly /\ CountInvariant /\ [Next]_vars => CountInvariant'
<1> SUFFICES ASSUME AddOnly, CountInvariant, [Next]_vars PROVE CountInvariant'
  OBVIOUS
<1>1. TypeOK /\ TypeOK'
  BY TypeNext DEF CountInvariant
<1>2. \A w \in Workers :
        /\ req[w] \in Request /\ WellFormed(req[w]) /\ req[w].op \in Ops \cup {"none"}
        /\ req[w].op \in Writing \cup {"none"}
        /\ req[w].expiry = None /\ SeenStaysStored(req[w]) /\ PostHasFound(req[w])
  BY <1>1 DEF CountInvariant, TypeOK, GoodRequest, AddOnly
<1>3. ASSUME NEW w \in Workers, UNCHANGED <<table, failures>>, Respond(w, 200)
               \/ Respond(w, 404) \/ Respond(w, 412),
             req[w].pc \notin {"write", "metadata"}
      PROVE  CountInvariant'
  <2>1. req' = [req EXCEPT ![w] = NoRequest]
    BY <1>3 DEF Respond
  <2>2. /\ NoRequest.op = "none" /\ NoRequest.expiry = None
        /\ SeenStaysStored(NoRequest) /\ PostHasFound(NoRequest)
    BY DEF NoRequest, NoPayload, SeenStaysStored, PostHasFound
  <2>3. QED BY <1>1, <1>3, <2>1, <2>2, CountLookup
<1>4. ASSUME NEW w \in Workers, Arrive(w) PROVE CountInvariant'
  <2>1. PICK q \in Requests : Goto(w, q)
    BY <1>4 DEF Arrive
  <2>2. q \in Fresh /\ q.op \in Ops
    BY <2>1, RequestsTyped
  <2>3. q.expiry = None /\ DOMAIN q.seen = {} /\ PostHasFound(q)
    BY <2>2 DEF Fresh, NoPayload, PostHasFound
  <2>4. QED
    BY <1>1, <1>4, <2>1, <2>2, <2>3, CountLookup DEF Arrive, Goto, SeenStaysStored
<1>5. ASSUME NEW w \in Workers, GetObjectForPut(w) PROVE CountInvariant'
  <2> DEFINE r == req[w]
             found == [i \in r.todo \cap LiveIds(r.coll) |-> objs[r.coll][i].size]
             q == [r EXCEPT !.pc = "stamp", !.seen = found]
  <2>1. CASE Respond(w, 412)
    BY <1>3, <1>5, <2>1 DEF GetObjectForPut
  <2>2. CASE Goto(w, q)
    <3>1. r.op = "PutBso" /\ r.coll \in Collections
      BY <1>2, <1>5 DEF GetObjectForPut, WellFormed
    <3>2. /\ q.op = r.op /\ q.expiry = r.expiry /\ q.coll = r.coll /\ q.pc = "stamp"
          /\ q.seen = found
      BY <1>2 DEF Request
    <3>3. DOMAIN found \subseteq StoredIds(r.coll)
      BY DEF LiveIds, Live, StoredIds
    <3> HIDE DEF found, q
    <3>4. SeenStaysStored(q) /\ PostHasFound(q)
      BY <3>1, <3>2, <3>3 DEF SeenStaysStored, PostHasFound
    <3>5. QED
      BY <1>1, <1>2, <1>5, <2>2, <3>2, <3>4, CountLookup DEF GetObjectForPut, Goto
  <2>3. QED BY <1>5, <2>1, <2>2 DEF GetObjectForPut
<1>6. ASSUME NEW w \in Workers, CheckPrecondition(w) PROVE CountInvariant'
  <2> DEFINE q == [req[w] EXCEPT !.pc = "getCollection"]
  <2>1. CASE Respond(w, 412)
    BY <1>3, <1>6, <2>1 DEF CheckPrecondition
  <2>2. CASE Goto(w, q)
    <3>1. /\ q.op = req[w].op /\ q.expiry = req[w].expiry /\ q.coll = req[w].coll
          /\ q.pc = "getCollection" /\ q.seen = req[w].seen
      BY <1>2 DEF Request
    <3> HIDE DEF q
    <3>2. SeenStaysStored(q) /\ PostHasFound(q)
      BY <1>2, <3>1 DEF SeenStaysStored, PostHasFound
    <3>3. QED
      BY <1>1, <1>2, <1>6, <2>2, <3>1, <3>2, CountLookup DEF CheckPrecondition, Goto
  <2>3. QED BY <1>6, <2>1, <2>2 DEF CheckPrecondition
<1>7. ASSUME NEW w \in Workers, GetCollectionForPost(w) \/ GetCollectionForPut(w)
      PROVE  CountInvariant'
  <2> DEFINE q == [req[w] EXCEPT !.pc = "stamp", !.found = meta[req[w].coll]]
  <2>1. CASE Respond(w, 404) \/ Respond(w, 412)
    BY <1>3, <1>7, <2>1 DEF GetCollectionForPost, GetCollectionForPut
  <2>2. CASE Goto(w, q)
    <3>1. /\ q.op = req[w].op /\ q.expiry = req[w].expiry /\ q.coll = req[w].coll
          /\ q.seen = req[w].seen /\ q.found = meta[req[w].coll]
      BY <1>2 DEF Request
    <3>2. req[w].op = "PostColl" => meta[req[w].coll] # None
      <4>1. req[w].op = "PostColl" => /\ "PostColl" \in Ops
                                      /\ req[w].coll \in Collections
        BY <1>2 DEF WellFormed
      <4>2. QED BY <4>1 DEF AddOnly, CountInvariant
    <3> HIDE DEF q
    <3>3. SeenStaysStored(q) /\ PostHasFound(q)
      BY <1>2, <3>1, <3>2 DEF SeenStaysStored, PostHasFound
    <3>4. QED
      BY <1>1, <1>2, <1>7, <2>2, <3>1, <3>3, CountLookup
         DEF GetCollectionForPost, GetCollectionForPut, Goto
  <2>3. QED BY <1>7, <2>1, <2>2 DEF GetCollectionForPost, GetCollectionForPut
<1>8. ASSUME NEW w \in Workers, TakeTimestamp(w) PROVE CountInvariant'
  <2> DEFINE r == req[w]
             q == [r EXCEPT !.pc = AfterStamp(r), !.ts = now, !.expiry = Expiry(r.ttl)]
  <2>1. Expiry(r.ttl) = None
    BY <1>2 DEF Expiry, Request, AddOnly
  <2>2. /\ q.op = r.op /\ q.expiry = None /\ q.coll = r.coll
        /\ q.seen = r.seen /\ q.found = r.found
    BY <1>2, <2>1 DEF Request
  <2>3. r.pc = "stamp"
    BY <1>8 DEF TakeTimestamp
  <2>4. Goto(w, q) /\ UNCHANGED <<table, failures>>
    BY <1>8 DEF TakeTimestamp
  <2> HIDE DEF q
  <2>5. SeenStaysStored(q) /\ PostHasFound(q)
    BY <1>2, <2>2, <2>3 DEF SeenStaysStored, PostHasFound
  <2>6. QED BY <1>1, <1>2, <2>2, <2>3, <2>4, <2>5, CountLookup DEF Goto
<1>9. ASSUME NEW w \in Workers, BatchGet(w) PROVE CountInvariant'
  <2> DEFINE r == req[w]
             found == [i \in DOMAIN r.batch \cap LiveIds(r.coll) |-> objs[r.coll][i].size]
             q == [r EXCEPT !.pc = "write", !.expiry = Expiry(r.ttl), !.seen = found]
  <2>1. r.pc = "batchGet" /\ r.coll \in Collections
    BY <1>2, <1>9 DEF BatchGet, WellFormed, Writing
  <2>2. Expiry(r.ttl) = None
    BY <1>2 DEF Expiry, Request, AddOnly
  <2>3. /\ q.op = r.op /\ q.expiry = None /\ q.coll = r.coll
        /\ q.seen = found /\ q.found = r.found
    BY <1>2, <2>2 DEF Request
  <2>4. DOMAIN found \subseteq StoredIds(r.coll)
    BY DEF LiveIds, Live, StoredIds
  <2>5. Goto(w, q) /\ UNCHANGED <<table, failures>>
    BY <1>9 DEF BatchGet
  <2> HIDE DEF found, q
  <2>6. SeenStaysStored(q) /\ PostHasFound(q)
    BY <1>2, <2>1, <2>3, <2>4 DEF SeenStaysStored, PostHasFound
  <2>7. QED BY <1>1, <1>2, <2>1, <2>3, <2>5, <2>6, CountLookup DEF Goto
<1>10. ASSUME NEW w \in Workers, NEW id \in Ids, WriteObject(w, id) PROVE CountInvariant'
  BY <1>1, <1>10, CountWrite
<1>11. ASSUME NEW w \in Workers, UpdateMetadata(w) PROVE CountInvariant'
  BY <1>1, <1>11, CountSettled
<1>12. ASSUME NEW w \in Workers, PutNewMetadata(w) PROVE FALSE
  BY <1>2, <1>12 DEF PutNewMetadata, PostHasFound
\* Nothing is deleted, expires or is cut off in these instances.
<1>13. ASSUME NEW w \in Workers,
              \/ GetObjectForDelete(w) \/ GetCollectionForDelete(w)
              \/ PutStaleMetadata(w) \/ QueryKeys(w) \/ ListCollections(w)
              \/ \E key \in Ids \cup {Metadata} : EraseItem(w, key)
              \/ \E c \in Collections : GetListed(w, c)
              \/ Crash(w) \/ PreconditionUnchecked(w)
              \/ \E ids \in SUBSET Ids : FlushFails(w, ids)
       PROVE  FALSE
  <2>1. /\ ~Crash(w) /\ ~PreconditionUnchecked(w)
        /\ \A ids : ~FlushFails(w, ids)
    <3>1. ~Failing
      BY DEF Failing, CountInvariant, AddOnly
    <3>2. QED BY <3>1 DEF Crash, PreconditionUnchecked, FlushFails
  <2>2. ~GetObjectForDelete(w) /\ ~GetCollectionForDelete(w) /\ ~PutStaleMetadata(w)
    BY <1>2 DEF GetObjectForDelete, GetCollectionForDelete, PutStaleMetadata, Writing
  <2>3. ~QueryKeys(w) /\ ~ListCollections(w)
    BY <1>2 DEF QueryKeys, ListCollections, WellFormed, Writing
  <2>4. \A key : ~EraseItem(w, key)
    BY <1>2 DEF EraseItem, WellFormed, Writing
  <2>5. \A c : ~GetListed(w, c)
    BY <1>2 DEF GetListed, WellFormed, Writing
  <2>6. QED BY <1>13, <2>1, <2>2, <2>3, <2>4, <2>5
<1>14. ASSUME NEW c \in Collections, NEW id \in Ids, Sweep(c, id) PROVE FALSE
  BY <1>14 DEF Sweep, Expired, CountInvariant, StoredIds
<1>15. ASSUME UNCHANGED <<table, req, failures>> PROVE CountInvariant'
  <2>1. \A c : Owed(c)' = Owed(c) /\ StoredIds(c)' = StoredIds(c)
    BY <1>15 DEF Owed, NewIds, StoredIds, table
  <2>2. CountCoversObjects'
    BY <1>1, <1>15, <2>1, CountKept DEF CountInvariant
  <2>3. QED
    BY <1>1, <1>15, <2>1, <2>2 DEF CountInvariant, SeenStaysStored, PostHasFound, table
<1>16. ASSUME NEW c \in Collections, NEW ims, ReadCollection(c, ims) PROVE CountInvariant'
  BY <1>15, <1>16 DEF ReadCollection
<1>17. ASSUME Tick PROVE CountInvariant'
  BY <1>15, <1>17 DEF Tick
<1>18. ASSUME NEW c \in Collections, PropagateIndex(c) PROVE CountInvariant'
  BY <1>15, <1>18 DEF PropagateIndex
<1>19. CASE UNCHANGED vars
  BY <1>15, <1>19 DEF vars, table
<1>20. QED
  BY <1>4, <1>5, <1>6, <1>7, <1>8, <1>9, <1>10, <1>11, <1>12, <1>13, <1>14, <1>16,
     <1>17, <1>18, <1>19
     DEF Next, Handle

\* "concurrent writers do not clobber each other's count/usage increments", for
\* any number of writers, ids and collections, in instances that only add.
THEOREM CountsCover == ASSUME AddOnly PROVE Spec => []CountCoversObjects
<1>1. Init => CountInvariant
  BY CountInit
<1>2. CountInvariant /\ [Next]_vars => CountInvariant'
  BY CountNext
<1>3. CountInvariant => CountCoversObjects
  BY DEF CountInvariant
<1>4. QED BY <1>1, <1>2, <1>3, PTL DEF Spec

(***************************************************************************)
(* Times and incremental reads.                                            *)
(***************************************************************************)
\* A set of numbers below a bound has a largest element.
LEMMA HasMaximum ==
  ASSUME NEW S \in SUBSET Nat, S # {}, NEW m \in Nat, \A s \in S : s <= m
  PROVE  \E t \in S : \A s \in S : s <= t
<1> DEFINE bounds == {b \in Nat : \A s \in S : s <= b}
<1>1. PICK t \in bounds : \A b \in bounds : ~(b < t)
  <2>1. bounds \subseteq Nat /\ bounds # {}
    OBVIOUS
  <2>2. PICK t \in bounds : \A b \in bounds : ~(<<b, t>> \in OpToRel(<, Nat))
    <3> HIDE DEF bounds
    <3> QED BY <2>1, NatLessThanWellFounded, WFMin, Zenon
  <2>3. \A b \in bounds : <<b, t>> \in OpToRel(<, Nat) <=> b < t
    BY <2>1 DEF OpToRel
  <2> QED BY <2>2, <2>3
<1>2. CASE t \in S
  BY <1>2
<1>3. CASE t \notin S
  <2>1. PICK s \in S : TRUE
    OBVIOUS
  <2>2. t - 1 \in bounds
    BY <1>3, <2>1
  <2> QED BY <1>1, <2>2
<1> QED BY <1>2, <1>3

\* The requests that hold the timestamp they will write with.
Stamped == {"batchGet", "write", "metadata", "list", "getListed", "query", "erase"}

\* Nothing carries a time that has not come yet.
Past ==
  /\ \A c \in Collections, id \in Ids : objs[c][id] # None => objs[c][id].modified <= now
  /\ \A c \in Collections : meta[c] # None => meta[c].modified <= now
  /\ \A w \in Workers : req[w].pc \in Stamped => req[w].ts <= now

\* A step of the table and of the requests, as far as times go: an object is
\* kept, dropped, or written with the time its writer holds, and a request
\* that holds a time has held it before or has just read the clock.
Ages ==
  /\ \A c \in Collections, id \in Ids :
       objs'[c][id] # None =>
         \/ objs'[c][id] = objs[c][id]
         \/ \E w \in Workers :
              req[w].pc = "write" /\ objs'[c][id].modified = req[w].ts
  /\ \A c \in Collections :
       meta'[c] # None =>
         \/ meta'[c] = meta[c]
         \/ \E w \in Workers :
              req[w].pc = "metadata" /\ meta'[c].modified = req[w].ts
  /\ \A w \in Workers :
       req'[w].pc \in Stamped =>
         \/ req[w].pc \in Stamped /\ req'[w].ts = req[w].ts
         \/ req'[w].ts = now
  /\ now' \in {now, now + 1}

\* A request that moves on or ends leaves the others alone.
LEMMA StampKept ==
  ASSUME TypeOK, NEW w \in Workers, NEW q, req' = [req EXCEPT ![w] = q],
         \/ q.pc \notin Stamped
         \/ req[w].pc \in Stamped /\ q.ts = req[w].ts
         \/ q.ts = now
  PROVE  \A v \in Workers :
           req'[v].pc \in Stamped =>
             \/ req[v].pc \in Stamped /\ req'[v].ts = req[v].ts
             \/ req'[v].ts = now
<1> SUFFICES ASSUME NEW v \in Workers, req'[v].pc \in Stamped
             PROVE  \/ req[v].pc \in Stamped /\ req'[v].ts = req[v].ts
                    \/ req'[v].ts = now
  OBVIOUS
<1>1. req'[v] = IF v = w THEN q ELSE req[v]
  BY DEF TypeOK
<1> QED BY <1>1

\* An invocation that answers, dies or has nothing left to do holds no time.
LEMMA EndedUnstamped == NoRequest.pc \notin Stamped
BY DEF NoRequest, Stamped

\* A step of one request that leaves the table alone.
LEMMA LookupAges ==
  ASSUME TypeOK, NEW w \in Workers, NEW q, req' = [req EXCEPT ![w] = q],
         UNCHANGED <<table, now>>,
         \/ q.pc \notin Stamped
         \/ req[w].pc \in Stamped /\ q.ts = req[w].ts
         \/ q.ts = now
  PROVE  Ages
<1>1. objs' = objs /\ meta' = meta /\ now' = now
  BY DEF table
<1>2. \A v \in Workers :
        req'[v].pc \in Stamped =>
          \/ req[v].pc \in Stamped /\ req'[v].ts = req[v].ts
          \/ req'[v].ts = now
  BY StampKept
<1> QED BY <1>1, <1>2 DEF Ages

\* The last key of a collection is gone: answer, or on to the next one.
LEMMA DoneStamp ==
  ASSUME TypeOK, NEW w \in Workers, NEW r \in Request, CollectionDone(w, r),
         req[w].pc \in Stamped, r.ts = req[w].ts
  PROVE  \E q : /\ req' = [req EXCEPT ![w] = q]
                /\ q.pc \notin Stamped \/ q.ts = req[w].ts
<1>1. CASE r.colls = {}
  BY <1>1, EndedUnstamped DEF CollectionDone, Respond
<1>2. CASE r.colls # {}
  <2>1. [r EXCEPT !.pc = "getListed", !.todo = {}].ts = r.ts
    BY DEF Request
  <2> QED BY <1>2, <2>1 DEF CollectionDone, Goto
<1> QED BY <1>1, <1>2

\* Every step of the service ages the store this way: one step per action.
LEMMA AgesNext == TypeOK /\ [Next]_vars => Ages
<1> SUFFICES ASSUME TypeOK, [Next]_vars PROVE Ages
  OBVIOUS
<1>1. \A w \in Workers : req[w] \in Request
  BY DEF TypeOK, GoodRequest
<1>2. ASSUME NEW w \in Workers, UNCHANGED <<table, now>>, req' = [req EXCEPT ![w] = NoRequest]
      PROVE  Ages
  BY <1>2, LookupAges, EndedUnstamped
<1>3. ASSUME NEW w \in Workers, Arrive(w) PROVE Ages
  <2>1. PICK q \in Requests : Goto(w, q)
    BY <1>3 DEF Arrive
  <2>2. q.pc \notin Stamped
    BY <2>1, RequestsTyped DEF Fresh, Stamped, GoodRequest, WellFormed
  <2> QED BY <1>3, <2>1, <2>2, LookupAges DEF Arrive, Goto

<1>4. ASSUME NEW w \in Workers, GetObjectForPut(w) PROVE Ages
  <2> DEFINE r == req[w]
             found == [i \in r.todo \cap LiveIds(r.coll) |-> objs[r.coll][i].size]
             q == [r EXCEPT !.pc = "stamp", !.seen = found]
  <2>1. CASE Respond(w, 412)
    BY <1>2, <1>4, <2>1 DEF GetObjectForPut, Respond
  <2>2. CASE Goto(w, q)
    <3>1. q.pc = "stamp"
      BY <1>1 DEF Request
    <3> QED BY <1>4, <2>2, <3>1, LookupAges DEF GetObjectForPut, Goto, Stamped
  <2> QED BY <1>4, <2>1, <2>2 DEF GetObjectForPut
<1>5. ASSUME NEW w \in Workers, NEW q, Goto(w, q), UNCHANGED <<table, now>>,
             q.pc \notin Stamped \/ q.ts = now
      PROVE  Ages
  BY <1>5, LookupAges DEF Goto
<1>6. ASSUME NEW w \in Workers,
             \/ GetObjectForDelete(w) \/ CheckPrecondition(w) \/ GetCollectionForPost(w)
             \/ GetCollectionForPut(w) \/ GetCollectionForDelete(w)
      PROVE  Ages
  <2> DEFINE stamp == [req[w] EXCEPT !.pc = "stamp"]
             lookup == [req[w] EXCEPT !.pc = "getCollection"]
             found == [req[w] EXCEPT !.pc = "stamp", !.found = meta[req[w].coll]]
  <2>1. UNCHANGED <<table, now>>
    BY <1>6 DEF GetObjectForDelete, CheckPrecondition, GetCollectionForPost,
                GetCollectionForPut, GetCollectionForDelete
  <2>2. stamp.pc = "stamp" /\ lookup.pc = "getCollection" /\ found.pc = "stamp"
    BY <1>1 DEF Request
  <2>3. \/ \E status : Respond(w, status)
        \/ Goto(w, stamp) \/ Goto(w, lookup) \/ Goto(w, found)
    <3> HIDE DEF stamp, lookup, found
    <3> QED BY <1>6 DEF GetObjectForDelete, CheckPrecondition, GetCollectionForPost,
                GetCollectionForPut, GetCollectionForDelete, stamp, lookup, found
  <2>4. CASE \E status : Respond(w, status)
    BY <1>2, <2>1, <2>4 DEF Respond
  <2> HIDE DEF stamp, lookup, found
  <2>5. CASE Goto(w, stamp) \/ Goto(w, lookup) \/ Goto(w, found)
    BY <1>5, <2>1, <2>2, <2>5 DEF Stamped
  <2> QED BY <2>3, <2>4, <2>5
<1>7. ASSUME NEW w \in Workers, TakeTimestamp(w) PROVE Ages
  <2> DEFINE q == [req[w] EXCEPT !.pc = AfterStamp(req[w]), !.ts = now,
                                 !.expiry = Expiry(req[w].ttl)]
  <2>1. q.ts = now
    BY <1>1 DEF Request
  <2>2. Goto(w, q) /\ UNCHANGED <<table, now>>
    BY <1>7 DEF TakeTimestamp
  <2> HIDE DEF q
  <2> QED BY <1>5, <2>1, <2>2
<1>8. ASSUME NEW w \in Workers, BatchGet(w) PROVE Ages
  <2> DEFINE r == req[w]
             found == [i \in DOMAIN r.batch \cap LiveIds(r.coll) |-> objs[r.coll][i].size]
             q == [r EXCEPT !.pc = "write", !.expiry = Expiry(r.ttl), !.seen = found]
  <2>1. q.ts = r.ts /\ r.pc \in Stamped
    BY <1>1, <1>8 DEF Request, BatchGet, Stamped
  <2>2. Goto(w, q) /\ UNCHANGED <<table, now>>
    BY <1>8 DEF BatchGet
  <2> HIDE DEF q
  <2> QED BY <2>1, <2>2, LookupAges DEF Goto
<1>9. ASSUME NEW w \in Workers, NEW id \in Ids, WriteObject(w, id) PROVE Ages
  <2> DEFINE r == req[w]
             item == [modified |-> r.ts, size |-> r.batch[id], expiry |-> r.expiry]
             q == [r EXCEPT !.todo = r.todo \ {id},
                            !.pc = IF r.todo = {id} THEN "metadata" ELSE "write"]
  <2>1. r.coll \in Collections /\ item.modified = r.ts /\ r.pc = "write"
    BY <1>9, WrittenIsBso DEF WriteObject
  <2>2. objs' = [objs EXCEPT ![r.coll][id] = item] /\ meta' = meta /\ now' = now
    BY <1>9 DEF WriteObject
  <2>3. q.ts = r.ts /\ r.pc \in Stamped
    BY <1>1, <2>1 DEF Request, Stamped
  <2>4. req' = [req EXCEPT ![w] = q]
    BY <1>9 DEF WriteObject, Goto
  <2> HIDE DEF q, item
  <2>5. \A c \in Collections, i \in Ids :
          objs'[c][i] = IF c = r.coll /\ i = id THEN item ELSE objs[c][i]
    BY <2>1, <2>2 DEF TypeOK
  <2>6. \A v \in Workers :
          req'[v].pc \in Stamped =>
            \/ req[v].pc \in Stamped /\ req'[v].ts = req[v].ts
            \/ req'[v].ts = now
    BY <2>3, <2>4, StampKept
  <2> QED BY <2>1, <2>2, <2>5, <2>6 DEF Ages
<1>10. ASSUME NEW w \in Workers, UpdateMetadata(w) \/ PutNewMetadata(w) \/ PutStaleMetadata(w)
       PROVE  Ages
  <2> DEFINE r == req[w]
  <2>1. PICK m : /\ meta' = [meta EXCEPT ![r.coll] = m]
                 /\ m.modified = r.ts
    <3> DEFINE added(m) == Added(m, r.ts, CountDelta(r), UsageDelta(r))
               stale == [r.found EXCEPT !.modified = r.ts]
    <3>1. \A m : added(m).modified = r.ts
      BY DEF Added
    <3>2. PutStaleMetadata(w) => stale.modified = r.ts
      BY DEF TypeOK, GoodRequest, WellFormed, Request, PutStaleMetadata, Meta
    <3>3. \/ meta' = [meta EXCEPT ![r.coll] = added(meta[r.coll])]
          \/ meta' = [meta EXCEPT ![r.coll] = added(None)]
          \/ PutStaleMetadata(w) /\ meta' = [meta EXCEPT ![r.coll] = stale]
      BY <1>10 DEF UpdateMetadata, PutNewMetadata, PutStaleMetadata
    <3> HIDE DEF added, stale, r
    <3> QED BY <3>1, <3>2, <3>3
  <2>2. /\ r.pc = "metadata" /\ objs' = objs /\ now' = now
        /\ req' = [req EXCEPT ![w] = NoRequest]
    BY <1>10 DEF UpdateMetadata, PutNewMetadata, PutStaleMetadata, Respond
  <2>3. \A c \in Collections : meta'[c] = meta[c] \/ meta'[c] = m
    BY <2>1 DEF TypeOK
  <2>4. \A v \in Workers :
          req'[v].pc \in Stamped =>
            \/ req[v].pc \in Stamped /\ req'[v].ts = req[v].ts
            \/ req'[v].ts = now
    BY <2>2, EndedUnstamped, StampKept
  <2> QED BY <2>1, <2>2, <2>3, <2>4 DEF Ages
<1>11. ASSUME NEW w \in Workers, QueryKeys(w) PROVE Ages
  <2> DEFINE r == req[w]
             q == [r EXCEPT !.pc = "erase", !.todo = KeysOf(r.coll)]
  <2>1. r.pc \in Stamped /\ UNCHANGED <<table, now>> /\ q.ts = r.ts
    BY <1>1, <1>11 DEF QueryKeys, Stamped, Request
  <2>2. CASE CollectionDone(w, r)
    BY <1>1, <2>1, <2>2, DoneStamp, LookupAges
  <2>3. CASE Goto(w, q)
    <3> HIDE DEF q
    <3> QED BY <2>1, <2>3, LookupAges DEF Goto
  <2> QED BY <1>11, <2>2, <2>3 DEF QueryKeys

<1>12. ASSUME NEW w \in Workers, NEW key \in Ids \cup {Metadata}, EraseItem(w, key)
       PROVE  Ages
  <2> DEFINE r == req[w]
             shorter == [r EXCEPT !.todo = r.todo \ {key}]
             done == [r EXCEPT !.todo = {}, !.pc = "metadata"]
  <2>1. /\ r.pc \in Stamped /\ now' = now /\ shorter.ts = r.ts /\ done.ts = r.ts
        /\ r.coll \in Collections
    BY <1>1, <1>12 DEF EraseItem, Stamped, Request, TypeOK, GoodRequest, WellFormed
  <2>2. \E q : /\ req' = [req EXCEPT ![w] = q]
               /\ q.pc \notin Stamped \/ q.ts = r.ts
    <3>1. Goto(w, shorter) \/ Goto(w, done) \/ CollectionDone(w, r)
      BY <1>12 DEF EraseItem
    <3>2. CASE CollectionDone(w, r)
      BY <1>1, <2>1, <3>2, DoneStamp
    <3> HIDE DEF shorter, done
    <3> QED BY <2>1, <3>1, <3>2 DEF Goto
  <2>3. \A v \in Workers :
          req'[v].pc \in Stamped =>
            \/ req[v].pc \in Stamped /\ req'[v].ts = req[v].ts
            \/ req'[v].ts = now
    BY <2>1, <2>2, StampKept
  <2>4. \A c \in Collections, i \in Ids : objs'[c][i] \in {objs[c][i], None}
    BY <1>12, <2>1 DEF EraseItem, TypeOK
  <2>5. \A c \in Collections : meta'[c] \in {meta[c], None}
    BY <1>12, <2>1 DEF EraseItem, TypeOK
  <2> QED BY <2>1, <2>3, <2>4, <2>5 DEF Ages
<1>13. ASSUME NEW w \in Workers, ListCollections(w) PROVE Ages
  <2> DEFINE q == [req[w] EXCEPT !.colls = {c \in Collections : index[c] # None}]
  <2>1. q \in Request /\ q.ts = req[w].ts /\ req[w].pc \in Stamped
    BY <1>1, <1>13 DEF Request, ListCollections, Stamped
  <2>2. CollectionDone(w, q) /\ UNCHANGED <<table, now>>
    BY <1>13 DEF ListCollections
  <2> HIDE DEF q
  <2> QED BY <2>1, <2>2, DoneStamp, LookupAges
<1>14. ASSUME NEW w \in Workers, NEW c \in Collections, GetListed(w, c) PROVE Ages
  <2> DEFINE r == [req[w] EXCEPT !.coll = c, !.colls = @ \ {c}]
             q == [r EXCEPT !.pc = "query"]
  <2>1. r \in Request /\ r.ts = req[w].ts /\ req[w].pc \in Stamped /\ q.ts = r.ts
    BY <1>1, <1>14 DEF Request, GetListed, Stamped
  <2>2. /\ CollectionDone(w, r) \/ Goto(w, q)
        /\ UNCHANGED <<table, now>>
    BY <1>14 DEF GetListed
  <2> HIDE DEF r, q
  <2>3. CASE CollectionDone(w, r)
    BY <2>1, <2>2, <2>3, DoneStamp, LookupAges
  <2>4. CASE Goto(w, q)
    BY <2>1, <2>2, <2>4, LookupAges DEF Goto
  <2> QED BY <2>2, <2>3, <2>4
<1>15. ASSUME NEW w \in Workers, Crash(w) PROVE Ages
  BY <1>2, <1>15 DEF Crash, Failing, Goto
<1>16. ASSUME NEW w \in Workers, PreconditionUnchecked(w) PROVE Ages
  <2> DEFINE q == [req[w] EXCEPT !.pc = "getCollection"]
  <2>1. q.pc = "getCollection"
    BY <1>1 DEF Request
  <2>2. Goto(w, q) /\ UNCHANGED <<table, now>>
    BY <1>16 DEF PreconditionUnchecked, Failing
  <2> HIDE DEF q
  <2> QED BY <1>5, <2>1, <2>2 DEF Stamped
<1>17. ASSUME NEW w \in Workers, NEW ids \in SUBSET Ids, FlushFails(w, ids) PROVE Ages
  <2>1. PICK b, s, t, p : Goto(w, [req[w] EXCEPT !.batch = b, !.seen = s, !.todo = t, !.pc = p])
    BY <1>17 DEF FlushFails
  <2>2. PICK q : q = [req[w] EXCEPT !.batch = b, !.seen = s, !.todo = t, !.pc = p]
    OBVIOUS
  <2>3. q.ts = req[w].ts
    BY <1>1, <2>2 DEF Request
  <2>4. req[w].pc \in Stamped /\ UNCHANGED <<table, now>>
    BY <1>17 DEF FlushFails, Failing, Stamped
  <2> QED BY <2>1, <2>2, <2>3, <2>4, LookupAges DEF Goto
<1>18. ASSUME NEW c \in Collections, NEW id \in Ids, Sweep(c, id) PROVE Ages
  <2>1. \A d \in Collections, i \in Ids : objs'[d][i] \in {objs[d][i], None}
    BY <1>18 DEF Sweep, TypeOK
  <2> QED BY <1>18, <2>1 DEF Sweep, Ages
<1>19. ASSUME UNCHANGED <<table, req>>, now' \in {now, now + 1} PROVE Ages
  BY <1>19 DEF Ages, table
<1>20. CASE Tick
  BY <1>19, <1>20 DEF Tick
<1>21. CASE \/ \E c \in Collections, ims \in OptHeaders : ReadCollection(c, ims)
            \/ \E c \in Collections : PropagateIndex(c)
  BY <1>19, <1>21 DEF ReadCollection, PropagateIndex
<1>22. CASE UNCHANGED vars
  BY <1>19, <1>22 DEF vars, table
<1> QED
  BY <1>3, <1>4, <1>6, <1>7, <1>8, <1>9, <1>10, <1>11, <1>12, <1>13, <1>14, <1>15,
     <1>16, <1>17, <1>18, <1>20, <1>21, <1>22
     DEF Next, Handle

\* What a client that read a collection between two writes still knows about
\* an object: it holds that version, or the version is newer than its read,
\* or the object has expired; and no time taken before the read is about to
\* be written.
Remembered(b, id) ==
  \/ b.modified >= reader.at
  \/ Expired(b)
  \/ id \in DOMAIN reader.held /\ reader.held[id] = b.modified

ReadInvariant ==
  /\ TypeOK
  /\ Past
  /\ reader # None =>
       /\ reader.coll \in Collections
       /\ reader.at \in Nat /\ reader.last \in Nat /\ reader.at <= now
       /\ reader.quiet =>
            /\ \A w \in Workers : req[w].pc \in Stamped => req[w].ts >= reader.at
            /\ \A id \in Ids :
                 objs[reader.coll][id] # None => Remembered(objs[reader.coll][id], id)

\* Nothing has been read or stored at first.
LEMMA ReadInit == Init => ReadInvariant
<1> SUFFICES ASSUME Init PROVE ReadInvariant
  OBVIOUS
<1>1. TypeOK
  BY TypeInit
<1>2. Past
  BY EndedUnstamped DEF Init, Past, Stamped
<1> QED BY <1>1, <1>2 DEF Init, ReadInvariant

\* No time is written before it has come.
LEMMA PastKept == TypeOK /\ TypeOK' /\ Past /\ Ages => Past'
<1> SUFFICES ASSUME TypeOK, TypeOK', Past, Ages PROVE Past'
  OBVIOUS
<1>1. now \in Nat /\ now' \in Nat /\ now <= now'
  BY DEF TypeOK, Ages
<1>2. \A w \in Workers : req[w].ts \in Nat /\ req'[w].ts \in Nat
  BY DEF TypeOK, GoodRequest, Request
<1>3. \A w \in Workers : req[w].pc \in {"write", "metadata"} => req[w].ts <= now
  BY DEF Past, Stamped
<1>4. ASSUME NEW c \in Collections, NEW id \in Ids, objs'[c][id] # None
      PROVE  objs'[c][id].modified <= now'
  <2>1. objs'[c][id].modified \in Nat
    BY <1>4 DEF TypeOK, Bso
  <2>2. objs'[c][id].modified <= now
    BY <1>3, <1>4 DEF Ages, Past
  <2> QED BY <1>1, <2>1, <2>2
<1>5. ASSUME NEW c \in Collections, meta'[c] # None PROVE meta'[c].modified <= now'
  <2>1. meta'[c].modified \in Nat
    BY <1>5 DEF TypeOK, Meta
  <2>2. meta'[c].modified <= now
    BY <1>3, <1>5 DEF Ages, Past
  <2> QED BY <1>1, <2>1, <2>2
<1>6. ASSUME NEW w \in Workers, req'[w].pc \in Stamped PROVE req'[w].ts <= now'
  <2>1. req'[w].ts <= now
    BY <1>1, <1>6 DEF Ages, Past
  <2> QED BY <1>1, <1>2, <2>1
<1> QED BY <1>4, <1>5, <1>6 DEF Past

\* X-Last-Modified is one of the times the collection holds, or zero.
LEMMA LastModifiedTyped ==
  ASSUME TypeOK, Past, NEW c \in Collections
  PROVE  LastModified(c) \in Nat
<1> DEFINE stamps == {objs[c][id].modified : id \in LiveIds(c)} \cup {0}
<1>1. \A id \in LiveIds(c) : objs[c][id] \in Bso /\ objs[c][id].modified <= now
  BY DEF LiveIds, Live, TypeOK, Past
<1>2. stamps \in SUBSET Nat
  BY <1>1 DEF Bso
<1>3. now \in Nat /\ \A s \in stamps : s <= now
  BY <1>1 DEF TypeOK
<1>4. stamps # {}
  OBVIOUS
<1>5. LastModified(c) = CHOOSE t \in stamps : \A s \in stamps : s <= t
  BY DEF LastModified
<1> HIDE DEF stamps
<1>6. \E t \in stamps : \A s \in stamps : s <= t
  BY <1>2, <1>3, <1>4, HasMaximum
<1>7. LastModified(c) \in stamps
  BY <1>5, <1>6
<1> QED BY <1>2, <1>7

\* A step that reads nothing keeps what the last reader knows.
LEMMA ReaderKept ==
  ASSUME ReadInvariant, TypeOK', Past', Ages, reader' = reader
  PROVE  ReadInvariant'
<1> SUFFICES ASSUME reader # None
             PROVE  /\ reader.at <= now'
                    /\ reader.quiet =>
                         /\ \A w \in Workers : req'[w].pc \in Stamped => req'[w].ts >= reader.at
                         /\ \A id \in Ids : objs'[reader.coll][id] # None =>
                              Remembered(objs[reader.coll][id], id)'
  BY DEF ReadInvariant
<1>1. /\ reader.coll \in Collections /\ reader.at \in Nat /\ reader.at <= now
      /\ now \in Nat /\ now' \in Nat /\ now <= now' /\ TypeOK
  BY DEF ReadInvariant, TypeOK, Ages
<1>2. \A w \in Workers : req[w].ts \in Nat /\ req'[w].ts \in Nat
  BY <1>1 DEF TypeOK, GoodRequest, Request
<1>3. reader.at <= now'
  BY <1>1
<1>4. ASSUME reader.quiet, NEW w \in Workers, req'[w].pc \in Stamped
      PROVE  req'[w].ts >= reader.at
  BY <1>1, <1>2, <1>4 DEF Ages, ReadInvariant
<1>5. ASSUME reader.quiet, NEW id \in Ids, objs'[reader.coll][id] # None
      PROVE  Remembered(objs[reader.coll][id], id)'
  <2> DEFINE old == objs[reader.coll][id]
             new == objs'[reader.coll][id]
  <2>1. CASE new = old
    <3>1. Remembered(old, id) /\ old \in Bso
      BY <1>1, <1>5, <2>1 DEF ReadInvariant, TypeOK
    <3>2. Expired(old) => new.expiry # None /\ new.expiry * TicksPerSecond < now'
      <4>1. TicksPerSecond \in Nat /\ old.expiry \in Nat \cup {None}
        BY <3>1, StorageAssumption DEF Bso
      <4>2. old.expiry # None => old.expiry * TicksPerSecond \in Nat
        BY <4>1
      <4> QED BY <1>1, <2>1, <4>2 DEF Expired
    <3> QED BY <2>1, <3>1, <3>2 DEF Remembered, Expired
  <2>2. ASSUME NEW w \in Workers, req[w].pc = "write", new.modified = req[w].ts
        PROVE  Remembered(objs[reader.coll][id], id)'
    <3>1. req[w].ts >= reader.at
      BY <1>5, <2>2 DEF ReadInvariant, Stamped
    <3> QED BY <2>2, <3>1 DEF Remembered
  <2> QED BY <1>1, <1>5, <2>1, <2>2 DEF Ages
<1> QED BY <1>3, <1>4, <1>5

\* A client that reads while no request is in flight learns every version
\* there is; one that reads at another time is promised nothing.
LEMMA ReaderLearns ==
  ASSUME ReadInvariant, TypeOK', Past', Ages, NEW c \in Collections,
         NEW ims, ReadCollection(c, ims), reader' # reader
  PROVE  ReadInvariant'
<1>1. /\ reader' = [coll |-> c, at |-> now, last |-> LastModified(c),
                    quiet |-> \A w \in Workers : req[w].pc = "idle",
                    held |-> [id \in LiveIds(c) |-> objs[c][id].modified]]
      /\ objs' = objs /\ req' = req /\ now' = now
  BY DEF ReadCollection, table
<1>2. LastModified(c) \in Nat
  BY LastModifiedTyped DEF ReadInvariant
<1> PICK held : held = [id \in LiveIds(c) |-> objs[c][id].modified]
  OBVIOUS
<1> PICK new : new = reader'
  OBVIOUS
<1>3. /\ new.coll = c /\ new.at = now /\ new.last \in Nat /\ new.held = held
      /\ new.quiet = \A w \in Workers : req[w].pc = "idle"
  BY <1>1, <1>2
<1>4. now \in Nat
  BY DEF ReadInvariant, TypeOK
<1>5. ASSUME NEW id \in Ids, objs[c][id] # None
      PROVE  \/ Expired(objs[c][id])
             \/ id \in DOMAIN held /\ held[id] = objs[c][id].modified
  BY <1>5 DEF LiveIds, Live
<1>6. ASSUME new.quiet, NEW w \in Workers PROVE req'[w].pc \notin Stamped
  BY <1>1, <1>3, <1>6 DEF Stamped
<1>7. \A id \in Ids : objs'[new.coll][id] # None => Remembered(objs[new.coll][id], id)'
  BY <1>1, <1>3, <1>5 DEF Remembered, Expired
<1> QED BY <1>1, <1>3, <1>4, <1>6, <1>7 DEF ReadInvariant

\* Only a read changes what the last reader holds.
LEMMA ReadNext == ReadInvariant /\ [Next]_vars => ReadInvariant'
<1> SUFFICES ASSUME ReadInvariant, [Next]_vars PROVE ReadInvariant'
  OBVIOUS
<1>1. TypeOK' /\ Ages
  BY TypeNext, AgesNext DEF ReadInvariant
<1>2. Past'
  BY <1>1, PastKept DEF ReadInvariant
<1>3. CASE reader' = reader
  BY <1>1, <1>2, <1>3, ReaderKept
<1>4. CASE reader' # reader
  <2>1. ASSUME NEW w \in Workers,
               \/ Arrive(w) \/ GetObjectForPut(w) \/ GetObjectForDelete(w)
               \/ CheckPrecondition(w) \/ GetCollectionForPost(w)
               \/ GetCollectionForPut(w) \/ GetCollectionForDelete(w)
               \/ TakeTimestamp(w) \/ BatchGet(w)
        PROVE  FALSE
    BY <1>4, <2>1 DEF Arrive, GetObjectForPut, GetObjectForDelete,
       CheckPrecondition, GetCollectionForPost, GetCollectionForPut,
       GetCollectionForDelete, TakeTimestamp, BatchGet
  <2>2. ASSUME NEW w \in Workers,
               \/ \E id \in Ids : WriteObject(w, id)
               \/ UpdateMetadata(w) \/ PutNewMetadata(w) \/ PutStaleMetadata(w)
               \/ QueryKeys(w) \/ ListCollections(w)
               \/ \E key \in Ids \cup {Metadata} : EraseItem(w, key)
               \/ \E c \in Collections : GetListed(w, c)
               \/ Crash(w) \/ PreconditionUnchecked(w)
               \/ \E ids \in SUBSET Ids : FlushFails(w, ids)
        PROVE  FALSE
    BY <1>4, <2>2 DEF WriteObject, UpdateMetadata, PutNewMetadata, PutStaleMetadata,
       QueryKeys, ListCollections, EraseItem, GetListed, Crash, PreconditionUnchecked,
       FlushFails, Failing
  <2>3. ~Tick /\ (\A c \in Collections, id \in Ids : ~Sweep(c, id))
          /\ (\A c \in Collections : ~PropagateIndex(c)) /\ ~UNCHANGED vars
    BY <1>4 DEF Tick, Sweep, PropagateIndex, vars
  <2>4. PICK c \in Collections, ims \in OptHeaders : ReadCollection(c, ims)
    BY <2>1, <2>2, <2>3 DEF Next, Handle
  <2> QED BY <1>1, <1>2, <1>4, <2>4, ReaderLearns
<1> QED BY <1>3, <1>4

\* Incremental sync (newer=X-Last-Modified) is complete for every number of
\* clients, collections and objects, whatever fails in between: a client that
\* read the collection between two writes, later than its newest object,
\* misses no version that it does not already hold.
THEOREM IncrementalReads == Spec => []IncrementalReadComplete
<1>1. Init => ReadInvariant
  BY ReadInit
<1>2. ReadInvariant /\ [Next]_vars => ReadInvariant'
  BY ReadNext
<1>3. ReadInvariant => IncrementalReadComplete
  <2> SUFFICES ASSUME ReadInvariant, reader # None, reader.quiet, reader.at > reader.last,
                      NEW id \in LiveIds(reader.coll)
               PROVE  \/ objs[reader.coll][id].modified > reader.last
                      \/ id \in DOMAIN reader.held /\ reader.held[id] = objs[reader.coll][id].modified
    BY DEF IncrementalReadComplete
  <2> PICK b : b = objs[reader.coll][id]
    OBVIOUS
  <2>1. id \in Ids /\ b # None /\ ~Expired(b)
    BY DEF LiveIds, Live
  <2>2. Remembered(b, id) /\ b.modified \in Nat /\ reader.at \in Nat /\ reader.last \in Nat
    BY <2>1 DEF ReadInvariant, TypeOK, Bso
  <2> QED BY <2>1, <2>2 DEF Remembered
<1> QED BY <1>1, <1>2, <1>3, PTL DEF Spec
=============================================================================
