------------------------ MODULE StorageSerialProofs -------------------------
(***************************************************************************)
(* What the storage service promises a client that is alone: one request   *)
(* at a time, and no call that fails.  With two requests at once, or with  *)
(* one that is cut off, each of these promises is broken; the README says  *)
(* how.                                                                    *)
(***************************************************************************)
EXTENDS StorageManagerProofs

OneAtATime ==
  /\ \A v, w \in Workers : v = w
  /\ MaxFailures = 0

(***************************************************************************)
(* The inductive invariant.                                                *)
(***************************************************************************)
UsageOf(c) == IF meta[c] = None THEN 0 ELSE meta[c].usage

\* The stored payloads of c but those of some ids.
Kept(c, ids) == [id \in StoredIds(c) \ ids |-> objs[c][id].size]

\* A collection with objects has its metadata ...
Listed(c) == StoredIds(c) # {} => meta[c] # None

\* ... which counts at least what is stored and is stamped last.
Covered(c) ==
  meta[c] # None =>
    /\ meta[c].count >= Cardinality(StoredIds(c))
    /\ meta[c].usage >= Cardinality(Bytes(StoredPayloads(c)))
    /\ \A id \in StoredIds(c) : objs[c][id].modified <= meta[c].modified

\* The request removes the whole collection c, object by object.
Emptying(r, c) == r.coll = c /\ r.pc = "erase" /\ r.op \in {"DelColl", "DelAll"}

\* When the deltas of a write are added, the metadata covers what was stored
\* before, without what is overwritten, and the batch.
Ahead(r) ==
  (r.op \in Writing /\ r.pc \in {"stamp", "batchGet", "write", "metadata"}) =>
    /\ CountOf(r.coll) + CountDelta(r) >= Cardinality(StoredIds(r.coll) \cup DOMAIN r.batch)
    /\ UsageOf(r.coll) - Cardinality(Bytes(r.seen))
         >= Cardinality(Bytes(Kept(r.coll, DOMAIN r.batch)))

\* Before the write starts nothing of the batch has landed, and only PUT of an
\* object has looked for what it overwrites.  The requests for one object are
\* for one, and only a whole collection is deleted with its metadata.
Prepared(r) ==
  /\ (r.op \in Writing /\ r.pc \notin {"write", "metadata"}) =>
       /\ r.todo = DOMAIN r.batch
       /\ r.op # "PutBso" \/ r.pc = "getObject" => r.seen = NoPayload
  /\ r.op \in {"PutBso", "DelBso"} => \A i, j \in r.todo : i = j
  /\ r.op \in {"DelBso", "DelIds"} => r.todo \subseteq Ids

\* What has landed is what the batch says.
Landed(r) ==
  /\ (r.op \in Writing /\ r.pc \in {"write", "metadata"}) =>
       \A id \in DOMAIN r.batch \ r.todo :
         id \in StoredIds(r.coll) => objs[r.coll][id].size = r.batch[id]
  /\ r.pc = "metadata" => r.todo = {}

\* A write with X-If-Unmodified-Since that was let through: what it has still
\* to overwrite is no newer than the header.
Passed(r) ==
  (/\ r.op \in Writing /\ r.ius # None
   /\ \/ r.pc \in {"stamp", "batchGet", "write"}
      \/ r.pc = "getCollection" /\ r.op = "PostColl")
    => \A id \in r.todo : Live(r.coll, id) # None => objs[r.coll][id].modified <= r.ius

\* A deletion of the whole collection has the rest of it on its list.
Emptied(r) ==
  (r.pc = "erase" /\ r.op \in {"DelColl", "DelAll"}) =>
    /\ StoredIds(r.coll) \subseteq r.todo
    /\ meta[r.coll] # None => Metadata \in r.todo

\* Nobody changes the metadata between the lookup and its use.
Fetched(r) ==
  (/\ r.op \in {"PostColl", "PutColl", "DelIds"}
   /\ r.pc \in {"stamp", "batchGet", "write", "metadata", "erase"})
    => r.found = meta[r.coll]

\* A request that has its timestamp is later than all that is stored.
Latest(r) ==
  r.pc \in Stamped =>
    \A c \in Collections :
      /\ \A id \in StoredIds(c) : objs[c][id].modified <= r.ts
      /\ meta[c] # None => meta[c].modified <= r.ts

Good(r) ==
  /\ Ahead(r) /\ Prepared(r) /\ Landed(r) /\ Passed(r)
  /\ Emptied(r) /\ Fetched(r) /\ Latest(r)

InFlight == {req[w] : w \in Workers}

SerialInvariant ==
  /\ TypeOK /\ Past /\ failures = 0
  /\ \A r \in InFlight : Good(r)
  /\ \A c \in Collections :
       /\ (\A r \in InFlight : ~Landing(r, c)) => Covered(c)
       /\ (\A r \in InFlight : ~Landing(r, c) /\ ~Emptying(r, c)) => Listed(c)
  /\ DeletedMeansGone

(***************************************************************************)
(* Counting bytes.                                                         *)
(***************************************************************************)
\* A byte of a payload map is an id and a position in its payload.
LEMMA ByteOf ==
  ASSUME NEW p, NEW b
  PROVE  b \in Bytes(p) <=> \E i \in DOMAIN p : \E n \in 1 .. p[i] : b = <<i, n>>
BY DEF Bytes

\* A part of a payload map has no more bytes.
LEMMA FewerBytes ==
  ASSUME NEW p \in Payloads, NEW q \in Payloads,
         \A i \in DOMAIN p : i \in DOMAIN q /\ p[i] = q[i]
  PROVE  Cardinality(Bytes(p)) <= Cardinality(Bytes(q))
<1>1. Bytes(p) \subseteq Bytes(q)
  <2> SUFFICES ASSUME NEW b \in Bytes(p) PROVE b \in Bytes(q)
    OBVIOUS
  <2>1. PICK i \in DOMAIN p : \E n \in 1 .. p[i] : b = <<i, n>>
    BY ByteOf
  <2> QED BY <2>1, ByteOf
<1> QED BY <1>1, BytesCounted, FS_Subset

\* Two maps that share no id have the bytes of both.
LEMMA BytesOfParts ==
  ASSUME NEW p \in Payloads, NEW q1 \in Payloads, NEW q2 \in Payloads,
         DOMAIN q1 \cap DOMAIN q2 = {},
         \A i \in DOMAIN q1 : i \in DOMAIN p /\ q1[i] = p[i],
         \A i \in DOMAIN q2 : i \in DOMAIN p /\ q2[i] = p[i]
  PROVE  Cardinality(Bytes(q1)) + Cardinality(Bytes(q2)) <= Cardinality(Bytes(p))
<1> DEFINE B1 == Bytes(q1)
           B2 == Bytes(q2)
<1>1. B1 \cup B2 \subseteq Bytes(p)
  <2> SUFFICES ASSUME NEW b \in B1 \cup B2 PROVE b \in Bytes(p)
    OBVIOUS
  <2>1. CASE b \in B1
    <3>1. PICK i \in DOMAIN q1 : \E n \in 1 .. q1[i] : b = <<i, n>>
      BY <2>1, ByteOf
    <3> QED BY <3>1, ByteOf
  <2>2. CASE b \in B2
    <3>1. PICK i \in DOMAIN q2 : \E n \in 1 .. q2[i] : b = <<i, n>>
      BY <2>2, ByteOf
    <3> QED BY <3>1, ByteOf
  <2> QED BY <2>1, <2>2
<1>2. B1 \cap B2 = {}
  <2> SUFFICES ASSUME NEW b \in B1, b \in B2 PROVE FALSE
    OBVIOUS
  <2>1. PICK i \in DOMAIN q1 : \E n \in 1 .. q1[i] : b = <<i, n>>
    BY ByteOf
  <2>2. PICK j \in DOMAIN q2 : \E n \in 1 .. q2[j] : b = <<j, n>>
    BY ByteOf
  <2> QED BY <2>1, <2>2
<1>3. /\ IsFiniteSet(B1) /\ IsFiniteSet(B2) /\ IsFiniteSet(Bytes(p))
      /\ Cardinality(B1) \in Nat /\ Cardinality(B2) \in Nat /\ Cardinality(Bytes(p)) \in Nat
  BY BytesCounted
<1> HIDE DEF B1, B2
<1>4. Cardinality(B1 \cup B2) = Cardinality(B1) + Cardinality(B2) - Cardinality(B1 \cap B2)
  BY <1>3, FS_Union
<1>5. Cardinality(B1 \cap B2) = 0
  BY <1>2, FS_EmptySet
<1>6. Cardinality(B1 \cup B2) <= Cardinality(Bytes(p))
  BY <1>1, <1>3, FS_Subset
<1>7. Cardinality(B1) + Cardinality(B2) <= Cardinality(Bytes(p))
  BY <1>3, <1>4, <1>5, <1>6
<1> QED BY <1>7 DEF B1, B2

\* A map made of two has at most the bytes of both.
LEMMA BytesTogether ==
  ASSUME NEW p \in Payloads, NEW q1 \in Payloads, NEW q2 \in Payloads,
         \A i \in DOMAIN p : \/ i \in DOMAIN q1 /\ p[i] = q1[i]
                             \/ i \in DOMAIN q2 /\ p[i] = q2[i]
  PROVE  Cardinality(Bytes(p)) <= Cardinality(Bytes(q1)) + Cardinality(Bytes(q2))
<1> DEFINE B1 == Bytes(q1)
           B2 == Bytes(q2)
<1>1. Bytes(p) \subseteq B1 \cup B2
  <2> SUFFICES ASSUME NEW b \in Bytes(p) PROVE b \in B1 \cup B2
    OBVIOUS
  <2>1. PICK i \in DOMAIN p : \E n \in 1 .. p[i] : b = <<i, n>>
    BY ByteOf
  <2> QED BY <2>1, ByteOf
<1>3. /\ IsFiniteSet(B1) /\ IsFiniteSet(B2) /\ IsFiniteSet(Bytes(p))
      /\ Cardinality(B1) \in Nat /\ Cardinality(B2) \in Nat /\ Cardinality(Bytes(p)) \in Nat
  BY BytesCounted
<1> HIDE DEF B1, B2
<1>4. /\ IsFiniteSet(B1 \cup B2)
      /\ Cardinality(B1 \cup B2) = Cardinality(B1) + Cardinality(B2) - Cardinality(B1 \cap B2)
  BY <1>3, FS_Union
<1>5. Cardinality(B1 \cap B2) \in Nat
  BY <1>3, FS_Intersection, FS_CardinalityType
<1>6. Cardinality(Bytes(p)) <= Cardinality(B1 \cup B2)
  BY <1>1, <1>3, <1>4, FS_Subset
<1>7. Cardinality(Bytes(p)) <= Cardinality(B1) + Cardinality(B2)
  BY <1>3, <1>4, <1>5, <1>6
<1> QED BY <1>7 DEF B1, B2

\* The stored payloads are payloads, and so is what remains without some ids.
LEMMA KeptTyped ==
  ASSUME TypeOK, NEW c \in Collections, NEW ids
  PROVE  Kept(c, ids) \in Payloads /\ StoredPayloads(c) \in Payloads
<1>1. \A id \in StoredIds(c) : objs[c][id].size \in Sizes
  BY DEF StoredIds, TypeOK, Bso
<1>2. StoredIds(c) \ ids \in SUBSET Ids /\ StoredIds(c) \in SUBSET Ids
  BY DEF StoredIds
<1>3. Kept(c, ids) \in [StoredIds(c) \ ids -> Sizes]
  BY <1>1 DEF Kept
<1>4. StoredPayloads(c) \in [StoredIds(c) -> Sizes]
  BY <1>1 DEF StoredPayloads
<1> QED BY <1>2, <1>3, <1>4 DEF Payloads

\* The sets a request counts are finite.
LEMMA SetsCounted ==
  ASSUME NEW r \in Request, NEW c
  PROVE  /\ IsFiniteSet(NewIds(r)) /\ Cardinality(NewIds(r)) \in Nat
         /\ IsFiniteSet(StoredIds(c) \cup DOMAIN r.batch)
         /\ Cardinality(StoredIds(c) \cup DOMAIN r.batch) \in Nat
         /\ DOMAIN r.batch \subseteq Ids /\ r.batch \in Payloads /\ r.seen \in Payloads
<1>1. r.batch \in Payloads /\ r.seen \in Payloads
  BY DEF Request
<1>2. DOMAIN r.batch \in SUBSET Ids
  BY <1>1 DEF Payloads
<1>3. NewIds(r) \in SUBSET Ids /\ StoredIds(c) \cup DOMAIN r.batch \in SUBSET Ids
  BY <1>2 DEF NewIds, StoredIds
<1> QED BY <1>1, <1>2, <1>3, FS_Subset, FS_CardinalityType, StorageAssumption

\* The metadata of a collection nobody is writing to is ahead of any batch
\* whose request saw only objects that are stored.
LEMMA AheadStart ==
  ASSUME TypeOK, NEW r \in Request, r.coll \in Collections,
         Covered(r.coll), Listed(r.coll),
         \A i \in DOMAIN r.seen :
           i \in DOMAIN r.batch /\ i \in StoredIds(r.coll) /\ r.seen[i] = objs[r.coll][i].size
  PROVE  Ahead(r)
<1> PICK c \in Collections : c = r.coll
  OBVIOUS
<1> DEFINE S == StoredIds(c)
           B == DOMAIN r.batch
           N == NewIds(r)
<1>1. /\ IsFiniteSet(S) /\ Cardinality(S) \in Nat
      /\ IsFiniteSet(N) /\ Cardinality(N) \in Nat
      /\ IsFiniteSet(S \cup B) /\ Cardinality(S \cup B) \in Nat
      /\ r.batch \in Payloads /\ r.seen \in Payloads
  BY Counted, SetsCounted
<1>2. CountOf(c) \in Int /\ UsageOf(c) \in Int
  BY DEF CountOf, UsageOf, TypeOK, Meta
<1>3. CountOf(c) >= Cardinality(S) /\ UsageOf(c) >= Cardinality(Bytes(StoredPayloads(c)))
  <2>1. CASE meta[c] # None
    BY <2>1 DEF Covered, CountOf, UsageOf
  <2>2. CASE meta[c] = None
    <3>1. S = {}
      BY <2>2 DEF Listed
    <3>2. Cardinality(S) = 0
      BY <3>1, FS_EmptySet
    <3>3. Bytes(StoredPayloads(c)) = {}
      <4>1. DOMAIN StoredPayloads(c) = {}
        BY <3>1 DEF StoredPayloads
      <4> QED BY <4>1 DEF Bytes
    <3>4. Cardinality(Bytes(StoredPayloads(c))) = 0
      BY <3>3, FS_EmptySet
    <3>5. CountOf(c) = 0 /\ UsageOf(c) = 0
      BY <2>2 DEF CountOf, UsageOf
    <3> QED BY <3>2, <3>4, <3>5
  <2> QED BY <2>1, <2>2
<1>4. CountOf(c) + CountDelta(r) >= Cardinality(S \cup B)
  <2>1. S \cup B \subseteq S \cup N
    BY DEF NewIds
  <2> HIDE DEF S, B, N
  <2>2. /\ IsFiniteSet(S \cup N)
        /\ Cardinality(S \cup N) = Cardinality(S) + Cardinality(N) - Cardinality(S \cap N)
    BY <1>1, FS_Union
  <2>3. Cardinality(S \cap N) \in Nat
    BY <1>1, FS_Intersection, FS_CardinalityType
  <2>4. Cardinality(S \cup B) <= Cardinality(S \cup N)
    BY <2>1, <2>2, FS_Subset
  <2>5. CountDelta(r) = Cardinality(N)
    BY DEF CountDelta, N
  <2> QED BY <1>1, <1>2, <1>3, <2>2, <2>3, <2>4, <2>5, FS_CardinalityType DEF S
<1>5. UsageOf(c) - Cardinality(Bytes(r.seen)) >= Cardinality(Bytes(Kept(c, B)))
  <2>1. Kept(c, B) \in Payloads /\ StoredPayloads(c) \in Payloads
    BY KeptTyped
  <2>2. \A i \in DOMAIN Kept(c, B) :
          i \in DOMAIN StoredPayloads(c) /\ Kept(c, B)[i] = StoredPayloads(c)[i] /\ i \notin B
    BY DEF Kept, StoredPayloads
  <2>3. \A i \in DOMAIN r.seen :
          i \in DOMAIN StoredPayloads(c) /\ r.seen[i] = StoredPayloads(c)[i] /\ i \in B
    BY DEF StoredPayloads
  <2>4. DOMAIN r.seen \cap DOMAIN Kept(c, B) = {}
    BY <2>2, <2>3
  <2>5. Cardinality(Bytes(r.seen)) + Cardinality(Bytes(Kept(c, B)))
          <= Cardinality(Bytes(StoredPayloads(c)))
    BY <1>1, <2>1, <2>2, <2>3, <2>4, BytesOfParts
  <2>6. /\ Cardinality(Bytes(r.seen)) \in Nat /\ Cardinality(Bytes(Kept(c, B))) \in Nat
        /\ Cardinality(Bytes(StoredPayloads(c))) \in Nat
    BY <1>1, <2>1, BytesCounted
  <2> QED BY <1>2, <1>3, <2>5, <2>6
<1> QED BY <1>4, <1>5 DEF Ahead

\* As long as its request goes on it stays ahead: what is stored outside the
\* batch does not grow.
LEMMA AheadKept ==
  ASSUME TypeOK, TypeOK', NEW r \in Request, r.coll \in Collections, Ahead(r),
         NEW q \in Request, q.coll = r.coll, q.op = r.op, q.batch = r.batch, q.seen = r.seen,
         r.pc \in {"stamp", "batchGet", "write", "metadata"},
         meta'[r.coll] = meta[r.coll],
         \A id \in Ids \ DOMAIN r.batch :
           objs'[r.coll][id] \in {objs[r.coll][id], None}
  PROVE  Ahead(q)'
<1> SUFFICES ASSUME q.op \in Writing
             PROVE  /\ CountOf(q.coll)' + CountDelta(q)
                         >= Cardinality(StoredIds(q.coll)' \cup DOMAIN q.batch)
                    /\ UsageOf(q.coll)' - Cardinality(Bytes(q.seen))
                         >= Cardinality(Bytes(Kept(q.coll, DOMAIN q.batch)'))
  BY DEF Ahead, CountDelta, NewIds
<1> PICK c \in Collections : c = r.coll
  OBVIOUS
<1> DEFINE B == DOMAIN r.batch
<1>1. /\ CountOf(c)' = CountOf(c) /\ UsageOf(c)' = UsageOf(c)
      /\ CountOf(c) \in Int /\ UsageOf(c) \in Int
  BY DEF CountOf, UsageOf, TypeOK, Meta
<1>2. CountDelta(q) = CountDelta(r) /\ CountDelta(r) \in Nat
  BY DeltasTyped DEF CountDelta, NewIds
<1>3. \A id \in StoredIds(c)' \ B : id \in StoredIds(c) /\ objs'[c][id] = objs[c][id]
  BY DEF StoredIds
<1>4. Cardinality(StoredIds(c)' \cup B) <= Cardinality(StoredIds(c) \cup B)
  <2>1. StoredIds(c)' \cup B \subseteq StoredIds(c) \cup B
    BY <1>3
  <2> QED BY <2>1, SetsCounted, FS_Subset
<1>5. PICK p \in Payloads : p = Kept(c, B)'
  <2>1. \A id \in StoredIds(c)' : objs'[c][id].size \in Sizes
    BY DEF StoredIds, TypeOK, Bso
  <2>2. Kept(c, B)' \in [StoredIds(c)' \ B -> Sizes]
    BY <2>1 DEF Kept
  <2>3. StoredIds(c)' \ B \in SUBSET Ids
    BY DEF StoredIds
  <2> QED BY <2>2, <2>3 DEF Payloads
<1>9. Kept(c, B) \in Payloads
  BY KeptTyped
<1>10. Cardinality(Bytes(p)) <= Cardinality(Bytes(Kept(c, B)))
  <2>1. \A i \in DOMAIN p : i \in DOMAIN Kept(c, B) /\ p[i] = Kept(c, B)[i]
    BY <1>3, <1>5 DEF Kept
  <2> QED BY <1>9, <2>1, FewerBytes
<1>6. /\ CountOf(c) + CountDelta(r) >= Cardinality(StoredIds(c) \cup B)
      /\ UsageOf(c) - Cardinality(Bytes(r.seen)) >= Cardinality(Bytes(Kept(c, B)))
  BY DEF Ahead
<1>7. Cardinality(StoredIds(c)' \cup B) \in Nat /\ Cardinality(StoredIds(c) \cup B) \in Nat
  <2>1. StoredIds(c)' \cup B \in SUBSET Ids /\ StoredIds(c) \cup B \in SUBSET Ids
    BY SetsCounted DEF StoredIds
  <2> QED BY <2>1, FS_Subset, FS_CardinalityType, StorageAssumption
<1>8. /\ Cardinality(Bytes(Kept(c, B))) \in Nat /\ Cardinality(Bytes(r.seen)) \in Nat
      /\ Cardinality(Bytes(p)) \in Nat
  BY <1>9, SetsCounted, BytesCounted
<1> QED BY <1>1, <1>2, <1>4, <1>5, <1>6, <1>7, <1>8, <1>10

(***************************************************************************)
(* Steps that leave the table alone.                                       *)
(***************************************************************************)
\* What holds of a request holds as long as the table stays the same: as time
\* goes by, objects only disappear.
LEMMA GoodKept ==
  ASSUME TypeOK, TypeOK', UNCHANGED table, now' \in {now, now + 1}, NEW r \in GoodRequest, Good(r)
  PROVE  Good(r)'
<1>0. /\ r \in Request
      /\ r.op \in Writing => r.coll \in Collections /\ r.todo \subseteq DOMAIN r.batch
  BY DEF GoodRequest, WellFormed, Writing
<1>1. /\ objs' = objs /\ meta' = meta
      /\ \A c : StoredIds(c)' = StoredIds(c)
  BY DEF table, StoredIds
<1>2. \A c, ids : Kept(c, ids)' = Kept(c, ids)
  BY <1>1 DEF Kept
<1>3. Ahead(r)'
  BY <1>1, <1>2 DEF Good, Ahead, CountOf, UsageOf
<1>4. Prepared(r)' /\ Landed(r)' /\ Emptied(r)' /\ Fetched(r)' /\ Latest(r)'
  BY <1>1 DEF Good, Prepared, Landed, Emptied, Fetched, Latest
<1>5. ASSUME r.op \in Writing, NEW id \in r.todo, Live(r.coll, id)' # None
      PROVE  Live(r.coll, id) # None
  <2> PICK b : b = objs[r.coll][id]
    OBVIOUS
  <2>1. id \in Ids /\ r.coll \in Collections
    BY <1>0, <1>5 DEF Request, Payloads
  <2>2. b # None /\ b \in Bso
    BY <1>1, <1>5, <2>1 DEF Live, TypeOK
  <2>3. TicksPerSecond \in Nat /\ now \in Nat
    BY StorageAssumption DEF TypeOK
  <2>4. b.expiry = None \/ ~(b.expiry * TicksPerSecond < now')
    BY <1>1, <1>5, <2>2 DEF Live, Expired
  <2>5. ~Expired(b)
    <3>1. CASE b.expiry = None
      BY <3>1 DEF Expired
    <3>2. CASE b.expiry # None
      <4>1. b.expiry * TicksPerSecond \in Nat
        BY <2>2, <2>3, <3>2 DEF Bso
      <4> QED BY <2>3, <2>4, <3>2, <4>1 DEF Expired
    <3> QED BY <3>1, <3>2
  <2> QED BY <2>2, <2>5 DEF Live
<1>6. Passed(r)'
  BY <1>1, <1>5 DEF Good, Passed
<1> QED BY <1>3, <1>4, <1>6 DEF Good

\* A free invocation expects nothing.
LEMMA NothingExpected == Good(NoRequest) /\ Good(NoRequest)'
BY DEF Good, NoRequest, Ahead, Prepared, Landed, Passed, Emptied, Fetched, Latest,
       Writing, Stamped

\* A collection nobody touches keeps its metadata good.
LEMMA CollectionKept ==
  ASSUME UNCHANGED table, NEW c
  PROVE  /\ Covered(c) => Covered(c)'
         /\ Listed(c) => Listed(c)'
<1>1. /\ objs' = objs /\ meta' = meta /\ StoredIds(c)' = StoredIds(c)
      /\ StoredPayloads(c)' = StoredPayloads(c)
  BY DEF table, StoredIds, StoredPayloads
<1> QED BY <1>1 DEF Covered, Listed

\* A step of the only request that leaves the table alone keeps the invariant
\* if the request it becomes is good.
LEMMA SerialKept ==
  ASSUME OneAtATime, SerialInvariant, TypeOK', Past', failures' = failures,
         UNCHANGED <<table, now>>,
         NEW w \in Workers, NEW q, req' = [req EXCEPT ![w] = q],
         Good(q), DeletedMeansGone',
         \A c \in Collections : Landing(req[w], c) => Landing(q, c),
         \A c \in Collections : Emptying(req[w], c) => Emptying(q, c) \/ Listed(c)
  PROVE  SerialInvariant'
<1>1. \A v \in Workers : v = w
  BY DEF OneAtATime
<1>2. InFlight = {req[w]} /\ InFlight' = {q} /\ req'[w] = q
  BY <1>1 DEF InFlight, SerialInvariant, TypeOK
<1>3. Good(q)'
  <2>1. q \in GoodRequest
    BY <1>2 DEF TypeOK
  <2> QED BY <2>1, GoodKept DEF SerialInvariant
<1>4. \A r \in InFlight' : Good(r)'
  BY <1>2, <1>3
<1>5. ASSUME NEW c \in Collections, \A r \in InFlight' : ~Landing(r, c)
      PROVE  Covered(c)'
  <2>1. ~Landing(req[w], c)
    BY <1>2, <1>5
  <2>2. Covered(c)
    BY <1>2, <2>1 DEF SerialInvariant
  <2> QED BY <2>2, CollectionKept
<1>6. ASSUME NEW c \in Collections, \A r \in InFlight' : ~Landing(r, c) /\ ~Emptying(r, c)
      PROVE  Listed(c)'
  <2>1. ~Landing(req[w], c) /\ (~Emptying(req[w], c) \/ Listed(c))
    BY <1>2, <1>6
  <2>2. Listed(c)
    BY <1>2, <2>1 DEF SerialInvariant
  <2> QED BY <2>2, CollectionKept
<1> QED BY <1>4, <1>5, <1>6 DEF SerialInvariant

\* Every request that arrives is prepared: it has its whole batch before it,
\* and POST with a header starts by checking it.
LEMMA RequestsPrepared ==
  ASSUME NEW q \in Requests
  PROVE  Prepared(q) /\ Passed(q) /\ q.pc \notin Stamped
<1>1. q \in Fresh
  BY RequestsTyped
<1>2. /\ q.seen = NoPayload /\ q.pc \notin Stamped
      /\ q.pc = "stamp" => q.op = "DelAll"
  BY <1>1 DEF Fresh, Stamped
<1>3. ASSUME NEW op \in Writing, NEW c \in Collections, NEW pc \in Labels,
             NEW batch, NEW ttl, NEW ius,
             q = BatchRequest(op, c, pc, batch, ttl, ius)
      PROVE  q.op = op /\ q.pc = pc /\ q.batch = batch /\ q.todo = DOMAIN batch /\ q.ius = ius
  BY <1>3 DEF BatchRequest, NewRequest, NoRequest
<1>4. ASSUME NEW op, NEW c \in Collections, NEW pc \in Labels, NEW ids, NEW ius,
             q = DeleteRequest(op, c, pc, ids, ius)
      PROVE  q.op = op /\ q.pc = pc /\ q.todo = ids
  BY <1>4 DEF DeleteRequest, NewRequest, NoRequest
<1>5. CASE q \in PutBsoRequests
  <2>1. PICK c \in Collections, batch \in Singles, ttl \in OptTTLs, ius \in OptHeaders :
          q = BatchRequest("PutBso", c, "getObject", batch, ttl, ius)
    BY <1>5 DEF PutBsoRequests
  <2>2. q.op = "PutBso" /\ q.pc = "getObject" /\ q.batch = batch /\ q.todo = DOMAIN batch
    BY <1>3, <2>1 DEF Writing, Labels
  <2>3. \A i, j \in DOMAIN batch : i = j
    <3>1. PICK id \in Ids : batch \in [{id} -> Sizes]
      BY <2>1 DEF Singles
    <3> QED BY <3>1
  <2> QED BY <1>2, <2>2, <2>3 DEF Prepared, Passed
<1>6. CASE q \in PostCollRequests
  <2>1. PICK c \in Collections, batch \in Payloads, ttl \in OptTTLs, ius \in OptHeaders :
          q = BatchRequest("PostColl", c, FirstCallOfPost(ius), batch, ttl, ius)
    BY <1>6 DEF PostCollRequests
  <2>2. FirstCallOfPost(ius) \in Labels
    BY DEF FirstCallOfPost, Labels
  <2>3. /\ q.op = "PostColl" /\ q.pc = FirstCallOfPost(ius) /\ q.batch = batch
        /\ q.todo = DOMAIN batch /\ q.ius = ius
    BY <1>3, <2>1, <2>2 DEF Writing
  <2> QED BY <1>2, <2>3 DEF Prepared, Passed, FirstCallOfPost
<1>7. CASE q \in PutCollRequests
  <2>1. PICK c \in Collections, batch \in Payloads, ttl \in OptTTLs, ius \in WholeSeconds :
          q = BatchRequest("PutColl", c, "getCollection", batch, ttl, ius)
    BY <1>7 DEF PutCollRequests
  <2>2. /\ q.op = "PutColl" /\ q.pc = "getCollection" /\ q.batch = batch
        /\ q.todo = DOMAIN batch
    BY <1>3, <2>1 DEF Writing, Labels
  <2> QED BY <1>2, <2>2 DEF Prepared, Passed
<1>8. CASE q \in DelBsoRequests
  <2>1. PICK c \in Collections, id \in Ids, ius \in OptHeaders :
          q = DeleteRequest("DelBso", c, "getObject", {id}, ius)
    BY <1>8 DEF DelBsoRequests
  <2>2. q.op = "DelBso" /\ q.todo = {id}
    BY <1>4, <2>1 DEF Labels
  <2> QED BY <1>2, <2>2 DEF Prepared, Passed, Writing
<1>9. CASE q \in DelIdsRequests \cup DelCollRequests \cup DelAllRequests
  <2>1. q.op \in {"DelIds", "DelColl", "DelAll"} /\ (q.op = "DelIds" => q.todo \subseteq Ids)
    <3>1. CASE q \in DelIdsRequests
      <4>1. PICK c \in Collections, ids \in (SUBSET Ids) \ {{}}, ius \in OptHeaders :
              q = DeleteRequest("DelIds", c, "getCollection", ids, ius)
        BY <3>1 DEF DelIdsRequests
      <4>2. "getCollection" \in Labels
        BY DEF Labels
      <4>3. q.op = "DelIds" /\ q.todo = ids
        BY <1>4, <4>1, <4>2
      <4> QED BY <4>1, <4>3
    <3>2. CASE q \in DelCollRequests
      <4>1. PICK c \in Collections, ius \in OptHeaders :
              q = DeleteRequest("DelColl", c, "getCollection", {}, ius)
        BY <3>2 DEF DelCollRequests
      <4>2. "getCollection" \in Labels
        BY DEF Labels
      <4>3. q.op = "DelColl"
        BY <1>4, <4>1, <4>2
      <4> QED BY <4>3
    <3>3. CASE q \in DelAllRequests
      BY <3>3 DEF DelAllRequests, NewRequest, NoRequest
    <3> QED BY <1>9, <3>1, <3>2, <3>3
  <2> QED BY <1>2, <2>1 DEF Prepared, Passed, Writing
<1> QED BY <1>5, <1>6, <1>7, <1>8, <1>9 DEF Requests

\* Only DELETE of a collection promises anything with its answer.
LEMMA NoPromise ==
  ASSUME \/ answer' = None
         \/ \E w, status : Respond(w, status) /\ (req[w].op # "DelColl" \/ status # 200)
  PROVE  DeletedMeansGone'
<1>1. CASE answer' = None
  BY <1>1 DEF DeletedMeansGone, Answered
<1>2. ASSUME NEW w, NEW status, Respond(w, status), req[w].op # "DelColl" \/ status # 200
      PROVE  DeletedMeansGone'
  <2>1. answer'.op = req[w].op /\ answer'.status = status
    BY <1>2 DEF Respond
  <2> QED BY <1>2, <2>1 DEF DeletedMeansGone, Answered
<1> QED BY <1>1, <1>2

\* The checks of a handler before it takes its timestamp.
LEMMA SerialChecks ==
  ASSUME OneAtATime, SerialInvariant, TypeOK', Past', NEW w \in Workers,
         \/ Arrive(w) \/ GetObjectForPut(w) \/ GetObjectForDelete(w)
         \/ CheckPrecondition(w) \/ GetCollectionForPost(w) \/ GetCollectionForPut(w)
         \/ GetCollectionForDelete(w)
  PROVE  SerialInvariant'
<1> PICK r : r = req[w]
  OBVIOUS
<1>1. /\ r \in Request /\ WellFormed(r) /\ Good(r) /\ r \in InFlight /\ TypeOK
      /\ r.pc = "idle" \/ r.coll \in Collections
      /\ failures' = failures /\ UNCHANGED <<table, now>>
  <2>1. r \in Request /\ WellFormed(r) /\ Good(r) /\ r \in InFlight /\ TypeOK
    BY DEF SerialInvariant, InFlight, TypeOK, GoodRequest
  <2>2. r.pc = "idle" \/ r.coll \in Collections
    BY <2>1 DEF WellFormed, Arrive, GetObjectForPut, GetObjectForDelete, CheckPrecondition,
       GetCollectionForPost, GetCollectionForPut, GetCollectionForDelete, Request
  <2>3. failures' = failures /\ UNCHANGED <<table, now>>
    BY DEF Arrive, GetObjectForPut, GetObjectForDelete, CheckPrecondition,
       GetCollectionForPost, GetCollectionForPut, GetCollectionForDelete
  <2> QED BY <2>1, <2>2, <2>3
<1>2. r.pc \in {"idle", "getObject", "checkHeader", "getCollection"}
  BY DEF Arrive, GetObjectForPut, GetObjectForDelete, CheckPrecondition,
     GetCollectionForPost, GetCollectionForPut, GetCollectionForDelete
<1>3. \A c : ~Landing(r, c) /\ ~Emptying(r, c)
  BY <1>2 DEF Landing, Emptying
<1>4. \A c \in Collections : Covered(c) /\ Listed(c)
  <2>1. InFlight = {r}
    BY DEF InFlight, OneAtATime
  <2> QED BY <1>3, <2>1 DEF SerialInvariant
<1>5. ASSUME NEW q, req' = [req EXCEPT ![w] = q], Good(q), DeletedMeansGone'
      PROVE  SerialInvariant'
  BY <1>1, <1>3, <1>5, SerialKept
<1>6. ASSUME NEW status, Respond(w, status), r.op # "DelColl" \/ status # 200
      PROVE  SerialInvariant'
  <2>1. DeletedMeansGone'
    BY <1>6, NoPromise
  <2>2. req' = [req EXCEPT ![w] = NoRequest]
    BY <1>6 DEF Respond
  <2> QED BY <1>5, <2>1, <2>2, NothingExpected
<1>7. ASSUME NEW q, Goto(w, q), Good(q) PROVE SerialInvariant'
  BY <1>5, <1>7, NoPromise DEF Goto

<1>8. CASE Arrive(w)
  <2>1. PICK q \in Requests : Goto(w, q)
    BY <1>8 DEF Arrive
  <2>2. Prepared(q) /\ Passed(q) /\ q.pc \notin Stamped /\ q \in Fresh
    BY <2>1, RequestsPrepared, RequestsTyped
  <2>3. q.pc = "stamp" => q.op = "DelAll"
    BY <2>2 DEF Fresh
  <2>4. Good(q)
    BY <2>2, <2>3 DEF Good, Stamped, Ahead, Landed, Emptied, Fetched, Latest, Writing
  <2> QED BY <1>7, <2>1, <2>4
<1>9. CASE GetObjectForPut(w)
  <2>1. PICK found : found = [i \in r.todo \cap LiveIds(r.coll) |-> objs[r.coll][i].size]
    OBVIOUS
  <2>2. PICK q : q = [r EXCEPT !.pc = "stamp", !.seen = found]
    OBVIOUS
  <2>3. PICK id \in r.todo :
          \/ Respond(w, 412)
          \/ ~PutRefused(Live(r.coll, id), r.ius) /\ Goto(w, q)
    BY <1>9, <2>1, <2>2 DEF GetObjectForPut
  <2>4. r.op = "PutBso" /\ r.pc = "getObject" /\ r.coll \in Collections
    BY <1>1, <1>9 DEF GetObjectForPut
  <2>5. CASE ~PutRefused(Live(r.coll, id), r.ius) /\ Goto(w, q)
    <3>1. /\ q.op = r.op /\ q.pc = "stamp" /\ q.coll = r.coll /\ q.batch = r.batch
          /\ q.todo = r.todo /\ q.ius = r.ius /\ q.seen = found
      BY <1>1, <2>2 DEF Request
    <3>2. q \in Request
      <4>1. req'[w] = q
        BY <1>1, <2>5 DEF Goto, TypeOK
      <4> QED BY <4>1 DEF TypeOK, GoodRequest
    <3>3. r.todo = DOMAIN r.batch /\ \A i, j \in r.todo : i = j
      BY <1>1, <2>4 DEF Good, Prepared, Writing
    <3>4. Ahead(q)
      <4>1. \A i \in DOMAIN q.seen :
              /\ i \in DOMAIN q.batch /\ i \in StoredIds(q.coll)
              /\ q.seen[i] = objs[q.coll][i].size
        BY <2>1, <3>1, <3>3 DEF LiveIds, Live, StoredIds
      <4> QED BY <1>1, <1>4, <2>4, <3>1, <3>2, <4>1, AheadStart
    <3>5. Passed(q)
      <4> SUFFICES ASSUME q.ius # None, NEW i \in q.todo, Live(q.coll, i) # None
                   PROVE  objs[q.coll][i].modified <= q.ius
        BY DEF Passed
      <4>1. i = id /\ Live(r.coll, id) = objs[r.coll][id]
        BY <3>1, <3>3 DEF Live
      <4>2. id \in Ids
        BY <1>1, <3>3 DEF Request, Payloads
      <4>3. objs[r.coll][id].modified \in Nat /\ r.ius \in Nat
        <5>1. objs[r.coll][id] \in Bso
          BY <1>1, <2>4, <4>1, <4>2, <3>1 DEF TypeOK
        <5>2. r.ius \in Headers
          BY <1>1, <3>1 DEF Request
        <5> QED BY <5>1, <5>2, StorageAssumption DEF Bso
      <4> QED BY <2>5, <3>1, <4>1, <4>3 DEF PutRefused
    <3>6. Good(q)
      BY <2>4, <3>1, <3>3, <3>4, <3>5
         DEF Good, Prepared, Landed, Emptied, Fetched, Latest, Stamped
    <3> QED BY <1>7, <2>5, <3>6
  <2> QED BY <1>6, <2>3, <2>5
<1>10. CASE GetObjectForDelete(w)
  <2>1. PICK q : q = [r EXCEPT !.pc = "stamp"]
    OBVIOUS
  <2>2. q.op = "DelBso" /\ q.pc = "stamp" /\ q.todo = r.todo /\ r.op = "DelBso"
    BY <1>1, <1>10, <2>1 DEF Request, GetObjectForDelete
  <2>3. Good(q)
    BY <1>1, <2>2 DEF Good, Ahead, Prepared, Landed, Passed, Emptied, Fetched, Latest,
                      Stamped, Writing
  <2> QED BY <1>6, <1>7, <1>10, <2>1, <2>3 DEF GetObjectForDelete

\* No object is newer than a collection that passes the check.
<1>11. ASSUME r.coll \in Collections, ~ModifiedSince(meta[r.coll], r.ius), r.ius # None,
              NEW id \in Ids, Live(r.coll, id) # None
       PROVE  objs[r.coll][id].modified <= r.ius
  <2> PICK c \in Collections : c = r.coll
    BY <1>11
  <2>1. id \in StoredIds(c)
    BY <1>11 DEF Live, StoredIds
  <2>2. meta[c] # None
    BY <1>4, <2>1 DEF Listed
  <2>3. objs[c][id].modified <= meta[c].modified /\ meta[c].modified \in Nat
    BY <1>1, <1>4, <2>1, <2>2 DEF Covered, TypeOK, Meta
  <2>4. objs[c][id].modified \in Nat /\ r.ius \in Nat
    BY <1>1, <1>11, <2>1, StorageAssumption DEF TypeOK, Bso, Request, StoredIds
  <2> QED BY <1>11, <2>2, <2>3, <2>4 DEF ModifiedSince
<1>12. r.op \in Writing => r.todo = DOMAIN r.batch /\ r.todo \subseteq Ids
  BY <1>1, <1>2 DEF Good, Prepared, Request, Payloads
<1>13. CASE CheckPrecondition(w)
  <2>1. PICK q : q = [r EXCEPT !.pc = "getCollection"]
    OBVIOUS
  <2>2. CASE ~ModifiedSince(meta[r.coll], r.ius) /\ Goto(w, q)
    <3>1. /\ q.op = r.op /\ q.pc = "getCollection" /\ q.coll = r.coll /\ q.batch = r.batch
          /\ q.todo = r.todo /\ q.ius = r.ius /\ q.seen = r.seen /\ r.pc = "checkHeader"
          /\ r.coll \in Collections
      BY <1>1, <1>13, <2>1 DEF Request, CheckPrecondition
    <3>2. Passed(q)
      BY <1>11, <1>12, <2>2, <3>1 DEF Passed
    <3>3. Prepared(q)
      BY <1>1, <3>1 DEF Good, Prepared
    <3>4. Good(q)
      BY <3>1, <3>2, <3>3 DEF Good, Ahead, Landed, Emptied, Fetched, Latest, Stamped
    <3> QED BY <1>7, <2>2, <3>4
  <2> QED BY <1>6, <1>13, <2>1, <2>2 DEF CheckPrecondition
<1>14. CASE GetCollectionForPost(w) \/ GetCollectionForPut(w)
  <2>1. PICK q : q = [r EXCEPT !.pc = "stamp", !.found = meta[r.coll]]
    OBVIOUS
  <2>2. CASE /\ Goto(w, q)
             /\ r.op = "PostColl" \/ ~ModifiedSince(meta[r.coll], r.ius)
    <3>1. /\ q.op = r.op /\ q.pc = "stamp" /\ q.coll = r.coll /\ q.batch = r.batch
          /\ q.todo = r.todo /\ q.ius = r.ius /\ q.seen = r.seen /\ q.found = meta[r.coll]
          /\ r.pc = "getCollection" /\ r.op \in {"PostColl", "PutColl"}
          /\ r.coll \in Collections
      BY <1>1, <1>14, <2>1 DEF Request, GetCollectionForPost, GetCollectionForPut
    <3>2. q \in Request
      <4>1. req'[w] = q
        BY <1>1, <2>2 DEF Goto, TypeOK
      <4> QED BY <4>1 DEF TypeOK, GoodRequest
    <3>3. q.seen = NoPayload
      BY <1>1, <3>1 DEF Good, Prepared, Writing
    <3>4. Ahead(q)
      <4>1. DOMAIN q.seen = {}
        BY <3>3 DEF NoPayload
      <4> QED BY <1>4, <1>1, <3>1, <3>2, <4>1, AheadStart
    <3>5. Passed(q)
      <4>1. CASE r.op = "PostColl"
        BY <1>1, <3>1, <4>1 DEF Good, Passed, Writing
      <4>2. CASE r.op # "PostColl"
        BY <1>11, <1>12, <2>2, <3>1, <4>2 DEF Passed
      <4> QED BY <4>1, <4>2
    <3>6. Prepared(q)
      BY <1>1, <3>1, <3>3 DEF Good, Prepared
    <3>7. Good(q)
      BY <3>1, <3>4, <3>5, <3>6 DEF Good, Landed, Emptied, Fetched, Latest, Stamped
    <3> QED BY <1>7, <2>2, <3>7
  <2>3. \/ Respond(w, 404) \/ Respond(w, 412)
        \/ /\ Goto(w, q)
           /\ r.op = "PostColl" \/ ~ModifiedSince(meta[r.coll], r.ius)
    BY <1>14, <2>1 DEF GetCollectionForPost, GetCollectionForPut
  <2> QED BY <1>6, <2>2, <2>3
<1>15. CASE GetCollectionForDelete(w)
  <2>1. PICK q : q = [r EXCEPT !.pc = "stamp", !.found = meta[r.coll]]
    OBVIOUS
  <2>2. /\ r.op \in {"DelIds", "DelColl"} /\ r.pc = "getCollection" /\ r.coll \in Collections
        /\ IF meta[r.coll] = None THEN Respond(w, 200) ELSE Goto(w, q)
    BY <1>1, <1>15, <2>1 DEF GetCollectionForDelete
  <2>3. CASE Goto(w, q)
    <3>1. /\ q.op = r.op /\ q.pc = "stamp" /\ q.found = meta[r.coll] /\ q.coll = r.coll
          /\ q.todo = r.todo
      BY <1>1, <2>1 DEF Request
    <3>2. Prepared(q)
      BY <1>1, <2>2, <3>1 DEF Good, Prepared, Writing
    <3>3. Good(q)
      BY <2>2, <3>1, <3>2 DEF Good, Ahead, Landed, Passed, Emptied, Fetched, Latest,
                              Stamped, Writing
    <3> QED BY <1>7, <2>3, <3>3
  <2>4. CASE meta[r.coll] = None /\ Respond(w, 200)
    <3>1. StoredIds(r.coll) = {}
      BY <1>4, <2>2, <2>4 DEF Listed
    <3>2. meta'[r.coll] = None /\ StoredIds(r.coll)' = {}
      <4>1. objs' = objs /\ meta' = meta
        BY <1>1 DEF table
      <4> QED BY <2>4, <3>1, <4>1 DEF StoredIds
    <3>3. answer'.coll = r.coll
      BY <2>4 DEF Respond
    <3>4. DeletedMeansGone'
      BY <3>2, <3>3 DEF DeletedMeansGone, StoredIds
    <3> QED BY <1>5, <2>4, <3>4, NothingExpected DEF Respond
  <2> QED BY <2>2, <2>3, <2>4
<1> QED BY <1>8, <1>9, <1>10, <1>13, <1>14, <1>15

\* What the invariant says of the request that is handled.
LEMMA Sole ==
  ASSUME OneAtATime, SerialInvariant, NEW w \in Workers
  PROVE  /\ InFlight = {req[w]} /\ Good(req[w])
         /\ req[w] \in Request /\ WellFormed(req[w]) /\ TypeOK
         /\ \A c \in Collections : ~Landing(req[w], c) => Covered(c)
         /\ \A c \in Collections : ~Landing(req[w], c) /\ ~Emptying(req[w], c) => Listed(c)
<1>1. InFlight = {req[w]}
  BY DEF InFlight, OneAtATime
<1>2. req[w] \in Request /\ WellFormed(req[w]) /\ TypeOK
  BY DEF SerialInvariant, TypeOK, GoodRequest
<1> QED BY <1>1, <1>2 DEF SerialInvariant

\* After its step the request is still the only one.
LEMMA AloneInFlight ==
  ASSUME OneAtATime, NEW w \in Workers, NEW q, req'[w] = q
  PROVE  InFlight' = {q}
BY DEF InFlight, OneAtATime

\* The timestamp is later than all that is stored.
LEMMA SerialStamp ==
  ASSUME OneAtATime, SerialInvariant, TypeOK', Past', NEW w \in Workers, TakeTimestamp(w)
  PROVE  SerialInvariant'
<1> PICK r : r = req[w]
  OBVIOUS
<1>1. /\ r \in Request /\ WellFormed(r) /\ Good(r) /\ r.pc = "stamp" /\ TypeOK
      /\ failures' = failures /\ UNCHANGED <<table, now>> /\ Past
  BY Sole DEF TakeTimestamp, SerialInvariant
<1>2. PICK q : q = [r EXCEPT !.pc = AfterStamp(r), !.ts = now, !.expiry = Expiry(r.ttl)]
  OBVIOUS
<1>3. /\ q.op = r.op /\ q.pc = AfterStamp(r) /\ q.coll = r.coll /\ q.batch = r.batch
      /\ q.todo = r.todo /\ q.ius = r.ius /\ q.seen = r.seen /\ q.found = r.found
      /\ q.ts = now
  BY <1>1, <1>2 DEF Request
<1>4. Goto(w, q)
  BY <1>2 DEF TakeTimestamp
<1>5. /\ r.op \in {"DelBso", "DelIds"} => q.pc = "erase"
      /\ r.op = "DelColl" => q.pc = "query"
      /\ r.op = "DelAll" => q.pc = "list"
      /\ r.op \in Writing => q.pc \in {"metadata", "batchGet", "write"}
      /\ r.op \in {"DelBso", "DelIds", "DelColl", "DelAll"} \cup Writing
  <2>1. r.op # "none"
    BY <1>1 DEF WellFormed
  <2> QED BY <1>1, <1>3, <2>1, AfterStampLabels
<1>6. q.pc = "metadata" => r.todo = {} /\ r.op \in Writing
  BY <1>3, <1>5 DEF AfterStamp, Writing
<1>7. Ahead(q)
  <2>1. CountDelta(q) = CountDelta(r)
    BY <1>3 DEF CountDelta, NewIds
  <2> QED BY <1>1, <1>3, <2>1 DEF Good, Ahead
<1>8. r.op \in Writing => r.todo = DOMAIN r.batch /\ (r.op # "PutBso" => r.seen = NoPayload)
  BY <1>1 DEF Good, Prepared
<1>9. /\ \A i, j \in r.todo : r.op \in {"PutBso", "DelBso"} => i = j
      /\ r.op \in {"DelBso", "DelIds"} => r.todo \subseteq Ids
  BY <1>1 DEF Good, Prepared
<1>10. Prepared(q)
  BY <1>3, <1>5, <1>8, <1>9 DEF Prepared, Writing
<1>11. Landed(q)
  <2>1. r.op \in Writing => DOMAIN q.batch \ q.todo = {}
    BY <1>3, <1>8
  <2> QED BY <1>3, <1>6, <2>1 DEF Landed
<1>12. Passed(q)
  BY <1>1, <1>3, <1>5 DEF Good, Passed, Writing
<1>13. Emptied(q) /\ Fetched(q)
  BY <1>1, <1>3, <1>5 DEF Good, Emptied, Fetched, Writing
<1>14. Latest(q)
  BY <1>1, <1>3 DEF Latest, Past, StoredIds
<1>15. Good(q)
  BY <1>7, <1>10, <1>11, <1>12, <1>13, <1>14 DEF Good
<1>16. \A c : ~Landing(req[w], c) /\ ~Emptying(req[w], c)
  BY <1>1 DEF Landing, Emptying
<1> QED BY <1>1, <1>4, <1>15, <1>16, SerialKept, NoPromise DEF Goto

\* The old objects of the batch are read while nobody writes.
LEMMA SerialBatchGet ==
  ASSUME OneAtATime, SerialInvariant, TypeOK', Past', NEW w \in Workers, BatchGet(w)
  PROVE  SerialInvariant'
<1> PICK r : r = req[w]
  OBVIOUS
<1>1. /\ r \in Request /\ WellFormed(r) /\ Good(r) /\ r.pc = "batchGet" /\ TypeOK
      /\ failures' = failures /\ UNCHANGED <<table, now>>
  BY Sole DEF BatchGet
<1>2. PICK found : found = [i \in DOMAIN r.batch \cap LiveIds(r.coll) |-> objs[r.coll][i].size]
  OBVIOUS
<1>3. PICK q : q = [r EXCEPT !.pc = "write", !.expiry = Expiry(r.ttl), !.seen = found]
  OBVIOUS
<1>4. Goto(w, q)
  BY <1>2, <1>3 DEF BatchGet
<1>5. /\ q.op = r.op /\ q.pc = "write" /\ q.coll = r.coll /\ q.batch = r.batch
      /\ q.todo = r.todo /\ q.ius = r.ius /\ q.seen = found /\ q.found = r.found
      /\ q.ts = r.ts
  BY <1>1, <1>3 DEF Request
<1>6. r.op \in Writing /\ r.coll \in Collections
  BY <1>1 DEF WellFormed, Writing
<1>7. q \in Request
  <2>1. req'[w] = q
    BY <1>1, <1>4 DEF Goto, TypeOK
  <2> QED BY <2>1 DEF TypeOK, GoodRequest
<1>8. \A c : ~Landing(r, c) /\ ~Emptying(r, c)
  BY <1>1 DEF Landing, Emptying
<1>9. Ahead(q)
  <2>1. \A i \in DOMAIN q.seen : /\ i \in DOMAIN q.batch /\ i \in StoredIds(q.coll)
                                 /\ q.seen[i] = objs[q.coll][i].size
    BY <1>2, <1>5 DEF LiveIds, Live, StoredIds
  <2> QED BY <1>1, <1>5, <1>6, <1>7, <1>8, <2>1, Sole, AheadStart
<1>10. r.todo = DOMAIN r.batch
  BY <1>1, <1>6 DEF Good, Prepared
<1>11. Good(q)
  BY <1>1, <1>5, <1>6, <1>9, <1>10
     DEF Good, Prepared, Landed, Passed, Emptied, Fetched, Latest, Stamped
<1> QED BY <1>1, <1>4, <1>8, <1>11, SerialKept, NoPromise DEF Goto

\* Finishing one collection: DELETE of a collection answers, which is only
\* right when the collection is gone; DELETE of everything goes on.
LEMMA SerialDone ==
  ASSUME OneAtATime, SerialInvariant, TypeOK', Past', NEW w \in Workers,
         NEW r \in Request, CollectionDone(w, r), r.op = req[w].op, r.coll = req[w].coll \/ r.op # "DelColl",
         r.ts = req[w].ts, req[w].pc \in Stamped \ {"write", "metadata"},
         r.op \notin Writing, r.op # "DelColl" => r.op = "DelAll",
         failures' = failures, UNCHANGED <<table, now>>,
         \A c \in Collections : Emptying(req[w], c) => Listed(c),
         r.op = "DelColl" =>
           r.coll \in Collections /\ meta[r.coll] = None /\ StoredIds(r.coll) = {}
  PROVE  SerialInvariant'
<1>1. objs' = objs /\ meta' = meta
  BY DEF table
<1>2. Good(req[w]) /\ \A c : ~Landing(req[w], c)
  BY Sole DEF Landing
<1>3. CASE r.colls = {}
  <2>1. /\ req' = [req EXCEPT ![w] = NoRequest]
        /\ answer'.coll = req[w].coll /\ answer'.op = req[w].op
    BY <1>3 DEF CollectionDone, Respond
  <2>2. DeletedMeansGone'
    BY <1>1, <2>1 DEF DeletedMeansGone, Answered, StoredIds
  <2> QED BY <1>2, <2>1, <2>2, SerialKept, NothingExpected
<1>4. CASE r.colls # {}
  <2>1. PICK q : q = [r EXCEPT !.pc = "getListed", !.todo = {}]
    OBVIOUS
  <2>2. q.pc = "getListed" /\ q.todo = {} /\ q.op = r.op /\ q.ts = req[w].ts
    BY <2>1 DEF Request
  <2>3. Goto(w, q)
    BY <1>4, <2>1 DEF CollectionDone
  <2>4. Latest(q)
    BY <1>2, <2>2 DEF Good, Latest
  <2>5. Good(q)
    BY <2>2, <2>4 DEF Good, Ahead, Prepared, Landed, Passed, Emptied, Fetched
  <2> QED BY <1>2, <2>3, <2>5, SerialKept, NoPromise DEF Goto
<1> QED BY <1>3, <1>4

\* Deleting a collection starts from the list of all its keys; deleting
\* everything goes through the collections one by one.
LEMMA SerialQuery ==
  ASSUME OneAtATime, SerialInvariant, TypeOK', Past', NEW w \in Workers,
         \/ QueryKeys(w) \/ ListCollections(w)
         \/ \E c \in Collections : GetListed(w, c)
  PROVE  SerialInvariant'
<1> PICK r : r = req[w]
  OBVIOUS
<1>1. /\ r \in Request /\ WellFormed(r) /\ Good(r) /\ TypeOK
      /\ failures' = failures /\ UNCHANGED <<table, now>>
      /\ r.pc \in {"query", "list", "getListed"}
  BY Sole DEF QueryKeys, ListCollections, GetListed
<1>2. \A c : ~Landing(r, c) /\ ~Emptying(r, c)
  BY <1>1 DEF Landing, Emptying
<1>3. \A c \in Collections : Listed(c)
  BY <1>2, Sole
<1>4. r.op \in {"DelColl", "DelAll"} /\ (r.op = "DelColl" => r.pc = "query" /\ r.coll \in Collections)
  BY <1>1 DEF WellFormed
<1>5. CASE QueryKeys(w)
  <2>1. r.pc = "query" /\ r.coll \in Collections
    BY <1>1, <1>5 DEF QueryKeys, WellFormed
  <2>2. CASE KeysOf(r.coll) = {}
    <3>1. meta[r.coll] = None /\ StoredIds(r.coll) = {}
      BY <2>2 DEF KeysOf, StoredIds
    <3>2. CollectionDone(w, r)
      BY <1>5, <2>2 DEF QueryKeys
    <3> QED BY <1>1, <1>3, <1>4, <2>1, <3>1, <3>2, SerialDone DEF Stamped, Writing
  <2>3. CASE KeysOf(r.coll) # {}
    <3>1. PICK q : q = [r EXCEPT !.pc = "erase", !.todo = KeysOf(r.coll)]
      OBVIOUS
    <3>2. /\ q.op = r.op /\ q.pc = "erase" /\ q.coll = r.coll /\ q.ts = r.ts
          /\ q.todo = KeysOf(r.coll)
      BY <1>1, <3>1 DEF Request
    <3>3. Emptied(q)
      BY <3>2 DEF Emptied, KeysOf, StoredIds
    <3>4. Latest(q)
      BY <1>1, <3>2 DEF Good, Latest, Stamped
    <3>5. Good(q)
      BY <1>4, <3>2, <3>3, <3>4 DEF Good, Ahead, Prepared, Landed, Passed, Fetched, Writing
    <3>6. Goto(w, q)
      BY <1>5, <2>3, <3>1 DEF QueryKeys
    <3> QED BY <1>1, <1>2, <3>5, <3>6, SerialKept, NoPromise DEF Goto
  <2> QED BY <2>2, <2>3
<1>6. CASE ListCollections(w)
  <2>1. PICK q : q = [r EXCEPT !.colls = {c \in Collections : index[c] # None}]
    OBVIOUS
  <2>2. q \in Request /\ q.op = r.op /\ q.coll = r.coll /\ q.ts = r.ts
    BY <1>1, <2>1 DEF Request
  <2>3. CollectionDone(w, q) /\ r.pc = "list"
    BY <1>6, <2>1 DEF ListCollections
  <2> QED BY <1>1, <1>3, <1>4, <2>2, <2>3, SerialDone DEF Stamped, Writing
<1>7. ASSUME NEW c \in Collections, GetListed(w, c) PROVE SerialInvariant'
  <2>1. PICK s : s = [r EXCEPT !.coll = c, !.colls = @ \ {c}]
    OBVIOUS
  <2>2. s \in Request /\ s.op = r.op /\ s.ts = r.ts /\ s.coll = c
    BY <1>1, <2>1 DEF Request
  <2>3. PICK q : q = [s EXCEPT !.pc = "query"]
    OBVIOUS
  <2>4. /\ IF meta[c] = None THEN CollectionDone(w, s) ELSE Goto(w, q)
        /\ r.pc = "getListed"
    BY <1>7, <2>1, <2>3 DEF GetListed
  <2>5. CASE CollectionDone(w, s)
    BY <1>1, <1>3, <1>4, <2>2, <2>4, <2>5, SerialDone DEF Stamped, Writing
  <2>6. CASE Goto(w, q)
    <3>1. q.op = r.op /\ q.pc = "query" /\ q.ts = r.ts
      BY <2>2, <2>3 DEF Request
    <3>2. Latest(q)
      BY <1>1, <2>4, <3>1 DEF Good, Latest, Stamped
    <3>3. Good(q)
      BY <1>4, <3>1, <3>2 DEF Good, Ahead, Prepared, Landed, Passed, Emptied, Fetched, Writing
    <3> QED BY <1>1, <1>2, <2>6, <3>3, SerialKept, NoPromise DEF Goto
  <2> QED BY <2>4, <2>5, <2>6
<1> QED BY <1>5, <1>6, <1>7

\* One object of the batch lands: it replaces nothing newer than the header,
\* and the metadata stays ahead of it.
LEMMA SerialWrite ==
  ASSUME OneAtATime, SerialInvariant, TypeOK', Past', NEW w \in Workers,
         NEW id \in Ids, WriteObject(w, id)
  PROVE  SerialInvariant'
<1> PICK r : r = req[w]
  OBVIOUS
<1> PICK item : item = [modified |-> r.ts, size |-> r.batch[id], expiry |-> r.expiry]
  OBVIOUS
<1> PICK q : q = [r EXCEPT !.todo = r.todo \ {id},
                           !.pc = IF r.todo = {id} THEN "metadata" ELSE "write"]
  OBVIOUS
<1>1. /\ r \in Request /\ WellFormed(r) /\ Good(r) /\ r.pc = "write" /\ id \in r.todo /\ TypeOK
      /\ r.coll \in Collections /\ r.op \in Writing /\ id \in DOMAIN r.batch
      /\ failures' = failures /\ meta' = meta /\ now' = now /\ answer' = None
      /\ req' = [req EXCEPT ![w] = q]
      /\ objs' = [objs EXCEPT ![r.coll][id] = item] /\ item \in Bso
  BY Sole, WrittenIsBso DEF WriteObject, Goto
<1>2. /\ q.op = r.op /\ q.coll = r.coll /\ q.batch = r.batch /\ q.ius = r.ius
      /\ q.seen = r.seen /\ q.found = r.found /\ q.ts = r.ts /\ q.todo = r.todo \ {id}
      /\ q.pc = IF r.todo = {id} THEN "metadata" ELSE "write"
  BY <1>1 DEF Request
<1>3. item # None /\ item.modified = r.ts /\ item.size = r.batch[id]
  BY <1>1, StorageAssumption
<1>4. \A c \in Collections, i \in Ids :
        objs'[c][i] = IF c = r.coll /\ i = id THEN item ELSE objs[c][i]
  BY <1>1 DEF TypeOK
<1>5. \A c \in Collections \ {r.coll} :
        /\ StoredIds(c)' = StoredIds(c)
        /\ StoredPayloads(c)' = StoredPayloads(c)
  BY <1>4 DEF StoredIds, StoredPayloads
<1>6. StoredIds(r.coll)' = StoredIds(r.coll) \cup {id}
  BY <1>1, <1>3, <1>4 DEF StoredIds
<1>7. InFlight' = {q} /\ q \in Request
  <2>1. req'[w] = q /\ \A v \in Workers : v = w
    BY <1>1 DEF OneAtATime, TypeOK
  <2>2. InFlight' = {q}
    BY <2>1, AloneInFlight
  <2>3. q \in Request
    BY <2>1 DEF TypeOK, GoodRequest
  <2> QED BY <2>2, <2>3
<1>8. Ahead(q)'
  <2>1. \A i \in Ids \ DOMAIN r.batch : objs'[r.coll][i] \in {objs[r.coll][i], None}
    BY <1>1, <1>4
  <2>2. Ahead(r) /\ meta'[r.coll] = meta[r.coll]
    BY <1>1 DEF Good
  <2> QED BY <1>1, <1>2, <1>7, <2>1, <2>2, AheadKept
<1>9. Landed(q)'
  <2>1. ASSUME NEW i \in DOMAIN q.batch \ q.todo, i \in StoredIds(q.coll)'
        PROVE  objs'[q.coll][i].size = q.batch[i]
    <3>1. CASE i = id
      BY <1>1, <1>2, <1>3, <1>4, <3>1
    <3>2. CASE i # id
      <4>1. i \in StoredIds(r.coll) /\ i \in DOMAIN r.batch \ r.todo
        BY <1>2, <1>6, <2>1, <3>2
      <4>2. objs[r.coll][i].size = r.batch[i]
        BY <1>1, <4>1 DEF Good, Landed
      <4>3. i \in Ids
        BY <4>1 DEF StoredIds
      <4> QED BY <1>1, <1>2, <1>4, <3>2, <4>2, <4>3
    <3> QED BY <3>1, <3>2
  <2>2. q.pc = "metadata" => q.todo = {}
    BY <1>2
  <2> QED BY <2>1, <2>2 DEF Landed
<1>10. Passed(q)'
  <2> SUFFICES ASSUME q.ius # None, q.pc = "write", NEW i \in q.todo, Live(q.coll, i)' # None
               PROVE  objs'[q.coll][i].modified <= q.ius
    BY <1>2 DEF Passed
  <2>1. i \in r.todo /\ i # id /\ i \in Ids
    <3>1. r.todo \subseteq DOMAIN r.batch /\ DOMAIN r.batch \subseteq Ids
      BY <1>1 DEF WellFormed, Request, Payloads
    <3> QED BY <1>2, <3>1
  <2>2. objs'[q.coll][i] = objs[r.coll][i]
    BY <1>1, <1>2, <1>4, <2>1
  <2>3. Live(r.coll, i) # None
    BY <1>1, <1>2, <2>2 DEF Live, Expired
  <2> QED BY <1>1, <1>2, <2>1, <2>2, <2>3 DEF Good, Passed
<1>11. Latest(q)'
  <2> SUFFICES ASSUME NEW c \in Collections
               PROVE  /\ \A i \in StoredIds(c)' : objs'[c][i].modified <= r.ts
                      /\ meta'[c] # None => meta'[c].modified <= r.ts
    BY <1>2 DEF Latest
  <2>1. /\ \A i \in StoredIds(c) : objs[c][i].modified <= r.ts
        /\ meta[c] # None => meta[c].modified <= r.ts
    BY <1>1 DEF Good, Latest, Stamped
  <2>2. r.ts \in Nat
    BY <1>1 DEF Request
  <2> QED BY <1>1, <1>3, <1>4, <2>1, <2>2 DEF StoredIds
<1>12. Prepared(q)' /\ Emptied(q)' /\ Fetched(q)'
  BY <1>1, <1>2 DEF Good, Prepared, Emptied, Fetched
<1>13. Good(q)'
  BY <1>8, <1>9, <1>10, <1>11, <1>12 DEF Good
<1>14. Landing(q, r.coll) /\ \A c : ~Emptying(q, c)
  BY <1>1, <1>2 DEF Landing, Emptying, Writing
<1>15. ASSUME NEW c \in Collections, c # r.coll
       PROVE  Covered(c)' /\ Listed(c)'
  <2>1. ~Landing(r, c) /\ ~Emptying(r, c)
    BY <1>15 DEF Landing, Emptying
  <2>2. Covered(c) /\ Listed(c)
    BY <2>1, Sole
  <2>3. \A i \in StoredIds(c) : objs'[c][i] = objs[c][i]
    BY <1>4, <1>15 DEF StoredIds
  <2> QED BY <1>1, <1>5, <1>15, <2>2, <2>3 DEF Covered, Listed
<1>16. DeletedMeansGone'
  BY <1>1, NoPromise
<1>17. \A x \in InFlight' : Good(x)'
  BY <1>7, <1>13
<1> QED BY <1>1, <1>7, <1>14, <1>15, <1>16, <1>17 DEF SerialInvariant

\* The metadata of a write lands: with the deltas it covers the collection.
LEMMA SerialSettle ==
  ASSUME OneAtATime, SerialInvariant, TypeOK', Past', NEW w \in Workers,
         UpdateMetadata(w) \/ PutNewMetadata(w)
  PROVE  SerialInvariant'
<1> PICK r : r = req[w]
  OBVIOUS
<1>1. /\ r \in Request /\ WellFormed(r) /\ Good(r) /\ r.pc = "metadata" /\ TypeOK
      /\ r.coll \in Collections /\ r.op \in Writing /\ r.todo = {}
      /\ failures' = failures /\ now' = now /\ objs' = objs
      /\ Respond(w, 200)
  <2>1. r \in Request /\ WellFormed(r) /\ Good(r) /\ TypeOK
    BY Sole
  <2>2. /\ r.pc = "metadata" /\ r.op \in Writing /\ failures' = failures
        /\ now' = now /\ objs' = objs /\ Respond(w, 200)
    BY DEF UpdateMetadata, PutNewMetadata, Writing
  <2> QED BY <2>1, <2>2 DEF WellFormed, Good, Landed, Writing
<1> PICK c \in Collections : c = r.coll
  BY <1>1
<1>2. PICK m : m = Added(meta[c], r.ts, CountDelta(r), UsageDelta(r))
  OBVIOUS
<1>3. meta' = [meta EXCEPT ![c] = m]
  <2>1. CASE UpdateMetadata(w)
    BY <1>2, <2>1 DEF UpdateMetadata
  <2>2. CASE PutNewMetadata(w)
    <3>1. r.op = "PostColl" /\ r.found = None
      BY <2>2 DEF PutNewMetadata
    <3>2. meta[c] = None
      BY <1>1, <3>1 DEF Good, Fetched
    <3> QED BY <1>2, <2>2, <3>2 DEF PutNewMetadata
  <2> QED BY <2>1, <2>2
<1>4. /\ m \in Meta /\ m # None /\ m.modified = r.ts
      /\ m.count = CountOf(c) + CountDelta(r) /\ m.usage = UsageOf(c) + UsageDelta(r)
  <2>1. CountDelta(r) \in Nat /\ UsageDelta(r) \in Int /\ r.ts \in Nat
    BY <1>1, DeltasTyped DEF Request
  <2>2. m \in Meta
    <3>1. meta[c] \in Meta \cup {None}
      BY <1>1 DEF TypeOK
    <3> QED BY <1>2, <2>1, <3>1, AddedTyped
  <2> QED BY <1>2, <2>2, StorageAssumption DEF Added, CountOf, UsageOf
<1>5. \A d \in Collections : meta'[d] = IF d = c THEN m ELSE meta[d]
  BY <1>1, <1>3 DEF TypeOK
<1>6. \A d : StoredIds(d)' = StoredIds(d) /\ StoredPayloads(d)' = StoredPayloads(d)
  BY <1>1 DEF StoredIds, StoredPayloads
<1>7. m.count >= Cardinality(StoredIds(c))
  <2>1. m.count >= Cardinality(StoredIds(c) \cup DOMAIN r.batch)
    BY <1>1, <1>4 DEF Good, Ahead
  <2>2. Cardinality(StoredIds(c)) <= Cardinality(StoredIds(c) \cup DOMAIN r.batch)
    <3>1. StoredIds(c) \subseteq StoredIds(c) \cup DOMAIN r.batch
      OBVIOUS
    <3>2. IsFiniteSet(StoredIds(c) \cup DOMAIN r.batch)
      BY <1>1, SetsCounted
    <3> QED BY <3>1, <3>2, FS_Subset
  <2>3. /\ Cardinality(StoredIds(c)) \in Nat
        /\ Cardinality(StoredIds(c) \cup DOMAIN r.batch) \in Nat
    BY <1>1, Counted, SetsCounted
  <2>4. m.count \in Int
    BY <1>4 DEF Meta
  <2> QED BY <2>1, <2>2, <2>3, <2>4
<1>8. m.usage >= Cardinality(Bytes(StoredPayloads(c)))
  <2>1. UsageOf(c) - Cardinality(Bytes(r.seen)) >= Cardinality(Bytes(Kept(c, DOMAIN r.batch)))
    BY <1>1 DEF Good, Ahead
  <2>2. Kept(c, DOMAIN r.batch) \in Payloads /\ StoredPayloads(c) \in Payloads
    BY <1>1, KeptTyped
  <2>3. r.batch \in Payloads /\ r.seen \in Payloads
    BY <1>1, SetsCounted
  <2>4. ASSUME NEW i \in DOMAIN StoredPayloads(c)
        PROVE  \/ i \in DOMAIN Kept(c, DOMAIN r.batch)
                  /\ StoredPayloads(c)[i] = Kept(c, DOMAIN r.batch)[i]
               \/ i \in DOMAIN r.batch /\ StoredPayloads(c)[i] = r.batch[i]
    <3>1. i \in StoredIds(c) /\ StoredPayloads(c)[i] = objs[c][i].size
      BY DEF StoredPayloads
    <3>2. CASE i \in DOMAIN r.batch
      BY <1>1, <3>1, <3>2 DEF Good, Landed
    <3>3. CASE i \notin DOMAIN r.batch
      BY <3>1, <3>3 DEF Kept
    <3> QED BY <3>2, <3>3
  <2>5. Cardinality(Bytes(StoredPayloads(c)))
          <= Cardinality(Bytes(Kept(c, DOMAIN r.batch))) + Cardinality(Bytes(r.batch))
    BY <2>2, <2>3, <2>4, BytesTogether
  <2>6. /\ Cardinality(Bytes(Kept(c, DOMAIN r.batch))) \in Nat
        /\ Cardinality(Bytes(r.batch)) \in Nat /\ Cardinality(Bytes(r.seen)) \in Nat
        /\ Cardinality(Bytes(StoredPayloads(c))) \in Nat
    BY <2>2, <2>3, BytesCounted
  <2>7. UsageOf(c) \in Int
    BY <1>1 DEF UsageOf, TypeOK, Meta
  <2> QED BY <1>4, <2>1, <2>5, <2>6, <2>7 DEF UsageDelta
<1>9. \A i \in StoredIds(c) : objs[c][i].modified <= m.modified
  BY <1>1, <1>4 DEF Good, Latest, Stamped
<1>10. Covered(c)' /\ Listed(c)'
  BY <1>1, <1>4, <1>5, <1>6, <1>7, <1>8, <1>9 DEF Covered, Listed
<1>11. ASSUME NEW d \in Collections, d # c PROVE Covered(d)' /\ Listed(d)'
  <2>1. Covered(d) /\ Listed(d)
    <3>1. ~Landing(r, d) /\ ~Emptying(r, d)
      BY <1>11 DEF Landing, Emptying
    <3> QED BY <3>1, Sole
  <2> QED BY <1>1, <1>5, <1>6, <1>11, <2>1 DEF Covered, Listed
<1>12. InFlight' = {NoRequest}
  <2>1. req'[w] = NoRequest /\ \A v \in Workers : v = w
    BY <1>1 DEF OneAtATime, TypeOK, Respond
  <2> QED BY <2>1 DEF InFlight
<1>13. DeletedMeansGone'
  BY <1>1, NoPromise DEF Writing
<1>14. \A x \in InFlight' : Good(x)'
  BY <1>12, NothingExpected
<1> QED BY <1>1, <1>10, <1>11, <1>13, <1>14 DEF SerialInvariant

\* DELETE ?ids= puts back the metadata it read, which is the metadata there is.
LEMMA SerialPutBack ==
  ASSUME OneAtATime, SerialInvariant, TypeOK', Past', NEW w \in Workers, PutStaleMetadata(w)
  PROVE  SerialInvariant'
<1> PICK r : r = req[w]
  OBVIOUS
<1>1. /\ r \in Request /\ WellFormed(r) /\ Good(r) /\ r.pc = "metadata" /\ TypeOK
      /\ r.op = "DelIds" /\ r.coll \in Collections /\ r.found \in Meta
      /\ failures' = failures /\ now' = now /\ objs' = objs
      /\ Respond(w, 200)
  <2>1. r \in Request /\ WellFormed(r) /\ Good(r) /\ TypeOK
    BY Sole
  <2>2. /\ r.pc = "metadata" /\ r.op = "DelIds" /\ failures' = failures
        /\ now' = now /\ objs' = objs /\ Respond(w, 200)
    BY DEF PutStaleMetadata
  <2> QED BY <2>1, <2>2 DEF WellFormed, Request
<1> PICK c \in Collections : c = r.coll
  BY <1>1
<1>2. r.found = meta[c]
  BY <1>1 DEF Good, Fetched
<1>3. PICK m : m = [r.found EXCEPT !.modified = r.ts]
  OBVIOUS
<1>4. /\ m \in Meta /\ m # None /\ m.modified = r.ts
      /\ m.count = meta[c].count /\ m.usage = meta[c].usage /\ meta[c] # None
  BY <1>1, <1>2, <1>3, StorageAssumption DEF Meta, Request
<1>5. \A d \in Collections : meta'[d] = IF d = c THEN m ELSE meta[d]
  BY <1>1, <1>3 DEF TypeOK, PutStaleMetadata
<1>6. \A d : StoredIds(d)' = StoredIds(d) /\ StoredPayloads(d)' = StoredPayloads(d)
  BY <1>1 DEF StoredIds, StoredPayloads
<1>7. \A d \in Collections : Covered(d) /\ Listed(d)
  <2>1. \A d : ~Landing(r, d) /\ ~Emptying(r, d)
    BY <1>1 DEF Landing, Emptying
  <2> QED BY <2>1, Sole
<1>8. \A i \in StoredIds(c) : objs[c][i].modified <= m.modified
  BY <1>1, <1>4 DEF Good, Latest, Stamped
<1>9. \A d \in Collections : Covered(d)' /\ Listed(d)'
  BY <1>1, <1>4, <1>5, <1>6, <1>7, <1>8 DEF Covered, Listed
<1>10. InFlight' = {NoRequest}
  <2>1. req'[w] = NoRequest /\ \A v \in Workers : v = w
    BY <1>1 DEF OneAtATime, TypeOK, Respond
  <2> QED BY <2>1 DEF InFlight
<1>11. DeletedMeansGone'
  BY <1>1, NoPromise
<1>12. \A x \in InFlight' : Good(x)'
  BY <1>10, NothingExpected
<1> QED BY <1>1, <1>9, <1>11, <1>12 DEF SerialInvariant

(***************************************************************************)
(* Steps that remove objects.                                              *)
(***************************************************************************)
\* Metadata that covers a collection covers what is left of it.
LEMMA CoveredShrinks ==
  ASSUME TypeOK, TypeOK', NEW c \in Collections, Covered(c),
         meta'[c] \in {meta[c], None},
         \A id \in Ids : objs'[c][id] \in {objs[c][id], None}
  PROVE  Covered(c)'
<1> SUFFICES ASSUME meta'[c] # None
             PROVE  /\ meta[c].count >= Cardinality(StoredIds(c)')
                    /\ meta[c].usage >= Cardinality(Bytes(StoredPayloads(c)'))
                    /\ \A id \in StoredIds(c)' : objs'[c][id].modified <= meta[c].modified
  BY DEF Covered
<1>1. \A id \in StoredIds(c)' : id \in StoredIds(c) /\ objs'[c][id] = objs[c][id]
  BY DEF StoredIds
<1>2. /\ meta[c].count >= Cardinality(StoredIds(c))
      /\ meta[c].usage >= Cardinality(Bytes(StoredPayloads(c)))
      /\ \A id \in StoredIds(c) : objs[c][id].modified <= meta[c].modified
      /\ meta[c] \in Meta
  BY DEF Covered, TypeOK
<1>3. Cardinality(StoredIds(c)') <= Cardinality(StoredIds(c))
  BY <1>1, Counted, FS_Subset
<1>4. PICK p \in Payloads : p = StoredPayloads(c)'
  <2>1. \A id \in StoredIds(c)' : objs'[c][id].size \in Sizes
    BY DEF StoredIds, TypeOK, Bso
  <2>2. StoredPayloads(c)' \in [StoredIds(c)' -> Sizes]
    BY <2>1 DEF StoredPayloads
  <2>3. StoredIds(c)' \in SUBSET Ids
    BY DEF StoredIds
  <2> QED BY <2>2, <2>3 DEF Payloads
<1>5. StoredPayloads(c) \in Payloads
  BY KeptTyped
<1>6. Cardinality(Bytes(p)) <= Cardinality(Bytes(StoredPayloads(c)))
  <2>1. \A i \in DOMAIN p : i \in DOMAIN StoredPayloads(c) /\ p[i] = StoredPayloads(c)[i]
    BY <1>1, <1>4 DEF StoredPayloads
  <2> QED BY <1>5, <2>1, FewerBytes
<1>7. Cardinality(Bytes(p)) \in Nat /\ Cardinality(Bytes(StoredPayloads(c))) \in Nat
  BY <1>5, BytesCounted
<1>8. Cardinality(StoredIds(c)') \in Nat /\ Cardinality(StoredIds(c)) \in Nat
  BY Counted
<1>9. meta[c].count \in Int /\ meta[c].usage \in Int
  BY <1>2 DEF Meta
<1>10. meta[c].count >= Cardinality(StoredIds(c)')
  BY <1>2, <1>3, <1>8, <1>9
<1>11. meta[c].usage >= Cardinality(Bytes(p))
  BY <1>2, <1>6, <1>7, <1>9
<1> QED BY <1>1, <1>2, <1>4, <1>10, <1>11

\* A request stays good when objects disappear.
LEMMA GoodShrinks ==
  ASSUME TypeOK, TypeOK', meta' = meta, now' = now,
         \A c \in Collections, id \in Ids : objs'[c][id] \in {objs[c][id], None},
         NEW r \in GoodRequest, Good(r)
  PROVE  Good(r)'
<1>1. /\ r \in Request
      /\ r.op \in Writing => r.coll \in Collections /\ r.todo \subseteq DOMAIN r.batch
      /\ r.pc = "erase" => r.coll \in Collections
      /\ r.batch \in Payloads
  BY DEF GoodRequest, WellFormed, Writing, Request
<1>2. \A c \in Collections : \A id \in StoredIds(c)' :
        id \in StoredIds(c) /\ objs'[c][id] = objs[c][id]
  BY DEF StoredIds
<1>3. Ahead(r)'
  <2>1. CASE r.op \in Writing /\ r.pc \in {"stamp", "batchGet", "write", "metadata"}
    <3>1. Ahead(r) /\ meta'[r.coll] = meta[r.coll] /\ r.coll \in Collections
      BY <1>1, <2>1 DEF Good
    <3>2. \A id \in Ids \ DOMAIN r.batch : objs'[r.coll][id] \in {objs[r.coll][id], None}
      BY <3>1
    <3> QED BY <1>1, <2>1, <3>1, <3>2, AheadKept
  <2>2. CASE ~(r.op \in Writing /\ r.pc \in {"stamp", "batchGet", "write", "metadata"})
    BY <2>2 DEF Ahead
  <2> QED BY <2>1, <2>2
<1>4. Landed(r)'
  BY <1>1, <1>2 DEF Good, Landed
<1>5. Passed(r)'
  <2>1. ASSUME r.op \in Writing, NEW id \in r.todo, Live(r.coll, id)' # None
        PROVE  Live(r.coll, id) # None /\ objs'[r.coll][id] = objs[r.coll][id]
    <3>1. id \in Ids /\ r.coll \in Collections
      BY <1>1, <2>1 DEF Payloads
    <3> QED BY <2>1, <3>1 DEF Live, Expired
  <2> QED BY <2>1 DEF Good, Passed
<1>6. Emptied(r)' /\ Fetched(r)' /\ Prepared(r)'
  BY <1>1, <1>2 DEF Good, Emptied, Fetched, Prepared
<1>7. Latest(r)'
  BY <1>2 DEF Good, Latest
<1> QED BY <1>3, <1>4, <1>5, <1>6, <1>7 DEF Good

\* The TTL sweep removes an object and nothing else.
LEMMA SerialSweep ==
  ASSUME OneAtATime, SerialInvariant, TypeOK', Past', NEW c \in Collections, NEW id \in Ids,
         Sweep(c, id)
  PROVE  SerialInvariant'
<1>1. /\ meta' = meta /\ now' = now /\ req' = req /\ failures' = failures /\ answer' = None
      /\ objs' = [objs EXCEPT ![c][id] = None] /\ TypeOK
  BY DEF Sweep, SerialInvariant
<1>2. \A d \in Collections, i \in Ids : objs'[d][i] \in {objs[d][i], None}
  BY <1>1 DEF TypeOK
<1>3. InFlight' = InFlight
  BY <1>1 DEF InFlight
<1>4. \A r \in InFlight' : Good(r)'
  <2> SUFFICES ASSUME NEW r \in InFlight PROVE Good(r)'
    BY <1>3
  <2>1. r \in GoodRequest /\ Good(r)
    BY DEF InFlight, SerialInvariant, TypeOK
  <2> QED BY <1>1, <1>2, <2>1, GoodShrinks
<1>5. \A d \in Collections : Covered(d) => Covered(d)'
  BY <1>1, <1>2, CoveredShrinks
<1>6. \A d \in Collections : Listed(d) => Listed(d)'
  BY <1>1, <1>2 DEF Listed, StoredIds
<1>7. DeletedMeansGone'
  BY <1>1, NoPromise
<1> QED BY <1>1, <1>3, <1>4, <1>5, <1>6, <1>7 DEF SerialInvariant

\* One object or the metadata is deleted.  Only DELETE of a collection takes
\* the metadata away, and it answers when nothing is left.
LEMMA SerialErase ==
  ASSUME OneAtATime, SerialInvariant, TypeOK', Past', NEW w \in Workers,
         NEW key \in Ids \cup {Metadata}, EraseItem(w, key)
  PROVE  SerialInvariant'
<1> PICK r : r = req[w]
  OBVIOUS
<1>1. /\ r \in Request /\ WellFormed(r) /\ Good(r) /\ r.pc = "erase" /\ key \in r.todo /\ TypeOK
      /\ r.coll \in Collections /\ r.op \in {"DelBso", "DelIds", "DelColl", "DelAll"}
      /\ r.op # "DelAll" => r.colls = {}
      /\ failures' = failures /\ now' = now
  <2>1. r \in Request /\ WellFormed(r) /\ Good(r) /\ TypeOK
    BY Sole
  <2>2. r.pc = "erase" /\ key \in r.todo /\ failures' = failures /\ now' = now
    BY DEF EraseItem
  <2> QED BY <2>1, <2>2 DEF WellFormed, Request, Operations, Writing
<1> PICK c \in Collections : c = r.coll
  BY <1>1
<1>2. /\ \A d \in Collections, id \in Ids :
           objs'[d][id] = IF d = c /\ id = key THEN None ELSE objs[d][id]
      /\ \A d \in Collections :
           meta'[d] = IF d = c /\ key = Metadata THEN None ELSE meta[d]
  BY <1>1 DEF TypeOK, EraseItem
<1>3. r.op \in {"DelBso", "DelIds"} => key \in Ids /\ key # Metadata
  BY <1>1, StorageAssumption DEF Good, Prepared
<1>4. r.op \in {"DelColl", "DelAll"} =>
        /\ StoredIds(c)' \subseteq r.todo \ {key}
        /\ meta'[c] # None => Metadata \in r.todo \ {key}
  <2> SUFFICES ASSUME r.op \in {"DelColl", "DelAll"}
               PROVE  /\ StoredIds(c)' \subseteq r.todo \ {key}
                      /\ meta'[c] # None => Metadata \in r.todo \ {key}
    OBVIOUS
  <2>1. StoredIds(c) \subseteq r.todo /\ (meta[c] # None => Metadata \in r.todo)
    BY <1>1 DEF Good, Emptied
  <2> QED BY <1>2, <2>1 DEF StoredIds
<1>5. \A q : (q.op = r.op /\ q.ts = r.ts) => Latest(q)'
  BY <1>1, <1>2 DEF Good, Latest, StoredIds, Stamped
<1>6. \A d \in Collections : Covered(d)'
  <2> SUFFICES ASSUME NEW d \in Collections PROVE Covered(d)'
    OBVIOUS
  <2>1. ~Landing(r, d)
    BY <1>1 DEF Landing
  <2>2. Covered(d)
    BY <2>1, Sole
  <2> QED BY <1>1, <1>2, <2>2, CoveredShrinks
<1>7. ASSUME NEW d \in Collections, d # c \/ r.op \notin {"DelColl", "DelAll"}
      PROVE  Listed(d)'
  <2>1. ~Landing(r, d) /\ ~Emptying(r, d)
    BY <1>1, <1>7 DEF Landing, Emptying
  <2>2. Listed(d)
    BY <2>1, Sole
  <2>3. meta'[d] = meta[d]
    BY <1>1, <1>2, <1>3, <1>7
  <2> QED BY <1>2, <2>2, <2>3 DEF Listed, StoredIds
<1>8. ASSUME NEW q, req' = [req EXCEPT ![w] = q], Good(q)', DeletedMeansGone',
             Emptying(q, c) \/ Listed(c)'
      PROVE  SerialInvariant'
  <2>1. InFlight' = {q}
    <3>1. req'[w] = q
      BY <1>1, <1>8 DEF TypeOK
    <3> QED BY <3>1, AloneInFlight
  <2>2. \A x \in InFlight' : Good(x)'
    BY <1>8, <2>1
  <2>3. ASSUME NEW d \in Collections, \A x \in InFlight' : ~Landing(x, d) /\ ~Emptying(x, d)
        PROVE  Listed(d)'
    BY <1>7, <1>8, <2>1, <2>3
  <2>4. failures' = 0
    BY <1>1 DEF SerialInvariant
  <2> QED BY <1>6, <1>8, <2>2, <2>3, <2>4 DEF SerialInvariant
<1>9. CASE r.todo # {key} /\ Goto(w, [r EXCEPT !.todo = r.todo \ {key}])
  <2>1. PICK q : q = [r EXCEPT !.todo = r.todo \ {key}]
    OBVIOUS
  <2>2. /\ q.op = r.op /\ q.pc = "erase" /\ q.coll = r.coll /\ q.ts = r.ts
        /\ q.todo = r.todo \ {key} /\ q.found = r.found
    BY <1>1, <2>1 DEF Request
  <2>3. Prepared(q)'
    BY <1>1, <2>2 DEF Good, Prepared, Writing
  <2>4. Emptied(q)'
    BY <1>4, <2>2 DEF Emptied
  <2>5. Fetched(q)'
    <3>1. r.op = "DelIds" => r.found = meta[c] /\ meta'[c] = meta[c]
      BY <1>1, <1>2, <1>3 DEF Good, Fetched
    <3> QED BY <1>1, <2>2, <3>1 DEF Fetched
  <2>6. Good(q)'
    BY <1>1, <1>5, <2>2, <2>3, <2>4, <2>5 DEF Good, Ahead, Landed, Passed, Writing
  <2>7. Emptying(q, c) \/ Listed(c)'
    BY <1>1, <1>7, <2>2 DEF Emptying
  <2> QED BY <1>8, <1>9, <2>1, <2>6, <2>7, NoPromise DEF Goto
<1>10. CASE /\ r.todo = {key} /\ r.op = "DelIds"
            /\ Goto(w, [r EXCEPT !.todo = {}, !.pc = "metadata"])
  <2>1. PICK q : q = [r EXCEPT !.todo = {}, !.pc = "metadata"]
    OBVIOUS
  <2>2. /\ q.op = "DelIds" /\ q.pc = "metadata" /\ q.coll = r.coll /\ q.ts = r.ts
        /\ q.todo = {} /\ q.found = r.found
    BY <1>1, <1>10, <2>1 DEF Request
  <2>3. Fetched(q)'
    <3>1. r.found = meta[c] /\ meta'[c] = meta[c]
      BY <1>1, <1>2, <1>3, <1>10 DEF Good, Fetched
    <3> QED BY <2>2, <3>1 DEF Fetched
  <2>4. Good(q)'
    BY <1>5, <1>10, <2>2, <2>3 DEF Good, Prepared, Emptied, Ahead, Landed, Passed, Writing
  <2>5. Listed(c)'
    BY <1>7, <1>10
  <2> QED BY <1>8, <1>10, <2>1, <2>4, <2>5, NoPromise DEF Goto
<1>11. CASE r.todo = {key} /\ r.op # "DelIds" /\ CollectionDone(w, r)
  <2>1. r.op \in {"DelColl", "DelAll"} => StoredIds(c)' = {} /\ meta'[c] = None
    BY <1>4, <1>11
  <2>2. Listed(c)'
    BY <1>7, <2>1 DEF Listed
  <2>3. CASE r.colls = {}
    <3>1. /\ req' = [req EXCEPT ![w] = NoRequest]
          /\ answer'.coll = r.coll /\ answer'.op = r.op
      BY <1>11, <2>3 DEF CollectionDone, Respond
    <3>2. DeletedMeansGone'
      BY <2>1, <3>1 DEF DeletedMeansGone, Answered, StoredIds
    <3> QED BY <1>8, <2>2, <3>1, <3>2, NothingExpected
  <2>4. CASE r.colls # {}
    <3>1. PICK q : q = [r EXCEPT !.pc = "getListed", !.todo = {}]
      OBVIOUS
    <3>2. q.op = "DelAll" /\ r.op = "DelAll" /\ q.pc = "getListed" /\ q.ts = r.ts
      BY <1>1, <2>4, <3>1 DEF Request
    <3>3. Good(q)'
      BY <1>5, <3>2 DEF Good, Prepared, Emptied, Fetched, Ahead, Landed, Passed, Writing
    <3>4. Goto(w, q)
      BY <1>11, <2>4, <3>1 DEF CollectionDone
    <3> QED BY <1>8, <2>2, <3>3, <3>4, NoPromise DEF Goto
  <2> QED BY <2>3, <2>4
<1> QED BY <1>9, <1>10, <1>11 DEF EraseItem

\* Time, the index and the readers leave the table and the request alone.
LEMMA SerialElse ==
  ASSUME SerialInvariant, TypeOK', Past', UNCHANGED <<table, req, failures>>,
         now' \in {now, now + 1},
         \/ answer' = None \/ answer'.op = "GetColl" \/ UNCHANGED answer
  PROVE  SerialInvariant'
<1>1. objs' = objs /\ meta' = meta /\ InFlight' = InFlight
  BY DEF table, InFlight
<1>2. ASSUME NEW r \in InFlight PROVE Good(r)'
  <2>1. r \in GoodRequest /\ Good(r) /\ TypeOK
    BY DEF InFlight, SerialInvariant, TypeOK
  <2> QED BY <2>1, GoodKept
<1>3. \A c : (Covered(c) => Covered(c)') /\ (Listed(c) => Listed(c)')
  BY CollectionKept
<1>4. DeletedMeansGone'
  <2>1. CASE answer' = None
    BY <2>1, NoPromise
  <2>2. CASE answer'.op = "GetColl"
    BY <2>2 DEF DeletedMeansGone, Answered
  <2>3. CASE UNCHANGED answer
    BY <1>1, <2>3 DEF SerialInvariant, DeletedMeansGone, Answered, StoredIds
  <2> QED BY <2>1, <2>2, <2>3
<1> QED BY <1>1, <1>2, <1>3, <1>4 DEF SerialInvariant

(***************************************************************************)
(* The invariant holds, and what follows from it.                          *)
(***************************************************************************)
LEMMA SerialInit == OneAtATime /\ Init => SerialInvariant
<1> SUFFICES ASSUME OneAtATime, Init PROVE SerialInvariant
  OBVIOUS
<1>1. TypeOK
  BY TypeInit
<1>2. \A c \in Collections : StoredIds(c) = {}
  BY DEF Init, StoredIds
<1>3. Past
  BY ReadInit DEF ReadInvariant
<1>4. \A r \in InFlight : r = NoRequest
  BY DEF Init, InFlight
<1>5. ASSUME NEW c \in Collections PROVE Covered(c) /\ Listed(c)
  <2>1. meta[c] # None => meta[c].count = 0 /\ meta[c].usage = 0
    BY DEF Init
  <2>2. Cardinality(StoredIds(c)) = 0
    BY <1>2, FS_EmptySet
  <2>3. Bytes(StoredPayloads(c)) = {}
    <3>1. DOMAIN StoredPayloads(c) = {}
      BY <1>2 DEF StoredPayloads
    <3> QED BY <3>1 DEF Bytes
  <2>4. Cardinality(Bytes(StoredPayloads(c))) = 0
    BY <2>3, FS_EmptySet
  <2> QED BY <1>2, <2>1, <2>2, <2>4 DEF Covered, Listed
<1>6. DeletedMeansGone /\ failures = 0
  BY DEF Init, DeletedMeansGone, Answered
<1> QED BY <1>1, <1>3, <1>4, <1>5, <1>6, NothingExpected DEF SerialInvariant

LEMMA SerialNext == OneAtATime /\ SerialInvariant /\ [Next]_vars => SerialInvariant'
<1> SUFFICES ASSUME OneAtATime, SerialInvariant, [Next]_vars PROVE SerialInvariant'
  OBVIOUS
<1>1. TypeOK /\ TypeOK' /\ Past'
  BY TypeNext, AgesNext, PastKept DEF SerialInvariant
<1>2. ASSUME NEW w \in Workers, Arrive(w) \/ Handle(w) PROVE SerialInvariant'
  <2>1. CASE \/ Arrive(w) \/ GetObjectForPut(w) \/ GetObjectForDelete(w)
             \/ CheckPrecondition(w) \/ GetCollectionForPost(w) \/ GetCollectionForPut(w)
             \/ GetCollectionForDelete(w)
    BY <1>1, <2>1, SerialChecks
  <2>2. CASE TakeTimestamp(w)
    BY <1>1, <2>2, SerialStamp
  <2>3. CASE BatchGet(w)
    BY <1>1, <2>3, SerialBatchGet
  <2>4. CASE \E id \in Ids : WriteObject(w, id)
    BY <1>1, <2>4, SerialWrite
  <2>5. CASE UpdateMetadata(w) \/ PutNewMetadata(w)
    BY <1>1, <2>5, SerialSettle
  <2>6. CASE PutStaleMetadata(w)
    BY <1>1, <2>6, SerialPutBack
  <2>7. CASE QueryKeys(w) \/ ListCollections(w) \/ \E c \in Collections : GetListed(w, c)
    BY <1>1, <2>7, SerialQuery
  <2>8. CASE \E key \in Ids \cup {Metadata} : EraseItem(w, key)
    BY <1>1, <2>8, SerialErase
  <2> QED BY <1>2, <2>1, <2>2, <2>3, <2>4, <2>5, <2>6, <2>7, <2>8 DEF Handle
<1>3. ASSUME NEW w \in Workers,
             \/ Crash(w) \/ PreconditionUnchecked(w) \/ \E ids \in SUBSET Ids : FlushFails(w, ids)
      PROVE  FALSE
  <2>1. failures < MaxFailures
    BY <1>3 DEF Crash, PreconditionUnchecked, FlushFails, Failing
  <2> QED BY <2>1 DEF OneAtATime, SerialInvariant
<1>4. ASSUME NEW c \in Collections, NEW ims \in OptHeaders, ReadCollection(c, ims)
      PROVE  SerialInvariant'
  <2>1. answer'.op = "GetColl" /\ now' = now /\ UNCHANGED <<table, req, failures>>
    BY <1>4 DEF ReadCollection
  <2> QED BY <1>1, <2>1, SerialElse
<1>5. CASE Tick
  <2>1. answer' = None /\ now' = now + 1 /\ UNCHANGED <<table, req, failures>>
    BY <1>5 DEF Tick
  <2> QED BY <1>1, <2>1, SerialElse
<1>6. CASE \E c \in Collections, id \in Ids : Sweep(c, id)
  BY <1>1, <1>6, SerialSweep
<1>7. ASSUME NEW c \in Collections, PropagateIndex(c) PROVE SerialInvariant'
  <2>1. answer' = None /\ now' = now /\ UNCHANGED <<table, req, failures>>
    BY <1>7 DEF PropagateIndex
  <2> QED BY <1>1, <2>1, SerialElse
<1>8. CASE UNCHANGED vars
  <2>1. UNCHANGED answer /\ now' = now /\ UNCHANGED <<table, req, failures>>
    BY <1>8 DEF vars, table
  <2> QED BY <1>1, <2>1, SerialElse
<1> QED BY <1>2, <1>3, <1>4, <1>5, <1>6, <1>7, <1>8 DEF Next

LEMMA SerialAlways == ASSUME OneAtATime PROVE Spec => []SerialInvariant
BY SerialInit, SerialNext, PTL DEF Spec

\* Between requests the invariant is about every collection.
LEMMA BetweenRequests ==
  ASSUME SerialInvariant, Quiet, NEW c \in Collections
  PROVE  Covered(c) /\ Listed(c)
BY DEF SerialInvariant, Quiet, InFlight, Landing, Emptying

\* Served one at a time, a collection that holds objects is listed when no
\* request is under way: each write creates or keeps the metadata, and only
\* a deletion of the whole collection removes it, last of all its items or
\* with none left behind.
THEOREM SerialListed == ASSUME OneAtATime PROVE Spec => []ListedWhenStored
<1>1. SerialInvariant => ListedWhenStored
  BY BetweenRequests DEF ListedWhenStored, Listed
<1> QED BY <1>1, SerialAlways, PTL

\* Its count and usage are then never below what is stored: the deltas are
\* computed from what the request saw, and nobody else writes meanwhile.
THEOREM SerialCounted == ASSUME OneAtATime PROVE Spec => []NeverUndercounted
<1>1. SerialInvariant => NeverUndercounted
  BY BetweenRequests DEF NeverUndercounted, Covered
<1> QED BY <1>1, SerialAlways, PTL

\* And no object is then newer than its collection, so that comparing a header
\* with the collection protects every object in it.
THEOREM SerialStamped == ASSUME OneAtATime PROVE Spec => []StampCoversObjects
<1>1. SerialInvariant => StampCoversObjects
  BY BetweenRequests DEF StampCoversObjects, Covered
<1> QED BY <1>1, SerialAlways, PTL

\* DELETE of a collection that answers 200 has removed every item of it: all
\* were on the list it queried, and nobody has written since.
THEOREM SerialGone == ASSUME OneAtATime PROVE Spec => []DeletedMeansGone
<1>1. SerialInvariant => DeletedMeansGone
  BY DEF SerialInvariant
<1> QED BY <1>1, SerialAlways, PTL

\* A write that passed its X-If-Unmodified-Since check never replaces an object
\* modified after the header: what was checked is still so at every write.
THEOREM SerialConditional == ASSUME OneAtATime PROVE Spec => ConditionalWriteSafe
<1>1. SerialInvariant =>
        \A w \in Workers, id \in Ids :
          LET r == req[w] IN
          (WriteObject(w, id) /\ r.ius # None /\ Live(r.coll, id) # None)
            => objs[r.coll][id].modified <= r.ius
  <2> SUFFICES ASSUME SerialInvariant, NEW w \in Workers, NEW id \in Ids,
                      WriteObject(w, id), req[w].ius # None,
                      Live(req[w].coll, id) # None
               PROVE  objs[req[w].coll][id].modified <= req[w].ius
    OBVIOUS
  <2> PICK r : r = req[w]
    OBVIOUS
  <2>1. Good(r) /\ r.pc = "write" /\ id \in r.todo /\ WellFormed(r)
    BY DEF SerialInvariant, InFlight, WriteObject, TypeOK, GoodRequest
  <2>2. r.op \in Writing
    BY <2>1 DEF WellFormed
  <2> QED BY <2>1, <2>2 DEF Good, Passed
<1> QED BY <1>1, SerialAlways, PTL DEF ConditionalWriteSafe

(***************************************************************************)
(* The refinement of the atomic store.                                     *)
(*                                                                         *)
(* The item and the stamp a collection will have are those of the table,   *)
(* but for what the one request under way is landing or removing.          *)
(***************************************************************************)
Settled(r, b, c, id) ==
  IF Landing(r, c) /\ id \in r.todo
    THEN [modified |-> r.ts, size |-> r.batch[id], expiry |-> r.expiry]
  ELSE IF Removing(r, c) /\ id \in r.todo THEN None
  ELSE b

Restamping(r, c) == r.op = "DelIds" /\ r.coll = c /\ r.pc \in {"erase", "metadata"}
Unstamping(r, c) == Removing(r, c) /\ r.op \in {"DelColl", "DelAll"}

SettledStamp(r, m, c) ==
  IF Landing(r, c) \/ Restamping(r, c) THEN r.ts
  ELSE IF Unstamping(r, c) \/ m = None THEN None
  ELSE m.modified

Visibly(b, time) ==
  IF b # None /\ b.expiry # None /\ b.expiry * TicksPerSecond < time THEN None ELSE b

\* There is one request to choose.
LEMMA ChosenWorker ==
  ASSUME OneAtATime, NEW w \in Workers, NEW S \in SUBSET Workers, S # {}
  PROVE  (CHOOSE v \in S : TRUE) = w
<1>1. (CHOOSE v \in S : TRUE) \in S
  OBVIOUS
<1> QED BY <1>1 DEF OneAtATime

LEMMA SoleItem ==
  ASSUME OneAtATime, NEW w \in Workers, NEW c, NEW id
  PROVE  /\ EventualItem(c, id) = Settled(req[w], objs[c][id], c, id)
         /\ EventualItem(c, id)' = Settled(req'[w], objs'[c][id], c, id)
<1> DEFINE L == {v \in Workers : Landing(req[v], c) /\ id \in req[v].todo}
           R == {v \in Workers : Removing(req[v], c) /\ id \in req[v].todo}
<1>1. /\ L # {} <=> Landing(req[w], c) /\ id \in req[w].todo
      /\ R # {} <=> Removing(req[w], c) /\ id \in req[w].todo
  BY DEF OneAtATime
<1>2. /\ L' # {} <=> Landing(req'[w], c) /\ id \in req'[w].todo
      /\ R' # {} <=> Removing(req'[w], c) /\ id \in req'[w].todo
  BY DEF OneAtATime
<1>3. L # {} => (CHOOSE v \in L : TRUE) = w
  <2>1. L \in SUBSET Workers
    OBVIOUS
  <2> QED BY <2>1, ChosenWorker
<1>4. L' # {} => (CHOOSE v \in L' : TRUE) = w
  <2>1. L' \in SUBSET Workers
    OBVIOUS
  <2> QED BY <2>1, ChosenWorker
<1>5. EventualItem(c, id) =
        IF L # {} THEN LET r == req[CHOOSE v \in L : TRUE]
                       IN  [modified |-> r.ts, size |-> r.batch[id], expiry |-> r.expiry]
        ELSE IF R # {} THEN None ELSE objs[c][id]
  BY DEF EventualItem
<1>6. EventualItem(c, id)' =
        IF L' # {} THEN LET r == req'[CHOOSE v \in L' : TRUE]
                        IN  [modified |-> r.ts, size |-> r.batch[id], expiry |-> r.expiry]
        ELSE IF R' # {} THEN None ELSE objs'[c][id]
  BY DEF EventualItem
<1>7. EventualItem(c, id) = Settled(req[w], objs[c][id], c, id)
  <2> HIDE DEF L, R
  <2> QED BY <1>1, <1>3, <1>5 DEF Settled
<1>8. EventualItem(c, id)' = Settled(req'[w], objs'[c][id], c, id)
  <2> HIDE DEF L, R
  <2> QED BY <1>2, <1>4, <1>6 DEF Settled
<1> QED BY <1>7, <1>8

LEMMA SoleStamp ==
  ASSUME OneAtATime, NEW w \in Workers, NEW c
  PROVE  /\ EventualStamp(c) = SettledStamp(req[w], meta[c], c)
         /\ EventualStamp(c)' = SettledStamp(req'[w], meta'[c], c)
<1> DEFINE S == {v \in Workers : Landing(req[v], c) \/
                   (req[v].op = "DelIds" /\ req[v].coll = c
                      /\ req[v].pc \in {"erase", "metadata"})}
           D == {v \in Workers : Removing(req[v], c)
                                   /\ req[v].op \in {"DelColl", "DelAll"}}
<1>1. /\ S # {} <=> Landing(req[w], c) \/ Restamping(req[w], c)
      /\ D # {} <=> Unstamping(req[w], c)
  BY DEF OneAtATime, Restamping, Unstamping
<1>2. /\ S' # {} <=> Landing(req'[w], c) \/ Restamping(req'[w], c)
      /\ D' # {} <=> Unstamping(req'[w], c)
  BY DEF OneAtATime, Restamping, Unstamping
<1>3. S # {} => (CHOOSE v \in S : TRUE) = w
  <2>1. S \in SUBSET Workers
    OBVIOUS
  <2> QED BY <2>1, ChosenWorker
<1>4. S' # {} => (CHOOSE v \in S' : TRUE) = w
  <2>1. S' \in SUBSET Workers
    OBVIOUS
  <2> QED BY <2>1, ChosenWorker
<1>5. EventualStamp(c) =
        IF S # {} THEN req[CHOOSE v \in S : TRUE].ts
        ELSE IF D # {} \/ meta[c] = None THEN None ELSE meta[c].modified
  BY DEF EventualStamp
<1>6. EventualStamp(c)' =
        IF S' # {} THEN req'[CHOOSE v \in S' : TRUE].ts
        ELSE IF D' # {} \/ meta'[c] = None THEN None ELSE meta'[c].modified
  BY DEF EventualStamp
<1>7. EventualStamp(c) = SettledStamp(req[w], meta[c], c)
  <2> HIDE DEF S, D
  <2> QED BY <1>1, <1>3, <1>5 DEF SettledStamp
<1>8. EventualStamp(c)' = SettledStamp(req'[w], meta'[c], c)
  <2> HIDE DEF S, D
  <2> QED BY <1>2, <1>4, <1>6 DEF SettledStamp
<1> QED BY <1>7, <1>8

\* What the abstract store holds, before and after a step.
LEMMA StoreShown ==
  /\ EventualStore = [c \in Collections |-> [id \in Ids |-> Visibly(EventualItem(c, id), now)]]
  /\ EventualStore' = [c \in Collections |-> [id \in Ids |-> Visibly(EventualItem(c, id)', now')]]
BY DEF EventualStore, Expired, Visibly

(***************************************************************************)
(* The steps of the atomic store, told by the items and the stamps.        *)
(***************************************************************************)
StampsNow == [c \in Collections |-> EventualStamp(c)]

LEMMA MapStutter ==
  ASSUME now' = now,
         \A c \in Collections : EventualStamp(c)' = EventualStamp(c),
         \A c \in Collections, id \in Ids :
           Visibly(EventualItem(c, id)', now) = Visibly(EventualItem(c, id), now)
  PROVE  UNCHANGED Atomic!vars
<1>1. EventualStore' = EventualStore
  BY StoreShown
<1>2. StampsNow' = StampsNow
  BY DEF StampsNow
<1> QED BY <1>1, <1>2 DEF Atomic!vars, StampsNow

\* What a later time shows of what an earlier one showed.
LEMMA VisiblyTwice == \A b, t : Visibly(Visibly(b, t), t) = Visibly(b, t)
BY DEF Visibly

LEMMA MapWrite ==
  ASSUME now' = now, NEW c \in Collections, NEW ids \in SUBSET Ids, NEW t \in 1 .. now,
         NEW size \in [ids -> Sizes], NEW expiry \in Atomic!Expiries(t),
         EventualStamp(c) # None => EventualStamp(c) <= t,
         \A d \in Collections :
           EventualStamp(d)' = IF d = c THEN t ELSE EventualStamp(d),
         \A d \in Collections, id \in Ids :
           EventualItem(d, id)' =
             IF d = c /\ id \in ids
               THEN [modified |-> t, size |-> size[id], expiry |-> expiry]
               ELSE EventualItem(d, id)
  PROVE  Atomic!Write(c, ids)
<1> DEFINE new == [id \in Ids |->
                     IF id \in ids
                       THEN [modified |-> t, size |-> size[id], expiry |-> expiry]
                       ELSE EventualStore[c][id]]
           mid == [EventualStore EXCEPT ![c] = new]
<1>1. StampsNow' = [StampsNow EXCEPT ![c] = t]
  BY DEF StampsNow
<1>2. StampsNow[c] = EventualStamp(c)
  BY DEF StampsNow
<1>3. \A d \in Collections, id \in Ids :
        mid[d][id] = IF d = c /\ id \in ids
                       THEN [modified |-> t, size |-> size[id], expiry |-> expiry]
                       ELSE Visibly(EventualItem(d, id), now)
  BY StoreShown
<1>4. \A d \in Collections, id \in Ids :
        Visibly(EventualItem(d, id)', now) = Visibly(mid[d][id], now)
  BY <1>3, VisiblyTwice
<1>5. EventualStore' = [d \in Collections |-> [id \in Ids |-> Visibly(mid[d][id], now)]]
  <2> HIDE DEF mid
  <2> QED BY <1>4, StoreShown
<1>6. Atomic!Visible(mid, now) =
        [d \in Collections |-> [id \in Ids |-> Visibly(mid[d][id], now)]]
  <2> HIDE DEF mid
  <2> QED BY DEF Atomic!Visible, Atomic!Gone, Visibly
<1>7. EventualStore' = Atomic!Visible(mid, now)
  BY <1>5, <1>6
<1> QED BY <1>1, <1>2, <1>7 DEF Atomic!Write, StampsNow

LEMMA MapWithout ==
  ASSUME now' = now, NEW c \in Collections, NEW ids \in SUBSET Ids,
         \A d \in Collections, id \in Ids :
           EventualItem(d, id)' = IF d = c /\ id \in ids THEN None ELSE EventualItem(d, id)
  PROVE  EventualStore' = Atomic!Without(c, ids)
<1> DEFINE mid == [EventualStore EXCEPT ![c] =
                     [id \in Ids |-> IF id \in ids THEN None ELSE EventualStore[c][id]]]
<1>1. \A d \in Collections, id \in Ids :
        mid[d][id] = IF d = c /\ id \in ids THEN None
                     ELSE Visibly(EventualItem(d, id), now)
  BY StoreShown
<1>2. \A d \in Collections, id \in Ids : Visibly(EventualItem(d, id)', now) = mid[d][id]
  BY <1>1 DEF Visibly
<1>3. mid = [d \in Collections |-> [id \in Ids |-> mid[d][id]]]
  BY StoreShown
<1>4. EventualStore' = mid
  <2> HIDE DEF mid
  <2> QED BY <1>2, <1>3, StoreShown
<1> QED BY <1>4 DEF Atomic!Without

(***************************************************************************)
(* What else the refinement rests on.                                      *)
(***************************************************************************)
\* A deletion of a whole collection has found the collection there, and every
\* time given out is one of the clock's.
Targeted(r) ==
  /\ (r.pc = "query" \/ (r.op = "DelColl" /\ r.pc = "stamp")) => meta[r.coll] # None
  /\ r.pc \in Stamped => r.ts # 0

RefinementInvariant == SerialInvariant /\ \A r \in InFlight : Targeted(r)

LEMMA RefinementInit == OneAtATime /\ Init => RefinementInvariant
<1> SUFFICES ASSUME OneAtATime, Init PROVE RefinementInvariant
  OBVIOUS
<1>1. \A r \in InFlight : r = NoRequest
  BY DEF Init, InFlight
<1> QED BY <1>1, SerialInit DEF RefinementInvariant, Targeted, NoRequest, Stamped

LEMMA RefinementNext ==
  OneAtATime /\ RefinementInvariant /\ [Next]_vars => RefinementInvariant'
<1> SUFFICES ASSUME OneAtATime, RefinementInvariant, [Next]_vars PROVE RefinementInvariant'
  OBVIOUS
<1>1. SerialInvariant' /\ TypeOK /\ TypeOK' /\ Ages /\ failures = 0
  BY SerialNext, TypeNext, AgesNext DEF RefinementInvariant, SerialInvariant
<1>2. SUFFICES ASSUME NEW w \in Workers PROVE Targeted(req[w])'
  BY <1>1 DEF RefinementInvariant, InFlight
<1> PICK r : r = req[w]
  OBVIOUS
<1> PICK q : q = req'[w]
  OBVIOUS
<1>3. /\ r \in Request /\ WellFormed(r) /\ Targeted(r) /\ SerialInvariant
      /\ q \in Request /\ WellFormed(q) /\ now # 0
      /\ \A v \in Workers : v = w
  BY <1>1 DEF RefinementInvariant, InFlight, TypeOK, GoodRequest, OneAtATime
<1>4. q.pc \in Stamped => q.ts # 0
  BY <1>1, <1>3 DEF Ages, Targeted
<1>5. ASSUME ~(q.pc = "query" \/ (q.op = "DelColl" /\ q.pc = "stamp"))
      PROVE  Targeted(req[w])'
  BY <1>4, <1>5 DEF Targeted
<1>6. ASSUME meta'[q.coll] # None PROVE Targeted(req[w])'
  BY <1>4, <1>6 DEF Targeted
<1>7. ASSUME NEW x, req' = [req EXCEPT ![w] = x] PROVE q = x
  BY <1>1, <1>7 DEF TypeOK
<1>8. CASE UNCHANGED <<req, meta>>
  BY <1>3, <1>4, <1>8 DEF Targeted
<1>9. ASSUME NEW status, Respond(w, status) PROVE Targeted(req[w])'
  <2>1. q = NoRequest
    BY <1>7, <1>9 DEF Respond
  <2> QED BY <1>5, <2>1 DEF NoRequest
<1>10. ASSUME NEW x \in Request, CollectionDone(w, x) PROVE Targeted(req[w])'
  <2>1. CASE Respond(w, 200)
    BY <1>9, <2>1
  <2>2. CASE Goto(w, [x EXCEPT !.pc = "getListed", !.todo = {}])
    <3>1. q = [x EXCEPT !.pc = "getListed", !.todo = {}]
      BY <1>7, <2>2 DEF Goto
    <3>2. q.pc = "getListed"
      BY <3>1 DEF Request
    <3> QED BY <1>5, <3>2
  <2> QED BY <1>10, <2>1, <2>2 DEF CollectionDone
<1>11. ASSUME NEW x, Goto(w, x), x.pc # "query", x.pc = "stamp" => x.op # "DelColl"
       PROVE  Targeted(req[w])'
  BY <1>5, <1>7, <1>11 DEF Goto

<1>12. CASE Arrive(w)
  <2>1. PICK x \in Requests : Goto(w, x)
    BY <1>12 DEF Arrive
  <2>2. x \in Fresh
    BY <2>1, RequestsTyped
  <2> QED BY <1>11, <2>1, <2>2 DEF Fresh
<1>13. CASE GetObjectForPut(w)
  <2>1. PICK x : x = [r EXCEPT !.pc = "stamp",
                               !.seen = [i \in r.todo \cap LiveIds(r.coll) |->
                                           objs[r.coll][i].size]]
    OBVIOUS
  <2>2. Respond(w, 412) \/ Goto(w, x)
    BY <1>13, <2>1 DEF GetObjectForPut
  <2>3. x.op = "PutBso" /\ x.pc = "stamp"
    BY <1>3, <1>13, <2>1 DEF GetObjectForPut, Request
  <2> QED BY <1>9, <1>11, <2>2, <2>3
<1>14. CASE GetObjectForDelete(w)
  <2>1. PICK x : x = [r EXCEPT !.pc = "stamp"]
    OBVIOUS
  <2>2. x.op = "DelBso" /\ x.pc = "stamp"
    BY <1>3, <1>14, <2>1 DEF GetObjectForDelete, Request
  <2> QED BY <1>9, <1>11, <1>14, <2>1, <2>2 DEF GetObjectForDelete
<1>15. CASE CheckPrecondition(w)
  <2>1. PICK x : x = [r EXCEPT !.pc = "getCollection"]
    OBVIOUS
  <2>2. x.pc = "getCollection"
    BY <1>3, <2>1 DEF Request
  <2> QED BY <1>9, <1>11, <1>15, <2>1, <2>2 DEF CheckPrecondition
<1>16. CASE GetCollectionForPost(w) \/ GetCollectionForPut(w)
  <2>1. PICK x : x = [r EXCEPT !.pc = "stamp", !.found = meta[r.coll]]
    OBVIOUS
  <2>2. x.op # "DelColl" /\ x.pc = "stamp"
    BY <1>3, <1>16, <2>1 DEF GetCollectionForPost, GetCollectionForPut, Request
  <2>3. Respond(w, 404) \/ Respond(w, 412) \/ Goto(w, x)
    BY <1>16, <2>1 DEF GetCollectionForPost, GetCollectionForPut
  <2> QED BY <1>9, <1>11, <2>2, <2>3
<1>17. CASE GetCollectionForDelete(w)
  <2>1. PICK x : x = [r EXCEPT !.pc = "stamp", !.found = meta[r.coll]]
    OBVIOUS
  <2>2. \/ Respond(w, 200)
        \/ meta[r.coll] # None /\ Goto(w, x)
    BY <1>17, <2>1 DEF GetCollectionForDelete
  <2>3. CASE meta[r.coll] # None /\ Goto(w, x)
    <3>1. q = x /\ x.coll = r.coll /\ meta' = meta
      BY <1>3, <1>7, <1>17, <2>1, <2>3 DEF Goto, GetCollectionForDelete, table, Request
    <3> QED BY <1>6, <2>3, <3>1
  <2> QED BY <1>9, <2>2, <2>3
<1>18. CASE TakeTimestamp(w)
  <2>1. PICK x : x = [r EXCEPT !.pc = AfterStamp(r), !.ts = now, !.expiry = Expiry(r.ttl)]
    OBVIOUS
  <2>2. /\ q = x /\ x.coll = r.coll /\ x.op = r.op /\ x.pc = AfterStamp(r)
        /\ meta' = meta /\ r.pc = "stamp" /\ Goto(w, x)
    BY <1>3, <1>7, <1>18, <2>1 DEF Goto, TakeTimestamp, table, Request
  <2>3. CASE r.op = "DelColl"
    <3>1. meta'[q.coll] # None
      BY <1>3, <2>2, <2>3 DEF Targeted
    <3> QED BY <1>6, <3>1
  <2>4. CASE r.op # "DelColl"
    <3>1. x.pc \notin {"query", "stamp"}
      BY <2>2, <2>4 DEF AfterStamp
    <3> QED BY <1>11, <2>2, <3>1
  <2> QED BY <2>3, <2>4
<1>19. CASE BatchGet(w)
  <2>1. PICK x : x = [r EXCEPT !.pc = "write", !.expiry = Expiry(r.ttl),
                               !.seen = [i \in DOMAIN r.batch \cap LiveIds(r.coll) |->
                                           objs[r.coll][i].size]]
    OBVIOUS
  <2>2. x.pc = "write"
    BY <1>3, <2>1 DEF Request
  <2> QED BY <1>11, <1>19, <2>1, <2>2 DEF BatchGet
<1>20. ASSUME NEW id \in Ids, WriteObject(w, id) PROVE Targeted(req[w])'
  <2>1. PICK x : x = [r EXCEPT !.todo = r.todo \ {id},
                               !.pc = IF r.todo = {id} THEN "metadata" ELSE "write"]
    OBVIOUS
  <2>2. x.pc \in {"metadata", "write"}
    BY <1>3, <2>1 DEF Request
  <2> QED BY <1>11, <1>20, <2>1, <2>2 DEF WriteObject
<1>21. CASE UpdateMetadata(w) \/ PutNewMetadata(w) \/ PutStaleMetadata(w)
  BY <1>9, <1>21 DEF UpdateMetadata, PutNewMetadata, PutStaleMetadata
<1>22. CASE QueryKeys(w)
  <2>1. PICK x : x = [r EXCEPT !.pc = "erase", !.todo = KeysOf(r.coll)]
    OBVIOUS
  <2>2. x.pc = "erase"
    BY <1>3, <2>1 DEF Request
  <2>3. CollectionDone(w, r) \/ Goto(w, x)
    BY <1>22, <2>1 DEF QueryKeys
  <2> QED BY <1>3, <1>10, <1>11, <2>2, <2>3
<1>23. CASE ListCollections(w)
  <2>1. PICK x : x = [r EXCEPT !.colls = {c \in Collections : index[c] # None}]
    OBVIOUS
  <2>2. x \in Request
    BY <1>3, <2>1 DEF Request
  <2> QED BY <1>10, <1>23, <2>1, <2>2 DEF ListCollections
<1>24. ASSUME NEW key \in Ids \cup {Metadata}, EraseItem(w, key) PROVE Targeted(req[w])'
  <2>1. CASE Goto(w, [r EXCEPT !.todo = r.todo \ {key}])
    <3>1. PICK x : x = [r EXCEPT !.todo = r.todo \ {key}]
      OBVIOUS
    <3>2. x.pc = "erase"
      BY <1>3, <1>24, <3>1 DEF Request, EraseItem
    <3> QED BY <1>11, <2>1, <3>1, <3>2
  <2>2. CASE Goto(w, [r EXCEPT !.todo = {}, !.pc = "metadata"])
    <3>1. PICK x : x = [r EXCEPT !.todo = {}, !.pc = "metadata"]
      OBVIOUS
    <3>2. x.pc = "metadata"
      BY <1>3, <3>1 DEF Request
    <3> QED BY <1>11, <2>2, <3>1, <3>2
  <2> QED BY <1>3, <1>10, <1>24, <2>1, <2>2 DEF EraseItem
<1>25. ASSUME NEW c \in Collections, GetListed(w, c) PROVE Targeted(req[w])'
  <2>1. PICK s : s = [r EXCEPT !.coll = c, !.colls = @ \ {c}]
    OBVIOUS
  <2>2. s \in Request /\ s.coll = c
    BY <1>3, <2>1 DEF Request
  <2>3. PICK x : x = [s EXCEPT !.pc = "query"]
    OBVIOUS
  <2>4. CollectionDone(w, s) \/ (meta[c] # None /\ Goto(w, x) /\ meta' = meta)
    BY <1>25, <2>1, <2>3 DEF GetListed, table
  <2>5. CASE meta[c] # None /\ Goto(w, x) /\ meta' = meta
    <3>1. q = x /\ x.coll = c
      BY <1>7, <2>2, <2>3, <2>5 DEF Goto, Request
    <3> QED BY <1>6, <2>5, <3>1
  <2> QED BY <1>10, <2>2, <2>4, <2>5
<1>26. ASSUME \/ Crash(w) \/ PreconditionUnchecked(w)
              \/ \E ids \in SUBSET Ids : FlushFails(w, ids)
       PROVE  FALSE
  <2>1. failures < MaxFailures
    BY <1>26 DEF Crash, PreconditionUnchecked, FlushFails, Failing
  <2> QED BY <1>1, <2>1 DEF OneAtATime
<1>27. CASE Handle(w)
  BY <1>13, <1>14, <1>15, <1>16, <1>17, <1>18, <1>19, <1>20, <1>21, <1>22, <1>23, <1>24,
     <1>25, <1>27 DEF Handle
<1>28. CASE \/ \E c \in Collections, ims \in OptHeaders : ReadCollection(c, ims)
            \/ Tick \/ \E c \in Collections, id \in Ids : Sweep(c, id)
            \/ \E c \in Collections : PropagateIndex(c)
            \/ UNCHANGED vars
  BY <1>8, <1>28 DEF ReadCollection, Tick, Sweep, PropagateIndex, vars, table
<1>29. [Next]_vars =>
         \/ Arrive(w) \/ Handle(w) \/ Crash(w) \/ PreconditionUnchecked(w)
         \/ \E ids \in SUBSET Ids : FlushFails(w, ids)
         \/ \E c \in Collections, ims \in OptHeaders : ReadCollection(c, ims)
         \/ Tick \/ \E c \in Collections, id \in Ids : Sweep(c, id)
         \/ \E c \in Collections : PropagateIndex(c)
         \/ UNCHANGED vars
  BY <1>3 DEF Next
<1> QED BY <1>12, <1>26, <1>27, <1>28, <1>29

LEMMA RefinementAlways == ASSUME OneAtATime PROVE Spec => []RefinementInvariant
BY RefinementInit, RefinementNext, PTL DEF Spec

(***************************************************************************)
(* Every step maps to a step of the atomic store, or to none.              *)
(***************************************************************************)
LEMMA RefinementSole ==
  ASSUME OneAtATime, RefinementInvariant, NEW w \in Workers
  PROVE  /\ Good(req[w]) /\ Targeted(req[w]) /\ req[w] \in Request /\ WellFormed(req[w])
         /\ SerialInvariant /\ TypeOK /\ Past /\ failures = 0
<1>1. Targeted(req[w]) /\ SerialInvariant
  BY DEF RefinementInvariant, InFlight
<1> QED BY <1>1, Sole DEF SerialInvariant

\* The labels of a request that has something still to land or to remove.
Busy == {"write", "metadata", "erase"}

\* Without such a request the store is what the table shows.
LEMMA NothingPending ==
  ASSUME NEW r, r.pc \notin Busy
  PROVE  /\ \A b, c, id : Settled(r, b, c, id) = b
         /\ \A m, c : SettledStamp(r, m, c) = IF m = None THEN None ELSE m.modified
<1>1. \A c : ~Landing(r, c) /\ ~Removing(r, c) /\ ~Restamping(r, c) /\ ~Unstamping(r, c)
  BY DEF Busy, Landing, Removing, Restamping, Unstamping
<1> QED BY <1>1 DEF Settled, SettledStamp

\* Lookups and checks are no step of the store.
LEMMA MapLookup ==
  ASSUME OneAtATime, NEW w \in Workers, UNCHANGED <<table, now>>,
         req[w].pc \notin Busy, req'[w].pc \notin Busy
  PROVE  UNCHANGED Atomic!vars
<1>1. objs' = objs /\ meta' = meta /\ now' = now
  BY DEF table
<1>2. \A c \in Collections, id \in Ids : EventualItem(c, id)' = EventualItem(c, id)
  BY <1>1, SoleItem, NothingPending
<1>3. \A c \in Collections : EventualStamp(c)' = EventualStamp(c)
  BY <1>1, SoleStamp, NothingPending
<1> QED BY <1>1, <1>2, <1>3, MapStutter

\* The expiry of a write is one the store offers.
LEMMA ExpiryOffered ==
  ASSUME TypeOK, NEW t \in Nat, t <= now, NEW ttl \in TTLs \cup {None}
  PROVE  Expiry(ttl) \in Atomic!Expiries(t)
<1>1. now \in t .. now
  BY DEF TypeOK
<1> QED BY <1>1 DEF Expiry, Atomic!Expiries

\* With its timestamp, a write that looks at nothing more, or a deletion of
\* named objects, takes effect.
LEMMA MapTimestamp ==
  ASSUME OneAtATime, RefinementInvariant, NEW w \in Workers, TakeTimestamp(w)
  PROVE  [Atomic!Next]_(Atomic!vars)
<1> PICK r : r = req[w]
  OBVIOUS
<1> PICK q : q = [r EXCEPT !.pc = AfterStamp(r), !.ts = now, !.expiry = Expiry(r.ttl)]
  OBVIOUS
<1>1. /\ r \in Request /\ WellFormed(r) /\ Good(r) /\ r.pc = "stamp" /\ TypeOK /\ Past
      /\ objs' = objs /\ meta' = meta /\ now' = now /\ UNCHANGED <<table, now>>
  BY RefinementSole DEF TakeTimestamp, table
<1>2. /\ q.op = r.op /\ q.pc = AfterStamp(r) /\ q.coll = r.coll /\ q.batch = r.batch
      /\ q.todo = r.todo /\ q.ts = now /\ q.expiry = Expiry(r.ttl)
  BY <1>1 DEF Request
<1>3. req'[w] = q
  BY <1>1 DEF TakeTimestamp, Goto, TypeOK
<1>4. /\ \A c, id : EventualItem(c, id) = objs[c][id]
      /\ \A c : EventualStamp(c) = IF meta[c] = None THEN None ELSE meta[c].modified
  <2>1. r.pc \notin Busy
    BY <1>1 DEF Busy
  <2> QED BY <2>1, SoleItem, SoleStamp, NothingPending
<1>5. /\ \A c, id : EventualItem(c, id)' = Settled(q, objs[c][id], c, id)
      /\ \A c : EventualStamp(c)' = SettledStamp(q, meta[c], c)
  <2>1. objs' = objs /\ meta' = meta
    BY <1>1
  <2> QED BY <1>3, <2>1, SoleItem, SoleStamp
<1>6. \A c \in Collections : EventualStamp(c) # None => EventualStamp(c) \in Nat /\ EventualStamp(c) <= now
  BY <1>1, <1>4 DEF Past, TypeOK, Meta
<1>7. now \in Nat /\ now \in 1 .. now
  BY <1>1 DEF TypeOK
<1>8. /\ r.op \in {"DelBso", "DelIds"} => q.pc = "erase" /\ r.coll \in Collections /\ r.todo \subseteq Ids
      /\ r.op = "DelColl" => q.pc = "query"
      /\ r.op = "DelAll" => q.pc = "list"
      /\ r.op \in Writing => q.pc \in {"metadata", "batchGet", "write"} /\ r.coll \in Collections
      /\ r.op \in {"DelBso", "DelIds", "DelColl", "DelAll"} \cup Writing
  <2>1. r.op # "none"
    BY <1>1 DEF WellFormed
  <2> QED BY <1>1, <1>2, <2>1, AfterStampLabels DEF WellFormed, Writing, Good, Prepared
<1>9. CASE q.pc \notin Busy
  BY <1>1, <1>3, <1>9, MapLookup DEF Busy
<1>10. CASE r.op \in Writing /\ q.pc \in Busy
  <2> PICK c \in Collections : c = r.coll
    BY <1>8, <1>10
  <2>1. Landing(q, c) /\ r.todo = DOMAIN r.batch
    BY <1>1, <1>2, <1>8, <1>10 DEF Landing, Writing, Busy, Good, Prepared
  <2>2. \A d : d # c => /\ ~Landing(q, d) /\ ~Removing(q, d)
                        /\ ~Restamping(q, d) /\ ~Unstamping(q, d)
    BY <1>2 DEF Landing, Removing, Restamping, Unstamping
  <2>3. ~Removing(q, c)
    BY <1>8, <1>10 DEF Removing, Busy
  <2>4. r.batch \in [r.todo -> Sizes] /\ r.todo \in SUBSET Ids
    BY <1>1, <2>1 DEF Request, Payloads
  <2>5. Expiry(r.ttl) \in Atomic!Expiries(now)
    BY <1>1, <1>7, ExpiryOffered DEF Request
  <2>6. \A d \in Collections :
          EventualStamp(d)' = IF d = c THEN now ELSE EventualStamp(d)
    BY <1>2, <1>4, <1>5, <2>1, <2>2 DEF SettledStamp
  <2>7. \A d \in Collections, id \in Ids :
          EventualItem(d, id)' =
            IF d = c /\ id \in r.todo
              THEN [modified |-> now, size |-> r.batch[id], expiry |-> Expiry(r.ttl)]
              ELSE EventualItem(d, id)
    BY <1>2, <1>4, <1>5, <2>1, <2>2, <2>3 DEF Settled
  <2>8. PICK t : t = now
    OBVIOUS
  <2>9. PICK e : e = Expiry(r.ttl)
    OBVIOUS
  <2>10. Atomic!Write(c, r.todo)
    <3>1. t \in 1 .. now /\ e \in Atomic!Expiries(t)
      BY <1>7, <2>5, <2>8, <2>9
    <3>2. EventualStamp(c) # None => EventualStamp(c) <= t
      BY <1>6, <2>8
    <3>3. \A d \in Collections :
            EventualStamp(d)' = IF d = c THEN t ELSE EventualStamp(d)
      BY <2>6, <2>8
    <3>4. \A d \in Collections, id \in Ids :
            EventualItem(d, id)' =
              IF d = c /\ id \in r.todo
                THEN [modified |-> t, size |-> r.batch[id], expiry |-> e]
                ELSE EventualItem(d, id)
      BY <2>7, <2>8, <2>9
    <3> QED BY <1>1, <2>4, <3>1, <3>2, <3>3, <3>4, MapWrite
  <2> QED BY <2>4, <2>10 DEF Atomic!Next
<1>11. CASE r.op \in {"DelBso", "DelIds"}
  <2> PICK c \in Collections : c = r.coll
    BY <1>8, <1>11
  <2>1. \A d : ~Landing(q, d) /\ ~Unstamping(q, d) /\ (Removing(q, d) <=> d = c)
    BY <1>2, <1>8, <1>11 DEF Landing, Removing, Unstamping
  <2>2. \A d \in Collections, id \in Ids :
          EventualItem(d, id)' = IF d = c /\ id \in r.todo THEN None ELSE EventualItem(d, id)
    BY <1>2, <1>4, <1>5, <2>1 DEF Settled
  <2>3. r.todo \in SUBSET Ids
    BY <1>8, <1>11
  <2>4. EventualStore' = Atomic!Without(c, r.todo)
    BY <1>1, <2>2, <2>3, MapWithout
  <2>5. CASE r.op = "DelIds"
    <3>1. meta[c] # None
      BY <1>1, <2>5 DEF Good, Fetched, WellFormed
    <3>2. StampsNow' = [StampsNow EXCEPT ![c] = now]
      <4>1. \A d \in Collections : EventualStamp(d)' = IF d = c THEN now ELSE EventualStamp(d)
        BY <1>2, <1>4, <1>5, <1>8, <2>1, <2>5 DEF SettledStamp, Restamping
      <4> QED BY <4>1 DEF StampsNow
    <3>3. StampsNow[c] # None /\ now \in StampsNow[c] .. now
      <4>1. EventualStamp(c) \in Nat
        BY <1>1, <1>4, <3>1 DEF TypeOK, Meta
      <4>2. EventualStamp(c) # None
        BY <4>1, StorageAssumption
      <4> QED BY <1>6, <1>7, <4>1, <4>2 DEF StampsNow
    <3>4. Atomic!DeleteObjects(c, r.todo)
      BY <1>1, <2>4, <3>2, <3>3 DEF Atomic!DeleteObjects, StampsNow
    <3> QED BY <2>3, <3>4 DEF Atomic!Next
  <2>6. CASE r.op = "DelBso"
    <3>1. \A d \in Collections : EventualStamp(d)' = EventualStamp(d)
      BY <1>2, <1>4, <1>5, <2>1, <2>6 DEF SettledStamp, Restamping
    <3>2. StampsNow' = StampsNow
      BY <3>1 DEF StampsNow
    <3>3. CASE \A id \in r.todo : EventualStore[c][id] = None
      <4>1. \A d \in Collections, id \in Ids :
              Visibly(EventualItem(d, id)', now) = Visibly(EventualItem(d, id), now)
        <5> SUFFICES ASSUME NEW d \in Collections, NEW id \in Ids
                     PROVE  Visibly(EventualItem(d, id)', now) = Visibly(EventualItem(d, id), now)
          OBVIOUS
        <5>1. CASE d = c /\ id \in r.todo
          <6>1. Visibly(EventualItem(d, id), now) = None
            BY <3>3, <5>1, StoreShown
          <6>2. Visibly(EventualItem(d, id)', now) = None
            BY <2>2, <5>1 DEF Visibly
          <6> QED BY <6>1, <6>2
        <5>2. CASE ~(d = c /\ id \in r.todo)
          BY <2>2, <5>2
        <5> QED BY <5>1, <5>2
      <4> QED BY <1>1, <3>1, <4>1, MapStutter
    <3>4. ASSUME NEW id \in r.todo, EventualStore[c][id] # None PROVE Atomic!DeleteObject(c, id)
      <4>1. r.todo = {id}
        BY <1>1, <2>6, <3>4 DEF Good, Prepared
      <4> QED BY <1>1, <2>4, <3>2, <3>4, <4>1 DEF Atomic!DeleteObject, StampsNow
    <3> QED BY <2>3, <3>3, <3>4 DEF Atomic!Next
  <2> QED BY <1>11, <2>5, <2>6
<1> QED BY <1>8, <1>9, <1>10, <1>11 DEF Busy

\* A batch that has read the objects it replaces takes effect.
LEMMA MapBatchGet ==
  ASSUME OneAtATime, RefinementInvariant, NEW w \in Workers, BatchGet(w)
  PROVE  [Atomic!Next]_(Atomic!vars)
<1> PICK r : r = req[w]
  OBVIOUS
<1>0. PICK q : q = [r EXCEPT !.pc = "write", !.expiry = Expiry(r.ttl),
                             !.seen = [i \in DOMAIN r.batch \cap LiveIds(r.coll) |->
                                         objs[r.coll][i].size]]
  OBVIOUS
<1>1. /\ r \in Request /\ WellFormed(r) /\ Good(r) /\ Targeted(r) /\ r.pc = "batchGet"
      /\ TypeOK /\ Past
      /\ objs' = objs /\ meta' = meta /\ now' = now
  BY RefinementSole DEF BatchGet, table
<1>2. /\ q.op = r.op /\ q.pc = "write" /\ q.coll = r.coll /\ q.batch = r.batch
      /\ q.todo = r.todo /\ q.ts = r.ts /\ q.expiry = Expiry(r.ttl)
  BY <1>0, <1>1 DEF Request
<1>3. req'[w] = q
  BY <1>0, <1>1 DEF BatchGet, Goto, TypeOK
<1>4. /\ \A c, id : EventualItem(c, id) = objs[c][id]
      /\ \A c : EventualStamp(c) = IF meta[c] = None THEN None ELSE meta[c].modified
  <2>1. r.pc \notin Busy
    BY <1>1 DEF Busy
  <2> QED BY <2>1, SoleItem, SoleStamp, NothingPending
<1>5. /\ \A c, id : EventualItem(c, id)' = Settled(q, objs[c][id], c, id)
      /\ \A c : EventualStamp(c)' = SettledStamp(q, meta[c], c)
  <2>1. objs' = objs /\ meta' = meta
    BY <1>1
  <2> QED BY <1>3, <2>1, SoleItem, SoleStamp
<1>6. r.op \in Writing /\ r.coll \in Collections /\ r.todo = DOMAIN r.batch
  BY <1>1 DEF WellFormed, Writing, Good, Prepared
<1> PICK c \in Collections : c = r.coll
  BY <1>6
<1>7. Landing(q, c) /\ ~Removing(q, c)
  BY <1>2, <1>6 DEF Landing, Removing, Writing
<1>8. \A d : d # c => /\ ~Landing(q, d) /\ ~Removing(q, d)
                      /\ ~Restamping(q, d) /\ ~Unstamping(q, d)
  BY <1>2 DEF Landing, Removing, Restamping, Unstamping
<1>9. PICK t : t = r.ts
  OBVIOUS
<1>10. PICK e : e = Expiry(r.ttl)
  OBVIOUS
<1>11. t \in Nat /\ t <= now /\ t \in 1 .. now
  BY <1>1, <1>9 DEF Request, Past, Targeted, Stamped, TypeOK
<1>12. e \in Atomic!Expiries(t)
  BY <1>1, <1>10, <1>11, ExpiryOffered DEF Request
<1>13. r.batch \in [r.todo -> Sizes] /\ r.todo \in SUBSET Ids
  BY <1>1, <1>6 DEF Request, Payloads
<1>14. EventualStamp(c) # None => EventualStamp(c) <= t
  BY <1>1, <1>4, <1>9 DEF Good, Latest, Stamped
<1>15. \A d \in Collections : EventualStamp(d)' = IF d = c THEN t ELSE EventualStamp(d)
  BY <1>2, <1>4, <1>5, <1>7, <1>8, <1>9 DEF SettledStamp
<1>16. \A d \in Collections, id \in Ids :
         EventualItem(d, id)' =
           IF d = c /\ id \in r.todo
             THEN [modified |-> t, size |-> r.batch[id], expiry |-> e]
             ELSE EventualItem(d, id)
  BY <1>2, <1>4, <1>5, <1>7, <1>8, <1>9, <1>10 DEF Settled
<1>17. Atomic!Write(c, r.todo)
  BY <1>1, <1>11, <1>12, <1>13, <1>14, <1>15, <1>16, MapWrite
<1> QED BY <1>13, <1>17 DEF Atomic!Next

\* A collection is gone when the list of its keys is read.
LEMMA MapQuery ==
  ASSUME OneAtATime, RefinementInvariant, NEW w \in Workers, QueryKeys(w)
  PROVE  [Atomic!Next]_(Atomic!vars)
<1> PICK r : r = req[w]
  OBVIOUS
<1> PICK q : q = [r EXCEPT !.pc = "erase", !.todo = KeysOf(r.coll)]
  OBVIOUS
<1>1. /\ r \in Request /\ WellFormed(r) /\ Targeted(r) /\ r.pc = "query"
      /\ r.coll \in Collections /\ r.op \in {"DelColl", "DelAll"} /\ TypeOK
      /\ objs' = objs /\ meta' = meta /\ now' = now
  <2>1. r \in Request /\ WellFormed(r) /\ Targeted(r) /\ TypeOK /\ r.pc = "query"
    BY RefinementSole DEF QueryKeys
  <2> QED BY <2>1 DEF QueryKeys, table, WellFormed
<1> PICK c \in Collections : c = r.coll
  BY <1>1
<1>2. meta[c] # None
  BY <1>1 DEF Targeted
<1>3. Goto(w, q)
  BY <1>2 DEF QueryKeys, KeysOf
<1>4. req'[w] = q
  BY <1>1, <1>3 DEF Goto, TypeOK
<1>5. q.op = r.op /\ q.pc = "erase" /\ q.coll = r.coll /\ q.todo = KeysOf(c)
  BY <1>1 DEF Request
<1>6. /\ \A d, id : EventualItem(d, id) = objs[d][id]
      /\ \A d : EventualStamp(d) = IF meta[d] = None THEN None ELSE meta[d].modified
  <2>1. r.pc \notin Busy
    BY <1>1 DEF Busy
  <2> QED BY <2>1, SoleItem, SoleStamp, NothingPending
<1>7. /\ \A d, id : EventualItem(d, id)' = Settled(q, objs[d][id], d, id)
      /\ \A d : EventualStamp(d)' = SettledStamp(q, meta[d], d)
  <2>1. objs' = objs /\ meta' = meta
    BY <1>1
  <2> QED BY <1>4, <2>1, SoleItem, SoleStamp
<1>8. \A d : /\ ~Landing(q, d) /\ ~Restamping(q, d)
             /\ (Removing(q, d) <=> d = c) /\ (Unstamping(q, d) <=> d = c)
  BY <1>1, <1>5 DEF Landing, Removing, Restamping, Unstamping
<1>9. \A d \in Collections, id \in Ids :
        EventualItem(d, id)' = IF d = c /\ id \in Ids THEN None ELSE EventualItem(d, id)
  BY <1>5, <1>6, <1>7, <1>8 DEF Settled, KeysOf
<1>10. \A d \in Collections : EventualStamp(d)' = IF d = c THEN None ELSE EventualStamp(d)
  BY <1>6, <1>7, <1>8 DEF SettledStamp
<1>11. EventualStore' = Atomic!Without(c, Ids)
  BY <1>1, <1>9, MapWithout
<1>12. StampsNow' = [StampsNow EXCEPT ![c] = None]
  BY <1>10 DEF StampsNow
<1>13. StampsNow[c] # None
  <2>1. meta[c].modified \in Nat
    BY <1>1, <1>2 DEF TypeOK, Meta
  <2> QED BY <1>2, <1>6, <2>1, StorageAssumption DEF StampsNow
<1>14. Atomic!DeleteCollection(c)
  BY <1>1, <1>11, <1>12, <1>13 DEF Atomic!DeleteCollection, StampsNow
<1> QED BY <1>14 DEF Atomic!Next

\* What lands was written already.
LEMMA MapLanding ==
  ASSUME OneAtATime, RefinementInvariant, NEW w \in Workers,
         NEW id \in Ids, WriteObject(w, id)
  PROVE  UNCHANGED Atomic!vars
<1> PICK r : r = req[w]
  OBVIOUS
<1> PICK item : item = [modified |-> r.ts, size |-> r.batch[id], expiry |-> r.expiry]
  OBVIOUS
<1> PICK q : q = [r EXCEPT !.todo = r.todo \ {id},
                           !.pc = IF r.todo = {id} THEN "metadata" ELSE "write"]
  OBVIOUS
<1>1. /\ r \in Request /\ WellFormed(r) /\ r.pc = "write" /\ id \in r.todo /\ TypeOK
      /\ meta' = meta /\ now' = now /\ req' = [req EXCEPT ![w] = q]
      /\ objs' = [objs EXCEPT ![r.coll][id] = item]
  BY RefinementSole DEF WriteObject, Goto
<1>2. /\ q.op = r.op /\ q.coll = r.coll /\ q.batch = r.batch /\ q.ts = r.ts
      /\ q.expiry = r.expiry /\ q.todo = r.todo \ {id} /\ q.pc \in {"write", "metadata"}
  BY <1>1 DEF Request
<1>3. req'[w] = q /\ r.op \in Writing
  BY <1>1 DEF TypeOK, WellFormed
<1>4. \A c : /\ Landing(r, c) <=> r.coll = c
             /\ Landing(q, c) <=> r.coll = c
             /\ ~Removing(r, c) /\ ~Removing(q, c) /\ ~Restamping(r, c) /\ ~Restamping(q, c)
             /\ ~Unstamping(r, c) /\ ~Unstamping(q, c)
  BY <1>1, <1>2, <1>3 DEF Landing, Removing, Restamping, Unstamping, Writing
<1>5. \A c \in Collections, i \in Ids :
        objs'[c][i] = IF c = r.coll /\ i = id THEN item ELSE objs[c][i]
  BY <1>1 DEF TypeOK
<1>6. \A c \in Collections, i \in Ids : EventualItem(c, i)' = EventualItem(c, i)
  <2> SUFFICES ASSUME NEW c \in Collections, NEW i \in Ids
               PROVE  EventualItem(c, i)' = EventualItem(c, i)
    OBVIOUS
  <2>1. CASE c = r.coll /\ i = id
    <3>1. Settled(r, objs[c][i], c, i) = item
      BY <1>1, <1>4, <2>1 DEF Settled
    <3>2. Settled(q, objs'[c][i], c, i) = item
      <4>1. i \notin q.todo /\ objs'[c][i] = item
        BY <1>2, <1>5, <2>1
      <4> QED BY <1>4, <4>1 DEF Settled
    <3> QED BY <1>3, <3>1, <3>2, SoleItem
  <2>2. CASE ~(c = r.coll /\ i = id)
    <3>1. objs'[c][i] = objs[c][i] /\ (c = r.coll => (i \in q.todo <=> i \in r.todo))
      BY <1>2, <1>5, <2>2
    <3>2. Settled(q, objs[c][i], c, i) = Settled(r, objs[c][i], c, i)
      BY <1>2, <1>4, <3>1 DEF Settled
    <3> QED BY <1>3, <3>1, <3>2, SoleItem
  <2> QED BY <2>1, <2>2
<1>7. \A c \in Collections : EventualStamp(c)' = EventualStamp(c)
  <2> SUFFICES ASSUME NEW c \in Collections PROVE EventualStamp(c)' = EventualStamp(c)
    OBVIOUS
  <2>1. SettledStamp(q, meta'[c], c) = SettledStamp(r, meta[c], c)
    BY <1>1, <1>2, <1>4 DEF SettledStamp
  <2> QED BY <1>3, <2>1, SoleStamp
<1> QED BY <1>1, <1>6, <1>7, MapStutter

\* So was the stamp.
LEMMA MapMetadata ==
  ASSUME OneAtATime, RefinementInvariant, NEW w \in Workers,
         UpdateMetadata(w) \/ PutNewMetadata(w) \/ PutStaleMetadata(w)
  PROVE  UNCHANGED Atomic!vars
<1> PICK r : r = req[w]
  OBVIOUS
<1>1. /\ r \in Request /\ WellFormed(r) /\ Good(r) /\ r.pc = "metadata" /\ TypeOK
      /\ r.op \in Writing \cup {"DelIds"} /\ r.coll \in Collections
      /\ objs' = objs /\ now' = now /\ Respond(w, 200)
  <2>1. r \in Request /\ WellFormed(r) /\ Good(r) /\ TypeOK
    BY RefinementSole
  <2>2. /\ r.pc = "metadata" /\ r.op \in Writing \cup {"DelIds"}
        /\ objs' = objs /\ now' = now /\ Respond(w, 200)
    BY DEF UpdateMetadata, PutNewMetadata, PutStaleMetadata, Writing
  <2> QED BY <2>1, <2>2 DEF WellFormed, Writing
<1> PICK c \in Collections : c = r.coll
  BY <1>1
<1>2. PICK m : /\ meta' = [meta EXCEPT ![c] = m]
               /\ m.modified = r.ts /\ m # None
  <2>1. CASE UpdateMetadata(w) \/ PutNewMetadata(w)
    <3>1. CountDelta(r) \in Nat /\ UsageDelta(r) \in Int /\ r.ts \in Nat
      BY <1>1, DeltasTyped DEF Request
    <3>2. /\ meta[c] \in Meta \cup {None}
          /\ None \in Meta \cup {None}
      BY <1>1 DEF TypeOK
    <3>3. PICK old \in Meta \cup {None} :
            meta' = [meta EXCEPT ![c] = Added(old, r.ts, CountDelta(r), UsageDelta(r))]
      BY <2>1, <3>2 DEF UpdateMetadata, PutNewMetadata
    <3>4. PICK m : m = Added(old, r.ts, CountDelta(r), UsageDelta(r))
      OBVIOUS
    <3>5. m \in Meta
      BY <3>1, <3>4, AddedTyped
    <3>6. m # None /\ m.modified = r.ts
      BY <3>4, <3>5, StorageAssumption DEF Added
    <3> QED BY <3>3, <3>4, <3>6
  <2>2. CASE PutStaleMetadata(w)
    <3>1. r.found \in Meta /\ r.ts \in Nat
      BY <1>1, <2>2 DEF PutStaleMetadata, WellFormed, Request
    <3>2. PICK m : m = [r.found EXCEPT !.modified = r.ts]
      OBVIOUS
    <3>3. m \in Meta /\ m.modified = r.ts
      BY <3>1, <3>2 DEF Meta
    <3>4. m # None
      BY <3>3, StorageAssumption
    <3> QED BY <2>2, <3>2, <3>3, <3>4 DEF PutStaleMetadata
  <2> QED BY <2>1, <2>2
<1>3. req'[w] = NoRequest /\ NoRequest.pc \notin Busy
  BY <1>1 DEF Respond, TypeOK, NoRequest, Busy
<1>4. /\ \A d, id : EventualItem(d, id)' = objs[d][id]
      /\ \A d : EventualStamp(d)' = IF meta'[d] = None THEN None ELSE meta'[d].modified
  BY <1>1, <1>3, SoleItem, SoleStamp, NothingPending
<1>5. \A d : /\ ~Removing(r, d) /\ ~Unstamping(r, d)
             /\ (Landing(r, d) \/ Restamping(r, d)) <=> d = c
  BY <1>1 DEF Landing, Removing, Restamping, Unstamping, Writing
<1>6. \A d, id : EventualItem(d, id) = objs[d][id]
  <2>1. r.todo = {}
    BY <1>1 DEF Good, Landed
  <2>2. \A d, id : Settled(r, objs[d][id], d, id) = objs[d][id]
    BY <2>1 DEF Settled
  <2> QED BY <2>2, SoleItem
<1>7. \A d \in Collections : EventualStamp(d)' = EventualStamp(d)
  <2> SUFFICES ASSUME NEW d \in Collections PROVE EventualStamp(d)' = EventualStamp(d)
    OBVIOUS
  <2>1. EventualStamp(d) = SettledStamp(r, meta[d], d)
    BY SoleStamp
  <2>2. meta'[d] = IF d = c THEN m ELSE meta[d]
    BY <1>1, <1>2 DEF TypeOK
  <2> QED BY <1>2, <1>4, <1>5, <2>1, <2>2 DEF SettledStamp
<1> QED BY <1>1, <1>4, <1>6, <1>7, MapStutter

\* What is deleted was gone already; the stamp of an object's collection
\* stays, that of the collection deleted has been dropped.
LEMMA MapErase ==
  ASSUME OneAtATime, RefinementInvariant, NEW w \in Workers,
         NEW key \in Ids \cup {Metadata}, EraseItem(w, key)
  PROVE  UNCHANGED Atomic!vars
<1> PICK r : r = req[w]
  OBVIOUS
<1>1. /\ r \in Request /\ WellFormed(r) /\ Good(r) /\ r.pc = "erase" /\ key \in r.todo /\ TypeOK
      /\ r.coll \in Collections /\ r.op \in {"DelBso", "DelIds", "DelColl", "DelAll"}
      /\ now' = now
  <2>1. r \in Request /\ WellFormed(r) /\ Good(r) /\ TypeOK
    BY RefinementSole
  <2>2. r.pc = "erase" /\ key \in r.todo /\ now' = now
    BY DEF EraseItem
  <2> QED BY <2>1, <2>2 DEF WellFormed, Request, Operations, Writing
<1> PICK c \in Collections : c = r.coll
  BY <1>1
<1>2. /\ \A d \in Collections, id \in Ids :
           objs'[d][id] = IF d = c /\ id = key THEN None ELSE objs[d][id]
      /\ \A d \in Collections :
           meta'[d] = IF d = c /\ key = Metadata THEN None ELSE meta[d]
  BY <1>1 DEF TypeOK, EraseItem
<1>3. r.op \in {"DelBso", "DelIds"} => key # Metadata
  BY <1>1, StorageAssumption DEF Good, Prepared
<1>4. r.op \in {"DelColl", "DelAll"} /\ r.todo = {key} => meta'[c] = None
  BY <1>1, <1>2 DEF Good, Emptied
<1>5. \A d : /\ ~Landing(r, d) /\ (Removing(r, d) <=> d = c)
             /\ Restamping(r, d) <=> (d = c /\ r.op = "DelIds")
             /\ Unstamping(r, d) <=> (d = c /\ r.op \in {"DelColl", "DelAll"})
  BY <1>1 DEF Landing, Removing, Restamping, Unstamping
<1>6. /\ \A d, id : EventualItem(d, id) = IF d = c /\ id \in r.todo THEN None ELSE objs[d][id]
      /\ \A d : EventualStamp(d) =
           IF d = c /\ r.op = "DelIds" THEN r.ts
           ELSE IF (d = c /\ r.op \in {"DelColl", "DelAll"}) \/ meta[d] = None THEN None
           ELSE meta[d].modified
  <2>1. \A d, id, b : Settled(r, b, d, id) = IF d = c /\ id \in r.todo THEN None ELSE b
    BY <1>5 DEF Settled
  <2>2. \A d, m : SettledStamp(r, m, d) =
           IF d = c /\ r.op = "DelIds" THEN r.ts
           ELSE IF (d = c /\ r.op \in {"DelColl", "DelAll"}) \/ m = None THEN None
           ELSE m.modified
    BY <1>5 DEF SettledStamp
  <2> QED BY <2>1, <2>2, SoleItem, SoleStamp
<1>7. CASE r.todo # {key} /\ Goto(w, [r EXCEPT !.todo = r.todo \ {key}])
  <2>1. PICK q : q = [r EXCEPT !.todo = r.todo \ {key}]
    OBVIOUS
  <2>2. /\ q.op = r.op /\ q.pc = "erase" /\ q.coll = r.coll /\ q.ts = r.ts
        /\ q.todo = r.todo \ {key}
    BY <1>1, <2>1 DEF Request
  <2>3. req'[w] = q
    BY <1>1, <1>7, <2>1 DEF Goto, TypeOK
  <2>4. \A d : /\ ~Landing(q, d) /\ (Removing(q, d) <=> d = c)
               /\ Restamping(q, d) <=> (d = c /\ r.op = "DelIds")
               /\ Unstamping(q, d) <=> (d = c /\ r.op \in {"DelColl", "DelAll"})
    BY <1>1, <2>2 DEF Landing, Removing, Restamping, Unstamping
  <2>5. \A d \in Collections, id \in Ids : EventualItem(d, id)' = EventualItem(d, id)
    <3> SUFFICES ASSUME NEW d \in Collections, NEW id \in Ids
                 PROVE  EventualItem(d, id)' = EventualItem(d, id)
      OBVIOUS
    <3>1. Settled(q, objs'[d][id], d, id)
            = IF d = c /\ id \in r.todo \ {key} THEN None ELSE objs'[d][id]
      BY <2>2, <2>4 DEF Settled
    <3> QED BY <1>1, <1>2, <1>6, <2>3, <3>1, SoleItem
  <2>6. \A d \in Collections : EventualStamp(d)' = EventualStamp(d)
    <3> SUFFICES ASSUME NEW d \in Collections PROVE EventualStamp(d)' = EventualStamp(d)
      OBVIOUS
    <3>1. SettledStamp(q, meta'[d], d) =
            IF d = c /\ r.op = "DelIds" THEN r.ts
            ELSE IF (d = c /\ r.op \in {"DelColl", "DelAll"}) \/ meta'[d] = None THEN None
            ELSE meta'[d].modified
      BY <2>2, <2>4 DEF SettledStamp
    <3>2. (d = c /\ r.op \in {"DelColl", "DelAll"}) \/ meta'[d] = meta[d]
      BY <1>1, <1>2, <1>3
    <3> QED BY <1>6, <2>3, <3>1, <3>2, SoleStamp
  <2> QED BY <1>1, <2>5, <2>6, MapStutter
<1>8. ASSUME r.todo = {key}, req'[w].pc # "erase",
             \A d : /\ ~Landing(req'[w], d)
                    /\ Restamping(req'[w], d) <=> (d = c /\ r.op = "DelIds"),
             r.op = "DelIds" => req'[w].ts = r.ts
      PROVE  UNCHANGED Atomic!vars
  <2> PICK q : q = req'[w]
    OBVIOUS
  <2>1. \A d : ~Removing(q, d) /\ ~Unstamping(q, d)
    BY <1>8 DEF Removing, Unstamping
  <2>2. \A d \in Collections, id \in Ids : EventualItem(d, id)' = EventualItem(d, id)
    <3> SUFFICES ASSUME NEW d \in Collections, NEW id \in Ids
                 PROVE  EventualItem(d, id)' = EventualItem(d, id)
      OBVIOUS
    <3>1. Settled(q, objs'[d][id], d, id) = objs'[d][id]
      BY <1>8, <2>1 DEF Settled
    <3> QED BY <1>2, <1>6, <1>8, <3>1, SoleItem
  <2>3. \A d \in Collections : EventualStamp(d)' = EventualStamp(d)
    <3> SUFFICES ASSUME NEW d \in Collections PROVE EventualStamp(d)' = EventualStamp(d)
      OBVIOUS
    <3>1. SettledStamp(q, meta'[d], d) =
            IF d = c /\ r.op = "DelIds" THEN r.ts
            ELSE IF meta'[d] = None THEN None
            ELSE meta'[d].modified
      BY <1>8, <2>1 DEF SettledStamp
    <3>2. IF d = c /\ r.op \in {"DelColl", "DelAll"} THEN meta'[d] = None
          ELSE meta'[d] = meta[d]
      BY <1>1, <1>2, <1>3, <1>4, <1>8
    <3> QED BY <1>6, <3>1, <3>2, SoleStamp
  <2> QED BY <1>1, <2>2, <2>3, MapStutter
<1>9. CASE /\ r.todo = {key} /\ r.op = "DelIds"
           /\ Goto(w, [r EXCEPT !.todo = {}, !.pc = "metadata"])
  <2>1. PICK q : q = [r EXCEPT !.todo = {}, !.pc = "metadata"]
    OBVIOUS
  <2>2. q.op = "DelIds" /\ q.pc = "metadata" /\ q.coll = r.coll /\ q.ts = r.ts
    BY <1>1, <1>9, <2>1 DEF Request
  <2>3. req'[w] = q
    BY <1>1, <1>9, <2>1 DEF Goto, TypeOK
  <2>4. \A d : ~Landing(q, d) /\ (Restamping(q, d) <=> d = c)
    BY <2>2 DEF Landing, Restamping
  <2> QED BY <1>8, <1>9, <2>2, <2>3, <2>4
<1>10. CASE r.todo = {key} /\ r.op # "DelIds" /\ CollectionDone(w, r)
  <2>1. req'[w].pc \in {"idle", "getListed"}
    <3>1. CASE Respond(w, 200)
      BY <1>1, <3>1 DEF Respond, TypeOK, NoRequest
    <3>2. CASE Goto(w, [r EXCEPT !.pc = "getListed", !.todo = {}])
      <4>1. PICK q : q = [r EXCEPT !.pc = "getListed", !.todo = {}]
        OBVIOUS
      <4>2. q.pc = "getListed" /\ req'[w] = q
        BY <1>1, <3>2, <4>1 DEF Goto, TypeOK, Request
      <4> QED BY <4>2
    <3> QED BY <1>10, <3>1, <3>2 DEF CollectionDone
  <2>2. \A d : ~Landing(req'[w], d) /\ ~Restamping(req'[w], d)
    BY <2>1 DEF Landing, Restamping
  <2> QED BY <1>8, <1>10, <2>1, <2>2
<1> QED BY <1>7, <1>9, <1>10 DEF EraseItem

\* The handlers whose calls read the table, or none, and are no step of the
\* store.
LEMMA MapChecks ==
  ASSUME OneAtATime, RefinementInvariant, NEW w \in Workers,
         \/ Arrive(w) \/ GetObjectForPut(w) \/ GetObjectForDelete(w)
         \/ CheckPrecondition(w) \/ GetCollectionForPost(w) \/ GetCollectionForPut(w)
         \/ GetCollectionForDelete(w) \/ ListCollections(w)
         \/ \E c \in Collections : GetListed(w, c)
  PROVE  UNCHANGED Atomic!vars
<1> PICK r : r = req[w]
  OBVIOUS
<1>1. /\ r \in Request /\ TypeOK /\ UNCHANGED <<table, now>>
      /\ r.pc \in {"idle", "getObject", "checkHeader", "getCollection", "list", "getListed"}
  BY RefinementSole DEF Arrive, GetObjectForPut, GetObjectForDelete, CheckPrecondition,
     GetCollectionForPost, GetCollectionForPut, GetCollectionForDelete, ListCollections,
     GetListed
<1>2. ASSUME NEW q, Goto(w, q), q.pc \notin Busy PROVE UNCHANGED Atomic!vars
  <2>1. req'[w] = q
    BY <1>1, <1>2 DEF Goto, TypeOK
  <2> QED BY <1>1, <1>2, <2>1, MapLookup DEF Busy
<1>3. ASSUME NEW status, Respond(w, status) PROVE UNCHANGED Atomic!vars
  <2>1. req'[w] = NoRequest
    BY <1>1, <1>3 DEF Respond, TypeOK
  <2> QED BY <1>1, <2>1, MapLookup DEF Busy, NoRequest
<1>4. ASSUME NEW x \in Request, CollectionDone(w, x) PROVE UNCHANGED Atomic!vars
  <2>1. CASE Goto(w, [x EXCEPT !.pc = "getListed", !.todo = {}])
    <3>1. PICK q : q = [x EXCEPT !.pc = "getListed", !.todo = {}]
      OBVIOUS
    <3>2. q.pc \notin Busy
      BY <3>1 DEF Request, Busy
    <3> QED BY <1>2, <2>1, <3>1, <3>2
  <2> QED BY <1>3, <1>4, <2>1 DEF CollectionDone
<1>5. CASE Arrive(w)
  <2>1. PICK x \in Requests : Goto(w, x)
    BY <1>5 DEF Arrive
  <2>2. x \in Fresh
    BY <2>1, RequestsTyped
  <2> QED BY <1>2, <2>1, <2>2 DEF Fresh, Busy
<1>6. CASE GetObjectForPut(w)
  <2>1. PICK q : q = [r EXCEPT !.pc = "stamp",
                               !.seen = [i \in r.todo \cap LiveIds(r.coll) |->
                                           objs[r.coll][i].size]]
    OBVIOUS
  <2>2. Respond(w, 412) \/ Goto(w, q)
    BY <1>6, <2>1 DEF GetObjectForPut
  <2>3. q.pc \notin Busy
    BY <1>1, <2>1 DEF Request, Busy
  <2> QED BY <1>2, <1>3, <2>2, <2>3
<1>7. CASE GetObjectForDelete(w)
  <2>1. PICK q : q = [r EXCEPT !.pc = "stamp"]
    OBVIOUS
  <2>2. q.pc \notin Busy
    BY <1>1, <2>1 DEF Request, Busy
  <2> QED BY <1>2, <1>3, <1>7, <2>1, <2>2 DEF GetObjectForDelete
<1>8. CASE CheckPrecondition(w)
  <2>1. PICK q : q = [r EXCEPT !.pc = "getCollection"]
    OBVIOUS
  <2>2. q.pc \notin Busy
    BY <1>1, <2>1 DEF Request, Busy
  <2> QED BY <1>2, <1>3, <1>8, <2>1, <2>2 DEF CheckPrecondition
<1>9. CASE GetCollectionForPost(w) \/ GetCollectionForPut(w) \/ GetCollectionForDelete(w)
  <2>1. PICK q : q = [r EXCEPT !.pc = "stamp", !.found = meta[r.coll]]
    OBVIOUS
  <2>2. q.pc \notin Busy
    BY <1>1, <2>1 DEF Request, Busy
  <2>3. \/ Respond(w, 404) \/ Respond(w, 412) \/ Respond(w, 200) \/ Goto(w, q)
    BY <1>9, <2>1 DEF GetCollectionForPost, GetCollectionForPut, GetCollectionForDelete
  <2> QED BY <1>2, <1>3, <2>2, <2>3
<1>10. CASE ListCollections(w)
  <2>1. PICK x : x = [r EXCEPT !.colls = {c \in Collections : index[c] # None}]
    OBVIOUS
  <2>2. x \in Request
    BY <1>1, <2>1 DEF Request
  <2> QED BY <1>4, <1>10, <2>1, <2>2 DEF ListCollections
<1>11. ASSUME NEW c \in Collections, GetListed(w, c) PROVE UNCHANGED Atomic!vars
  <2>1. PICK s : s = [r EXCEPT !.coll = c, !.colls = @ \ {c}]
    OBVIOUS
  <2>2. s \in Request
    BY <1>1, <2>1 DEF Request
  <2>3. PICK q : q = [s EXCEPT !.pc = "query"]
    OBVIOUS
  <2>4. q.pc \notin Busy
    BY <2>2, <2>3 DEF Request, Busy
  <2>5. CollectionDone(w, s) \/ Goto(w, q)
    BY <1>11, <2>1, <2>3 DEF GetListed
  <2> QED BY <1>2, <1>4, <2>2, <2>4, <2>5
<1> QED BY <1>5, <1>6, <1>7, <1>8, <1>9, <1>10, <1>11

(***************************************************************************)
(* Time, expiry, and the start.                                            *)
(***************************************************************************)
\* As long as the requests stay the same, an item follows the table, and a
\* stamp the metadata.
LEMMA ItemFollows ==
  ASSUME req' = req, NEW c, NEW id
  PROVE  /\ objs'[c][id] = objs[c][id] => EventualItem(c, id)' = EventualItem(c, id)
         /\ \/ EventualItem(c, id)' = EventualItem(c, id)
            \/ EventualItem(c, id) = objs[c][id] /\ EventualItem(c, id)' = objs'[c][id]
BY DEF EventualItem

LEMMA StampFollows ==
  ASSUME req' = req, NEW c, meta'[c] = meta[c]
  PROVE  EventualStamp(c)' = EventualStamp(c)
BY DEF EventualStamp

LEMMA EventualExpiry ==
  ASSUME TypeOK, NEW c \in Collections, NEW id \in Ids, EventualItem(c, id) # None
  PROVE  EventualItem(c, id).expiry \in Nat \cup {None}
<1> DEFINE L == {v \in Workers : Landing(req[v], c) /\ id \in req[v].todo}
           R == {v \in Workers : Removing(req[v], c) /\ id \in req[v].todo}
<1>1. EventualItem(c, id) =
        IF L # {} THEN LET r == req[CHOOSE v \in L : TRUE]
                       IN  [modified |-> r.ts, size |-> r.batch[id], expiry |-> r.expiry]
        ELSE IF R # {} THEN None ELSE objs[c][id]
  BY DEF EventualItem
<1>2. CASE L # {}
  <2>1. PICK v : v = CHOOSE x \in L : TRUE
    OBVIOUS
  <2>2. v \in Workers
    <3>1. (CHOOSE x \in L : TRUE) \in L
      BY <1>2
    <3> QED BY <2>1, <3>1
  <2>3. req[v].expiry \in Nat \cup {None}
    BY <2>2 DEF TypeOK, GoodRequest, Request
  <2>4. EventualItem(c, id) =
          [modified |-> req[v].ts, size |-> req[v].batch[id], expiry |-> req[v].expiry]
    <3> HIDE DEF L, R
    <3> QED BY <1>1, <1>2, <2>1
  <2> QED BY <2>3, <2>4
<1>3. CASE L = {}
  <2>1. EventualItem(c, id) = objs[c][id]
    <3> HIDE DEF L, R
    <3> QED BY <1>1, <1>3
  <2> QED BY <2>1 DEF TypeOK, Bso
<1> QED BY <1>2, <1>3

\* What is not visible stays invisible.
LEMMA VisiblyLater ==
  ASSUME NEW b, NEW t \in Nat, b # None => b.expiry \in Nat \cup {None}
  PROVE  Visibly(Visibly(b, t), t + 1) = Visibly(b, t + 1)
<1>1. CASE b # None /\ b.expiry # None
  <2>1. b.expiry * TicksPerSecond \in Nat
    BY <1>1, StorageAssumption
  <2>2. b.expiry * TicksPerSecond < t => b.expiry * TicksPerSecond < t + 1
    BY <2>1
  <2> QED BY <1>1, <2>2 DEF Visibly
<1>2. CASE ~(b # None /\ b.expiry # None)
  BY <1>2 DEF Visibly
<1> QED BY <1>1, <1>2

LEMMA MapTick ==
  ASSUME TypeOK, Tick
  PROVE  Atomic!Advance
<1>1. req' = req /\ objs' = objs /\ meta' = meta /\ now' = now + 1
  BY DEF Tick, table
<1>2. \A c \in Collections : EventualStamp(c)' = EventualStamp(c)
  BY <1>1, StampFollows
<1>3. StampsNow' = StampsNow
  BY <1>2 DEF StampsNow
<1>4. \A c \in Collections, id \in Ids :
        Visibly(EventualItem(c, id)', now + 1) = Visibly(Visibly(EventualItem(c, id), now), now + 1)
  <2> SUFFICES ASSUME NEW c \in Collections, NEW id \in Ids
               PROVE  Visibly(EventualItem(c, id)', now + 1)
                        = Visibly(Visibly(EventualItem(c, id), now), now + 1)
    OBVIOUS
  <2>1. EventualItem(c, id)' = EventualItem(c, id)
    BY <1>1, ItemFollows
  <2>2. EventualItem(c, id) # None => EventualItem(c, id).expiry \in Nat \cup {None}
    BY EventualExpiry
  <2>3. now \in Nat
    BY DEF TypeOK
  <2> QED BY <2>1, <2>2, <2>3, VisiblyLater
<1>5. EventualStore' =
        [c \in Collections |-> [id \in Ids |-> Visibly(EventualStore[c][id], now + 1)]]
  BY <1>1, <1>4, StoreShown
<1>6. Atomic!Visible(EventualStore, now + 1) =
        [c \in Collections |-> [id \in Ids |-> Visibly(EventualStore[c][id], now + 1)]]
  BY DEF Atomic!Visible, Atomic!Gone, Visibly
<1> QED BY <1>1, <1>3, <1>5, <1>6 DEF Atomic!Advance, StampsNow

\* The sweep removes what is not visible.
LEMMA MapSweep ==
  ASSUME TypeOK, NEW c \in Collections, NEW id \in Ids, Sweep(c, id)
  PROVE  UNCHANGED Atomic!vars
<1>1. /\ req' = req /\ meta' = meta /\ now' = now
      /\ objs[c][id] # None /\ Expired(objs[c][id])
      /\ objs' = [objs EXCEPT ![c][id] = None]
  BY DEF Sweep
<1>2. \A d \in Collections : EventualStamp(d)' = EventualStamp(d)
  BY <1>1, StampFollows
<1>3. \A d \in Collections, i \in Ids :
        Visibly(EventualItem(d, i)', now) = Visibly(EventualItem(d, i), now)
  <2> SUFFICES ASSUME NEW d \in Collections, NEW i \in Ids
               PROVE  Visibly(EventualItem(d, i)', now) = Visibly(EventualItem(d, i), now)
    OBVIOUS
  <2>1. CASE d = c /\ i = id
    <3>1. objs'[d][i] = None
      BY <1>1, <2>1 DEF TypeOK
    <3>2. Visibly(objs[d][i], now) = None /\ Visibly(None, now) = None
      BY <1>1, <2>1 DEF Visibly, Expired
    <3> QED BY <1>1, <3>1, <3>2, ItemFollows
  <2>2. CASE ~(d = c /\ i = id)
    <3>1. objs'[d][i] = objs[d][i]
      BY <1>1, <2>2 DEF TypeOK
    <3> QED BY <1>1, <3>1, ItemFollows
  <2> QED BY <2>1, <2>2
<1> QED BY <1>1, <1>2, <1>3, MapStutter

LEMMA MapElse ==
  ASSUME UNCHANGED <<table, req, now>>
  PROVE  UNCHANGED Atomic!vars
<1>1. req' = req /\ objs' = objs /\ meta' = meta /\ now' = now
  BY DEF table
<1>2. \A c \in Collections : EventualStamp(c)' = EventualStamp(c)
  BY <1>1, StampFollows
<1>3. \A c \in Collections, id \in Ids : EventualItem(c, id)' = EventualItem(c, id)
  BY <1>1, ItemFollows
<1> QED BY <1>1, <1>2, <1>3, MapStutter

LEMMA MapInit == Init => Atomic!Init
<1> SUFFICES ASSUME Init PROVE Atomic!Init
  OBVIOUS
<1>1. \A w \in Workers : \A c : /\ ~Landing(req[w], c) /\ ~Removing(req[w], c)
                                /\ ~Restamping(req[w], c)
  BY DEF Init, NoRequest, Landing, Removing, Restamping
<1>2. \A c \in Collections, id \in Ids : EventualItem(c, id) = None
  BY <1>1 DEF EventualItem, Init
<1>3. \A c \in Collections : EventualStamp(c) = IF c \in Existing THEN 1 ELSE None
  <2> SUFFICES ASSUME NEW c \in Collections
               PROVE  EventualStamp(c) = IF c \in Existing THEN 1 ELSE None
    OBVIOUS
  <2>1. EventualStamp(c) = IF meta[c] = None THEN None ELSE meta[c].modified
    BY <1>1 DEF EventualStamp, Restamping
  <2>2. [modified |-> 1, count |-> 0, usage |-> 0] # None
    <3>1. [modified |-> 1, count |-> 0, usage |-> 0] \in Meta
      BY DEF Meta
    <3> QED BY <3>1, StorageAssumption
  <2> QED BY <2>1, <2>2 DEF Init
<1>4. EventualStore = [c \in Collections |-> [id \in Ids |-> None]]
  BY <1>2, StoreShown DEF Visibly
<1>5. [c \in Collections |-> EventualStamp(c)]
        = [c \in Collections |-> IF c \in Existing THEN 1 ELSE None]
  BY <1>3
<1> QED BY <1>4, <1>5 DEF Init, Atomic!Init

LEMMA MapNext ==
  OneAtATime /\ RefinementInvariant /\ [Next]_vars => [Atomic!Next]_(Atomic!vars)
<1> SUFFICES ASSUME OneAtATime, RefinementInvariant, [Next]_vars
             PROVE  [Atomic!Next]_(Atomic!vars)
  OBVIOUS
<1>1. TypeOK /\ failures = 0
  BY DEF RefinementInvariant, SerialInvariant
<1>2. ASSUME NEW w \in Workers, Arrive(w) \/ Handle(w) PROVE [Atomic!Next]_(Atomic!vars)
  <2>1. CASE \/ Arrive(w) \/ GetObjectForPut(w) \/ GetObjectForDelete(w)
             \/ CheckPrecondition(w) \/ GetCollectionForPost(w) \/ GetCollectionForPut(w)
             \/ GetCollectionForDelete(w) \/ ListCollections(w)
             \/ \E c \in Collections : GetListed(w, c)
    BY <2>1, MapChecks
  <2>2. CASE TakeTimestamp(w)
    BY <2>2, MapTimestamp
  <2>3. CASE BatchGet(w)
    BY <2>3, MapBatchGet
  <2>4. CASE QueryKeys(w)
    BY <2>4, MapQuery
  <2>5. CASE \E id \in Ids : WriteObject(w, id)
    BY <2>5, MapLanding
  <2>6. CASE UpdateMetadata(w) \/ PutNewMetadata(w) \/ PutStaleMetadata(w)
    BY <2>6, MapMetadata
  <2>7. CASE \E key \in Ids \cup {Metadata} : EraseItem(w, key)
    BY <2>7, MapErase
  <2> QED BY <1>2, <2>1, <2>2, <2>3, <2>4, <2>5, <2>6, <2>7 DEF Handle
<1>3. ASSUME NEW w \in Workers,
             \/ Crash(w) \/ PreconditionUnchecked(w) \/ \E ids \in SUBSET Ids : FlushFails(w, ids)
      PROVE  FALSE
  <2>1. failures < MaxFailures
    BY <1>3 DEF Crash, PreconditionUnchecked, FlushFails, Failing
  <2> QED BY <1>1, <2>1 DEF OneAtATime
<1>4. CASE \/ \E c \in Collections, ims \in OptHeaders : ReadCollection(c, ims)
           \/ \E c \in Collections : PropagateIndex(c)
           \/ UNCHANGED vars
  <2>1. UNCHANGED <<table, req, now>>
    BY <1>4 DEF ReadCollection, PropagateIndex, vars, table
  <2> QED BY <2>1, MapElse
<1>5. CASE Tick
  BY <1>1, <1>5, MapTick DEF Atomic!Next
<1>6. CASE \E c \in Collections, id \in Ids : Sweep(c, id)
  BY <1>1, <1>6, MapSweep
<1> QED BY <1>2, <1>3, <1>4, <1>5, <1>6 DEF Next

\* Served one at a time, the requests of a client take effect atomically:
\* every one of the many database calls of a request is a step of the atomic
\* store or none, whatever the batch, the deletion, the expiry or the index.
THEOREM SerialRefinement == ASSUME OneAtATime PROVE Spec => ImplementsAtomicStorage
BY MapInit, MapNext, RefinementAlways, PTL DEF Spec, ImplementsAtomicStorage, Atomic!Spec
=============================================================================
