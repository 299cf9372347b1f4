--------------------------- MODULE StorageManager ---------------------------
(***************************************************************************)
(* The storage service of one user: src/lambda/src/services/               *)
(* storage_manager.py together with the route handlers that call it.       *)
(*                                                                         *)
(* A Lambda invocation handles one HTTP request.  It talks to DynamoDB one *)
(* call at a time, each call is atomic on one item only, and invocations   *)
(* interleave between calls.  So a request is a record with a label `pc`   *)
(* naming the next call, and every action below is one call, with all the  *)
(* local computation that precedes the next one.                           *)
(*                                                                         *)
(* A payload is abstracted to its length, a collection partition to a map  *)
(* from ids to objects plus one metadata item.  Time is counted in the     *)
(* ticks of get_current_timestamp (two decimals: 100 ticks a second).      *)
(***************************************************************************)
EXTENDS Integers, FiniteSets

CONSTANTS
  Collections,     \* collection names of the user
  Ids,             \* object ids
  Sizes,           \* payload lengths
  Workers,         \* Lambda invocations that may run at the same time
  Ops,             \* the operations clients issue in this instance
  Headers,         \* values of X-If-Unmodified-Since / X-If-Modified-Since
  TTLs,            \* values of the ttl field, in seconds
  TicksPerSecond,  \* resolution of a timestamp
  Existing,        \* collections that were created empty before time 1
  FlushAmount,     \* items batch_writer sends in one call: 25
  MaxTime, MaxRequests, MaxFailures,   \* bounds of an instance
  None,            \* an absent item, header, ttl or answer
  Metadata         \* the sort key of the metadata item

\* The operations that change something; "GetColl" is the one that reads.
Operations == {"PutBso", "PostColl", "PutColl", "DelBso", "DelIds",
               "DelColl", "DelAll"}

\* The two kinds of items: OBJECT#id and METADATA.
Bso == [modified : Nat, size : Sizes, expiry : Nat \cup {None}]
Meta == [modified : Nat, count : Int, usage : Int]

ASSUME StorageAssumption ==
  /\ IsFiniteSet(Ids) /\ Metadata \notin Ids
  /\ IsFiniteSet(Workers)
  /\ Sizes \subseteq Nat
  /\ Ops \subseteq Operations \cup {"GetColl"}
  /\ Headers \subseteq Nat
  /\ TTLs \subseteq Nat \ {0}
  /\ TicksPerSecond \in Nat \ {0}
  /\ FlushAmount \in Nat \ {0}
  /\ Existing \subseteq Collections
  /\ MaxTime \in Nat /\ MaxRequests \in Nat /\ MaxFailures \in Nat
  /\ None \notin Nat /\ None \notin Bso /\ None \notin Meta

VARIABLES
  objs,      \* objs[c][id]: the item OBJECT#id of collection c, or None
  meta,      \* meta[c]: the item METADATA of collection c, or None
  index,     \* index[c]: its copy in UserCollectionsIndex, which lags behind
  now,       \* the clock of the Lambda fleet
  req,       \* req[w]: the request invocation w is handling
  answer,    \* the response sent by the last step, or None
  reader,    \* what the last client that read a collection then held
  issued,    \* requests issued so far
  failures    \* calls that failed, or invocations that died, so far

vars == <<objs, meta, index, now, req, answer, reader, issued, failures>>
table == <<objs, meta>>

\* Payloads by id: a batch, or what a BatchGetItem found.
Payloads == UNION {[S -> Sizes] : S \in SUBSET Ids}

Labels == {"idle", "getObject", "checkHeader", "getCollection", "stamp",
           "batchGet", "write", "metadata", "list", "getListed", "query",
           "erase"}

Request == [op : Operations \cup {"none"}, coll : Collections \cup {None},
            pc : Labels, batch : Payloads, ttl : TTLs \cup {None},
            ius : Headers \cup {None}, found : Meta \cup {None},
            seen : Payloads, ts : Nat, expiry : Nat \cup {None},
            todo : SUBSET (Ids \cup {Metadata}), colls : SUBSET Collections]

NoPayload == [i \in {} |-> 0]

NoRequest == [op |-> "none", coll |-> None, pc |-> "idle",
              batch |-> NoPayload, ttl |-> None, ius |-> None,
              found |-> None, seen |-> NoPayload, ts |-> 0, expiry |-> None,
              todo |-> {}, colls |-> {}]

(***************************************************************************)
(* Helpers.                                                                *)
(***************************************************************************)
\* The payload bytes of p: their number is the usage p accounts for.
Bytes(p) == UNION {{i} \X (1 .. p[i]) : i \in DOMAIN p}

NewIds(r) == DOMAIN r.batch \ DOMAIN r.seen

\* A slip: a batch counts as one object.
CountDeltaPerBatch(r) == IF NewIds(r) = {} THEN 0 ELSE 1

CountDelta(r) == Cardinality(NewIds(r))
UsageDelta(r) == Cardinality(Bytes(r.batch)) - Cardinality(Bytes(r.seen))

\* A slip: the sign of the ttl.
ExpiryBackwards(ttl) ==
  IF ttl = None THEN None ELSE (now \div TicksPerSecond) - ttl

\* An expiry is a whole second; int() drops the fraction of the clock.
Expiry(ttl) == IF ttl = None THEN None ELSE (now \div TicksPerSecond) + ttl

Expired(b) == b.expiry # None /\ b.expiry * TicksPerSecond < now

\* What a read of the object answers: an expired item counts as absent.
Live(c, id) ==
  IF objs[c][id] = None \/ Expired(objs[c][id]) THEN None ELSE objs[c][id]

LiveIds(c) == {id \in Ids : Live(c, id) # None}

\* A slip: SET #modified = if_not_exists(#modified, :modified).
AddedKeepingStamp(m, ts, dcount, dusage) ==
  [modified |-> IF m = None THEN ts ELSE m.modified,
   count |-> (IF m = None THEN 0 ELSE m.count) + dcount,
   usage |-> (IF m = None THEN 0 ELSE m.usage) + dusage]

\* The answer of an ADD-ing update_item: the item is created when missing.
Added(m, ts, dcount, dusage) ==
  [modified |-> ts,
   count |-> (IF m = None THEN 0 ELSE m.count) + dcount,
   usage |-> (IF m = None THEN 0 ELSE m.usage) + dusage]

(***************************************************************************)
(* Requests.  A request that fails validation, or exceeds the batch limits *)
(* (100 records, 2 MB, 100 ids), is refused without writing anything, so   *)
(* only the requests that pass it are enumerated.                          *)
(* Duplicate ids in one batch make DynamoDB refuse the whole write, so a   *)
(* batch is a map from ids.  PUT of a collection parses its header with    *)
(* int(), so it accepts whole seconds only.                                *)
(***************************************************************************)
NewRequest(op, c, pc) == [NoRequest EXCEPT !.op = op, !.coll = c, !.pc = pc]

\* A request that writes the batch; all its items have the same ttl.
BatchRequest(op, c, pc, batch, ttl, ius) ==
  [NewRequest(op, c, pc) EXCEPT !.batch = batch, !.todo = DOMAIN batch,
                                !.ttl = ttl, !.ius = ius]

DeleteRequest(op, c, pc, ids, ius) ==
  [NewRequest(op, c, pc) EXCEPT !.todo = ids, !.ius = ius]

OptHeaders == Headers \cup {None}
OptTTLs == TTLs \cup {None}
WholeSeconds == {h \in OptHeaders : h = None \/ h % TicksPerSecond = 0}

Singles == UNION {[{id} -> Sizes] : id \in Ids}

PutBsoRequests ==
  {BatchRequest("PutBso", c, "getObject", batch, ttl, ius) :
     c \in Collections, batch \in Singles, ttl \in OptTTLs, ius \in OptHeaders}

FirstCallOfPost(ius) == IF ius = None THEN "getCollection" ELSE "checkHeader"

PostCollRequests ==
  {BatchRequest("PostColl", c, FirstCallOfPost(ius), batch, ttl, ius) :
     c \in Collections, batch \in Payloads, ttl \in OptTTLs, ius \in OptHeaders}

PutCollRequests ==
  {BatchRequest("PutColl", c, "getCollection", batch, ttl, ius) :
     c \in Collections, batch \in Payloads, ttl \in OptTTLs, ius \in WholeSeconds}

DelBsoRequests ==
  {DeleteRequest("DelBso", c, "getObject", {id}, ius) :
     c \in Collections, id \in Ids, ius \in OptHeaders}

DelIdsRequests ==
  {DeleteRequest("DelIds", c, "getCollection", ids, ius) :
     c \in Collections, ids \in (SUBSET Ids) \ {{}}, ius \in OptHeaders}

DelCollRequests ==
  {DeleteRequest("DelColl", c, "getCollection", {}, ius) :
     c \in Collections, ius \in OptHeaders}

DelAllRequests == {NewRequest("DelAll", None, "stamp")}

Requests ==
  {r \in PutBsoRequests \cup PostCollRequests \cup PutCollRequests
         \cup DelBsoRequests \cup DelIdsRequests \cup DelCollRequests
         \cup DelAllRequests : r.op \in Ops}

(***************************************************************************)
(* Steps shared by the operations.                                         *)
(***************************************************************************)
Goto(w, r) == req' = [req EXCEPT ![w] = r] /\ answer' = None

\* The handler returns: the response is sent and the invocation is free.
Respond(w, status) ==
  /\ req' = [req EXCEPT ![w] = NoRequest]
  /\ answer' = [op |-> req[w].op, coll |-> req[w].coll, status |-> status,
                since |-> req[w].ius, success |-> DOMAIN req[w].batch]

Arrive(w) ==
  /\ req[w].pc = "idle"
  /\ issued < MaxRequests
  /\ \E r \in Requests : Goto(w, r)
  /\ issued' = issued + 1
  /\ UNCHANGED <<table, index, now, reader, failures>>

\* A slip: only the create-only header is looked at.
PutRefusedCreateOnly(b, ius) ==
  IF b = None THEN ius \notin {None, 0} ELSE ius = 0

\* get_storage_object, then the precondition of PUT or the 404 of DELETE.
PutRefused(b, ius) ==
  IF b = None THEN ius \notin {None, 0}
              ELSE ius # None /\ (ius = 0 \/ b.modified > ius)

GetObjectForPut(w) ==
  LET r == req[w] IN
  /\ r.pc = "getObject" /\ r.op = "PutBso"
  /\ \E id \in r.todo :
       LET b == Live(r.coll, id) IN
       \/ PutRefused(b, r.ius) /\ Respond(w, 412)
       \/ /\ ~PutRefused(b, r.ius)
          /\ Goto(w, [r EXCEPT !.pc = "stamp",
                               !.seen = [i \in r.todo \cap LiveIds(r.coll) |->
                                           objs[r.coll][i].size]])
  /\ UNCHANGED <<table, index, now, reader, issued, failures>>

GetObjectForDelete(w) ==
  LET r == req[w] IN
  /\ r.pc = "getObject" /\ r.op = "DelBso"
  /\ IF r.todo \subseteq LiveIds(r.coll)
       THEN Goto(w, [r EXCEPT !.pc = "stamp"])
       ELSE Respond(w, 404)
  /\ UNCHANGED <<table, index, now, reader, issued, failures>>

ModifiedSince(m, ius) == m # None /\ ius # None /\ m.modified > ius

\* POST checks its header with a get_collection of its own ...
CheckPrecondition(w) ==
  LET r == req[w] IN
  /\ r.pc = "checkHeader"
  /\ IF ModifiedSince(meta[r.coll], r.ius)
       THEN Respond(w, 412)
       ELSE Goto(w, [r EXCEPT !.pc = "getCollection"])
  /\ UNCHANGED <<table, index, now, reader, issued, failures>>

\* ... and create_or_update_collection, called without it, reads again.
GetCollectionForPost(w) ==
  LET r == req[w] IN
  /\ r.pc = "getCollection" /\ r.op = "PostColl"
  /\ Goto(w, [r EXCEPT !.pc = "stamp", !.found = meta[r.coll]])
  /\ UNCHANGED <<table, index, now, reader, issued, failures>>

GetCollectionForPut(w) ==
  LET r == req[w] IN
  /\ r.pc = "getCollection" /\ r.op = "PutColl"
  /\ \/ meta[r.coll] = None /\ Respond(w, 404)
     \/ ModifiedSince(meta[r.coll], r.ius) /\ Respond(w, 412)
     \/ /\ meta[r.coll] # None /\ ~ModifiedSince(meta[r.coll], r.ius)
        /\ Goto(w, [r EXCEPT !.pc = "stamp", !.found = meta[r.coll]])
  /\ UNCHANGED <<table, index, now, reader, issued, failures>>

\* A DELETE of a missing collection is answered 200 without doing anything;
\* neither DELETE looks at X-If-Unmodified-Since.
GetCollectionForDelete(w) ==
  LET r == req[w] IN
  /\ r.pc = "getCollection" /\ r.op \in {"DelIds", "DelColl"}
  /\ IF meta[r.coll] = None
       THEN Respond(w, 200)
       ELSE Goto(w, [r EXCEPT !.pc = "stamp", !.found = meta[r.coll]])
  /\ UNCHANGED <<table, index, now, reader, issued, failures>>

\* modified = get_current_timestamp(), before anything is written.
\* An empty batch goes straight to the metadata; a batch for a collection
\* that was found missing is written without looking for old objects.
AfterStamp(r) ==
  CASE r.op \in {"DelBso", "DelIds"} -> "erase"
    [] r.op = "DelColl"              -> "query"
    [] r.op = "DelAll"               -> "list"
    [] r.op = "PutBso"               -> "write"
    [] OTHER                         ->
         IF r.todo = {} THEN "metadata"
         ELSE IF r.found = None THEN "write" ELSE "batchGet"

\* A slip: the timestamp is cut to whole seconds.
TakeTimestampInSeconds(w) ==
  LET r == req[w]
      second == (now \div TicksPerSecond) * TicksPerSecond
  IN
  /\ r.pc = "stamp"
  /\ Goto(w, [r EXCEPT !.pc = AfterStamp(r), !.ts = second,
                       !.expiry = Expiry(r.ttl)])
  /\ UNCHANGED <<table, index, now, reader, issued, failures>>

TakeTimestamp(w) ==
  LET r == req[w] IN
  /\ r.pc = "stamp"
  /\ Goto(w, [r EXCEPT !.pc = AfterStamp(r), !.ts = now,
                       !.expiry = Expiry(r.ttl)])
  /\ UNCHANGED <<table, index, now, reader, issued, failures>>

(***************************************************************************)
(* Writing objects and metadata.                                           *)
(***************************************************************************)
\* _batch_get_existing_objects, then the items of the batch are built.
BatchGet(w) ==
  LET r == req[w] IN
  /\ r.pc = "batchGet"
  /\ Goto(w, [r EXCEPT !.pc = "write", !.expiry = Expiry(r.ttl),
                       !.seen = [i \in DOMAIN r.batch \cap LiveIds(r.coll) |->
                                   objs[r.coll][i].size]])
  /\ UNCHANGED <<table, index, now, reader, issued, failures>>

\* A slip: every object is stamped when it is written.
WriteObjectStampedLate(w, id) ==
  LET r == req[w] IN
  /\ r.pc = "write" /\ id \in r.todo
  /\ objs' = [objs EXCEPT ![r.coll][id] =
                [modified |-> now, size |-> r.batch[id], expiry |-> r.expiry]]
  /\ Goto(w, [r EXCEPT !.todo = r.todo \ {id},
                       !.pc = IF r.todo = {id} THEN "metadata" ELSE "write"])
  /\ UNCHANGED <<meta, index, now, reader, issued, failures>>

\* One item of the batch lands; a BatchWriteItem is atomic item by item only.
WriteObject(w, id) ==
  LET r == req[w] IN
  /\ r.pc = "write" /\ id \in r.todo
  /\ objs' = [objs EXCEPT ![r.coll][id] =
                [modified |-> r.ts, size |-> r.batch[id], expiry |-> r.expiry]]
  /\ Goto(w, [r EXCEPT !.todo = r.todo \ {id},
                       !.pc = IF r.todo = {id} THEN "metadata" ELSE "write"])
  /\ UNCHANGED <<meta, index, now, reader, issued, failures>>

\* A slip: a batch puts the count it read first plus its delta.
UpdateMetadataFromRead(w) ==
  LET r == req[w]
      base == IF r.op = "PutBso" THEN meta[r.coll] ELSE r.found
  IN
  /\ r.pc = "metadata"
  /\ r.op \in {"PutBso", "PutColl"} \/ (r.op = "PostColl" /\ r.found # None)
  /\ meta' = [meta EXCEPT ![r.coll] = Added(base, r.ts, CountDelta(r), UsageDelta(r))]
  /\ Respond(w, 200)
  /\ UNCHANGED <<objs, index, now, reader, issued, failures>>

\* _update_collection_metadata: atomic ADD of the deltas, creating the item.
UpdateMetadata(w) ==
  LET r == req[w] IN
  /\ r.pc = "metadata"
  /\ r.op \in {"PutBso", "PutColl"} \/ (r.op = "PostColl" /\ r.found # None)
  /\ meta' = [meta EXCEPT ![r.coll] =
                Added(meta[r.coll], r.ts, CountDelta(r), UsageDelta(r))]
  /\ Respond(w, 200)
  /\ UNCHANGED <<objs, index, now, reader, issued, failures>>

\* A collection POST found missing gets its whole metadata item with put_item.
PutNewMetadata(w) ==
  LET r == req[w] IN
  /\ r.pc = "metadata" /\ r.op = "PostColl" /\ r.found = None
  /\ meta' = [meta EXCEPT ![r.coll] = Added(None, r.ts, CountDelta(r), UsageDelta(r))]
  /\ Respond(w, 200)
  /\ UNCHANGED <<objs, index, now, reader, issued, failures>>

\* DELETE ?ids= puts back the count and usage it read first, with a new stamp.
PutStaleMetadata(w) ==
  LET r == req[w] IN
  /\ r.pc = "metadata" /\ r.op = "DelIds"
  /\ meta' = [meta EXCEPT ![r.coll] = [r.found EXCEPT !.modified = r.ts]]
  /\ Respond(w, 200)
  /\ UNCHANGED <<objs, index, now, reader, issued, failures>>

(***************************************************************************)
(* Deleting.                                                               *)
(***************************************************************************)
\* Slips: only the METADATA item is deleted, or expired objects are skipped.
KeysOfMetadata(c) == IF meta[c] = None THEN {} ELSE {Metadata}
KeysOfLive(c) == LiveIds(c) \cup KeysOfMetadata(c)

KeysOf(c) == {id \in Ids : objs[c][id] # None}
             \cup (IF meta[c] = None THEN {} ELSE {Metadata})

\* The collection is finished: answer, or go on with the next one listed.
CollectionDone(w, r) ==
  IF r.colls = {} THEN Respond(w, 200)
  ELSE Goto(w, [r EXCEPT !.pc = "getListed", !.todo = {}])

QueryKeys(w) ==
  LET r == req[w] IN
  /\ r.pc = "query"
  /\ IF KeysOf(r.coll) = {}
       THEN CollectionDone(w, r)
       ELSE Goto(w, [r EXCEPT !.pc = "erase", !.todo = KeysOf(r.coll)])
  /\ UNCHANGED <<table, index, now, reader, issued, failures>>

\* One delete of the batch lands, in any order.
EraseItem(w, key) ==
  LET r == req[w] IN
  /\ r.pc = "erase" /\ key \in r.todo
  /\ objs' = [objs EXCEPT ![r.coll] =
                [id \in Ids |-> IF id = key THEN None ELSE objs[r.coll][id]]]
  /\ meta' = IF key = Metadata THEN [meta EXCEPT ![r.coll] = None] ELSE meta
  /\ \/ /\ r.todo # {key}
        /\ Goto(w, [r EXCEPT !.todo = r.todo \ {key}])
     \/ /\ r.todo = {key} /\ r.op = "DelIds"
        /\ Goto(w, [r EXCEPT !.todo = {}, !.pc = "metadata"])
     \/ /\ r.todo = {key} /\ r.op # "DelIds"
        /\ CollectionDone(w, r)
  /\ UNCHANGED <<index, now, reader, issued, failures>>

\* delete_all_storage: list_collections reads the index, not the table ...
ListCollections(w) ==
  LET r == req[w] IN
  /\ r.pc = "list"
  /\ CollectionDone(w, [r EXCEPT !.colls = {c \in Collections : index[c] # None}])
  /\ UNCHANGED <<table, index, now, reader, issued, failures>>

\* A slip: the collection handled stays on the list.
GetListedAgain(w, c) ==
  LET r == [req[w] EXCEPT !.coll = c] IN
  /\ req[w].pc = "getListed" /\ c \in req[w].colls
  /\ IF meta[c] = None
       THEN CollectionDone(w, r)
       ELSE Goto(w, [r EXCEPT !.pc = "query"])
  /\ UNCHANGED <<table, index, now, reader, issued, failures>>

\* ... then delete_collection for each, skipping those already gone.
GetListed(w, c) ==
  LET r == [req[w] EXCEPT !.coll = c, !.colls = @ \ {c}] IN
  /\ req[w].pc = "getListed" /\ c \in req[w].colls
  /\ IF meta[c] = None
       THEN CollectionDone(w, r)
       ELSE Goto(w, [r EXCEPT !.pc = "query"])
  /\ UNCHANGED <<table, index, now, reader, issued, failures>>

(***************************************************************************)
(* Reading.                                                                *)
(***************************************************************************)
\* last_modified of get_collection_objects: of the objects, not the metadata.
LastModified(c) ==
  LET stamps == {objs[c][id].modified : id \in LiveIds(c)} \cup {0}
  IN  CHOOSE t \in stamps : \A s \in stamps : s <= t

NotModified(c, ims) == ims # None /\ LastModified(c) <= ims

\* GET of a collection, with an optional X-If-Modified-Since.
ReadCollection(c, ims) ==
  /\ "GetColl" \in Ops
  /\ \/ /\ NotModified(c, ims)
        /\ answer' = [op |-> "GetColl", coll |-> c, status |-> 304,
                       since |-> ims, success |-> {}]
        /\ UNCHANGED reader
     \/ /\ ~NotModified(c, ims)
        /\ answer' = [op |-> "GetColl", coll |-> c, status |-> 200,
                       since |-> ims, success |-> {}]
        /\ reader' = [coll |-> c, at |-> now, last |-> LastModified(c),
                      quiet |-> \A w \in Workers : req[w].pc = "idle",
                      held |-> [id \in LiveIds(c) |-> objs[c][id].modified]]
  /\ UNCHANGED <<table, index, now, req, issued, failures>>

(***************************************************************************)
(* The environment: time, the TTL sweep of DynamoDB (up to 48 hours late), *)
(* the index catching up with the table, and failures.                     *)
(***************************************************************************)
Tick ==
  /\ now < MaxTime
  /\ now' = now + 1
  /\ answer' = None
  /\ UNCHANGED <<table, index, req, reader, issued, failures>>

Sweep(c, id) ==
  /\ objs[c][id] # None /\ Expired(objs[c][id])
  /\ objs' = [objs EXCEPT ![c][id] = None]
  /\ answer' = None
  /\ UNCHANGED <<meta, index, now, req, reader, issued, failures>>

\* Only delete_all_storage reads the index to decide what to write.
PropagateIndex(c) ==
  /\ "DelAll" \in Ops
  /\ index[c] # meta[c]
  /\ index' = [index EXCEPT ![c] = meta[c]]
  /\ answer' = None
  /\ UNCHANGED <<table, now, req, reader, issued, failures>>

\* A call may fail if the instance still allows a failure.
Failing ==
  /\ failures < MaxFailures
  /\ failures' = failures + 1
  /\ UNCHANGED <<table, index, now, reader, issued>>

\* The invocation dies, or an error cuts it off: no success is answered.
Crash(w) ==
  /\ req[w].pc # "idle"
  /\ Goto(w, NoRequest)
  /\ Failing

\* get_collection fails while POST checks its header: the request goes on.
PreconditionUnchecked(w) ==
  /\ req[w].pc = "checkHeader"
  /\ Goto(w, [req[w] EXCEPT !.pc = "getCollection"])
  /\ Failing

Dropping(p, id) == [i \in DOMAIN p \ {id} |-> p[i]]

\* batch_writer flushes as soon as it holds FlushAmount items, inside the
\* put_item or delete_item of the last of them.  If that call fails none of
\* them lands, the error is caught, and only the last one is reported failed.
FlushFails(w, ids) ==
  LET r == req[w] IN
  /\ \/ r.pc = "write" /\ r.op # "PutBso"
     \/ r.pc = "erase" /\ r.op = "DelIds"
  /\ ids \subseteq r.todo /\ Cardinality(ids) = FlushAmount
  /\ \E last \in ids :
       Goto(w, [r EXCEPT !.batch = Dropping(r.batch, last),
                         !.seen = Dropping(r.seen, last),
                         !.todo = r.todo \ ids,
                         !.pc = IF r.todo = ids THEN "metadata" ELSE r.pc])
  /\ Failing

Init ==
  /\ objs = [c \in Collections |-> [id \in Ids |-> None]]
  /\ meta = [c \in Collections |->
               IF c \in Existing THEN [modified |-> 1, count |-> 0, usage |-> 0]
               ELSE None]
  /\ index = meta
  /\ now = 1
  /\ req = [w \in Workers |-> NoRequest]
  /\ answer = None
  /\ reader = None
  /\ issued = 0
  /\ failures = 0

\* The next call of the request w is handling.
Handle(w) ==
  \/ GetObjectForPut(w) \/ GetObjectForDelete(w)
  \/ CheckPrecondition(w) \/ GetCollectionForPost(w)
  \/ GetCollectionForPut(w) \/ GetCollectionForDelete(w)
  \/ TakeTimestamp(w) \/ BatchGet(w)
  \/ \E id \in Ids : WriteObject(w, id)
  \/ UpdateMetadata(w) \/ PutNewMetadata(w) \/ PutStaleMetadata(w)
  \/ QueryKeys(w) \/ ListCollections(w)
  \/ \E key \in Ids \cup {Metadata} : EraseItem(w, key)
  \/ \E c \in Collections : GetListed(w, c)

Next ==
  \/ \E w \in Workers :
       \/ Arrive(w) \/ Handle(w) \/ Crash(w) \/ PreconditionUnchecked(w)
       \/ \E ids \in SUBSET Ids : FlushFails(w, ids)
  \/ \E c \in Collections, ims \in OptHeaders : ReadCollection(c, ims)
  \/ Tick
  \/ \E c \in Collections, id \in Ids : Sweep(c, id)
  \/ \E c \in Collections : PropagateIndex(c)

Spec == Init /\ [][Next]_vars

\* An invocation that was not killed runs on to its next call.
FairSpec == Spec /\ \A w \in Workers : WF_vars(Handle(w))
=============================================================================
