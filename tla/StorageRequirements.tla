------------------------ MODULE StorageRequirements -------------------------
(***************************************************************************)
(* What StorageManager has to guarantee.  Some of these hold for every     *)
(* instance, some only for one request at a time or without deletions, and *)
(* some are what the documents claim and the code does not do: the README  *)
(* says which run checks which.                                            *)
(***************************************************************************)
EXTENDS StorageManager

Writing == {"PutBso", "PostColl", "PutColl"}

\* A request has what its label needs: every operation but DELETE /storage
\* names its collection, that one has picked one when it queries and erases,
\* DELETE ?ids= holds the metadata it will put back, and a write writes only
\* what is in its batch.
WellFormed(r) ==
  /\ r.op = "none" => r.pc = "idle"
  /\ r.op \notin {"none", "DelAll"} => r.coll \in Collections
  /\ r.op = "DelAll" =>
       \/ r.pc \in {"stamp", "list", "getListed"}
       \/ r.pc \in {"query", "erase"} /\ r.coll \in Collections
  /\ r.op # "DelAll" => r.colls = {} /\ r.pc \notin {"list", "getListed"}
  /\ r.op \in Writing => r.todo \subseteq DOMAIN r.batch
  /\ r.pc \in {"batchGet", "write"} => r.op \in Writing
  /\ r.pc = "query" => r.op \in {"DelColl", "DelAll"}
  /\ r.pc = "erase" => r.op \notin Writing
  /\ (r.op = "DelIds" /\ r.pc \in {"stamp", "erase", "metadata"}) => r.found # None

GoodRequest == {r \in Request : WellFormed(r)}

\* The type invariant of the storage state and of the requests in flight.
TypeOK ==
  /\ objs \in [Collections -> [Ids -> Bso \cup {None}]]
  /\ meta \in [Collections -> Meta \cup {None}]
  /\ index \in [Collections -> Meta \cup {None}]
  /\ now \in Nat \ {0}
  /\ req \in [Workers -> GoodRequest]
  /\ issued \in Nat
  /\ failures \in Nat

Quiet == \A w \in Workers : req[w].pc = "idle"

StoredIds(c) == {id \in Ids : objs[c][id] # None}
StoredPayloads(c) == [id \in StoredIds(c) |-> objs[c][id].size]

(***************************************************************************)
(* Metadata and objects agree.                                             *)
(***************************************************************************)
\* Between requests, a collection that holds objects has its metadata item:
\* the only way it is listed, counted, or deleted (delete_collection refuses
\* to look at objects whose METADATA is missing).
ListedWhenStored ==
  Quiet => \A c \in Collections : StoredIds(c) # {} => meta[c] # None

\* Between requests, count and usage may be too high (deletions and expiry
\* never lower them) but never too low.
NeverUndercounted ==
  Quiet => \A c \in Collections : meta[c] # None =>
             /\ meta[c].count >= Cardinality(StoredIds(c))
             /\ meta[c].usage >= Cardinality(Bytes(StoredPayloads(c)))

\* Between requests, no object is newer than its collection: comparing
\* X-If-Unmodified-Since with the collection protects every object in it.
StampCoversObjects ==
  Quiet => \A c \in Collections : \A id \in StoredIds(c) :
             meta[c] # None => objs[c][id].modified <= meta[c].modified

\* Objects some invocation has already written and not yet counted.
Owed(c) ==
  {p \in Workers \X Ids :
     LET r == req[p[1]] IN
     /\ r.coll = c
     /\ r.pc \in {"write", "metadata"}
     /\ p[2] \in NewIds(r) \ r.todo}

\* "concurrent writers do not clobber each other's count/usage increments":
\* at every moment the count and what is still owed to it cover the objects.
CountCoversObjects ==
  \A c \in Collections :
    (IF meta[c] = None THEN 0 ELSE meta[c].count) + Cardinality(Owed(c))
      >= Cardinality(StoredIds(c))

\* The instances for which the last property is promised: objects are only
\* added, by requests that are never cut off, and POST never has to create its
\* collection.  Each condition is needed: the README says what goes wrong.
AddOnly ==
  /\ Ops \subseteq Writing
  /\ TTLs = {} /\ MaxFailures = 0
  /\ "PostColl" \in Ops => Existing = Collections

\* What makes it inductive in those instances.  What a request saw stored is
\* still stored when it writes, so an id it does not count is no new id; and a
\* POST past its lookup has found its collection, so it will add, not put.
SeenStaysStored(r) ==
  \/ DOMAIN r.seen = {}
  \/ r.coll \in Collections /\ DOMAIN r.seen \subseteq StoredIds(r.coll)
PostHasFound(r) ==
  (r.op = "PostColl" /\ r.pc \in {"stamp", "batchGet", "write", "metadata"})
    => r.found # None

CountInvariant ==
  /\ TypeOK
  /\ failures = 0
  /\ \A c \in Existing : meta[c] # None
  /\ \A c \in Collections : \A id \in StoredIds(c) : objs[c][id].expiry = None
  /\ \A w \in Workers :
       /\ req[w].op \in Ops \cup {"none"}
       /\ req[w].expiry = None
       /\ SeenStaysStored(req[w])
       /\ PostHasFound(req[w])
  /\ CountCoversObjects

(***************************************************************************)
(* Optimistic concurrency control.                                         *)
(***************************************************************************)
\* A write accepted with X-If-Unmodified-Since never replaces a version the
\* client has not seen: one modified after the time it sent.
ConditionalWriteSafe ==
  [][\A w \in Workers, id \in Ids :
       LET r == req[w] IN
       (WriteObject(w, id) /\ r.ius # None /\ Live(r.coll, id) # None)
         => objs[r.coll][id].modified <= r.ius]_vars

(***************************************************************************)
(* Deleting and reading.                                                   *)
(***************************************************************************)
Answered(op, status) ==
  answer # None /\ answer.op = op /\ answer.status = status

\* When DELETE of a collection answers 200, nothing of it is left.
DeletedMeansGone ==
  Answered("DelColl", 200) =>
    meta[answer.coll] = None /\ StoredIds(answer.coll) = {}

\* Incremental sync: a client that read the collection while no write was in
\* flight, and after the tick of the newest object, misses nothing when it
\* later asks for newer=<X-Last-Modified of that read>.
IncrementalReadComplete ==
  (reader # None /\ reader.quiet /\ reader.at > reader.last) =>
    \A id \in LiveIds(reader.coll) :
      \/ objs[reader.coll][id].modified > reader.last
      \/ id \in DOMAIN reader.held /\ reader.held[id] = objs[reader.coll][id].modified

(***************************************************************************)
(* The requests of one client at a time take effect atomically.  A write   *)
(* or deletion counts as done as soon as its timestamp (for a batch, its   *)
(* view of the old objects) is fixed; the rest of it is still to land.     *)
(***************************************************************************)
Landing(r, c) == r.coll = c /\ r.pc \in {"write", "metadata"} /\ r.op # "DelIds"
Removing(r, c) == r.coll = c /\ r.pc = "erase"

EventualItem(c, id) ==
  LET landing == {w \in Workers : Landing(req[w], c) /\ id \in req[w].todo}
      removing == {w \in Workers : Removing(req[w], c) /\ id \in req[w].todo}
  IN IF landing # {} THEN
       LET r == req[CHOOSE w \in landing : TRUE]
       IN  [modified |-> r.ts, size |-> r.batch[id], expiry |-> r.expiry]
     ELSE IF removing # {} THEN None
     ELSE objs[c][id]

EventualStamp(c) ==
  LET stamping == {w \in Workers : Landing(req[w], c) \/
                     (req[w].op = "DelIds" /\ req[w].coll = c
                        /\ req[w].pc \in {"erase", "metadata"})}
      dropping == {w \in Workers : Removing(req[w], c)
                                     /\ req[w].op \in {"DelColl", "DelAll"}}
  IN IF stamping # {} THEN req[CHOOSE w \in stamping : TRUE].ts
     ELSE IF dropping # {} \/ meta[c] = None THEN None
     ELSE meta[c].modified

\* An item whose expiry has passed is not visible, swept or not.
EventualStore ==
  [c \in Collections |-> [id \in Ids |->
     LET b == EventualItem(c, id)
     IN  IF b # None /\ Expired(b) THEN None ELSE b]]

Atomic == INSTANCE AtomicStorage WITH
            store <- EventualStore,
            stamp <- [c \in Collections |-> EventualStamp(c)],
            clock <- now

\* One request at a time, the service is the atomic store.
ImplementsAtomicStorage == Atomic!Spec

(***************************************************************************)
(* Liveness.                                                               *)
(***************************************************************************)
\* Every request is answered, the delete-all loop over collections included.
EveryRequestAnswered ==
  \A w \in Workers : req[w].pc # "idle" ~> req[w].pc = "idle"
=============================================================================
