# Formal models of ffsync

ffsync is a self-hosted Firefox Sync backend: AWS Lambda handlers in Python over
DynamoDB tables, a small React frontend that plays the part of the account
server's pages, and CDK stacks that deploy both.  This directory holds TLA+
models of its core logic, the TLC configurations that check them on small
instances, and theorems about them checked by TLAPS.

Reading order: `StorageManager.tla` and `StorageRequirements.tla`; `ChannelService.tla`
and `ChannelRequirements.tla`, then `PairingChannel.tla`, which sits on top of it;
`TokenServer.tla`, then `HawkAuthentication.tla`; `AuthAccounts.tla`, then
`AuthTokens.tla`.  The `*Proofs` modules follow the module they are named after.

## 1. The system

Every request is one Lambda invocation.  Invocations run concurrently, share no
memory except short-lived caches inside one warm process, and talk to DynamoDB one
call at a time.  A call is atomic on one item.  No multi-item transaction is used
anywhere, so each handler of more than one call is a small distributed protocol:
another invocation may run between any two calls, and the invocation may die (a
timeout, an exception) between any two.  That is where the properties below come
from.

| Component | State | Operations | Interacts with | What is hard | What makes it correct |
|---|---|---|---|---|---|
| Storage: writes, deletions (`storage_manager.py`, routes `bso`, `collections`, `storage`) | per collection: items `OBJECT#id`, one item `METADATA` (modified, count, usage); an index over METADATA that lags | PUT/DELETE of an object, POST/PUT/DELETE of a collection, DELETE of all | DynamoDB, its TTL sweep, its index; the Hawk middleware in front | read-check-write over several calls; batches that land item by item; failures in the middle; expiry | metadata cover the objects; conditional writes are safe; timestamps support incremental sync; deletions delete |
| Storage: reads (`collections/read.py`, `bso/read.py`, `info/*`) | none of its own | GET with filters, sort, paging, conditional headers; `/info` | as above | 304 decided from what is left; reads while a batch lands | an incremental reader misses nothing; a page sequence is complete |
| Pairing relay (`channel_service.py`) | `CHANNEL#id` (list of connections, message count), `CONN#id` (channel), both with a TTL | `$connect`, `$default`, `$disconnect`, deferred post of the channel id | API Gateway WebSockets, both pairing pages | concurrent joins and clean-ups; indexes read earlier; registration races | limits hold; frames in order; an ack means relayed; clean-up removes who left |
| Token server (`user_manager.py`, `routes/token/request.py`) | user record: generation, client state and its history | issue storage credentials | OIDC or session tokens in, Hawk credentials out | unconditional write-back of a history read earlier; ids that repeat within a second | devices with one storage uid use one key; credentials work until they expire |
| Hawk authentication (`hawk_service.py`, `middlewares/hawk_auth.py`) | token cache table, 30 s process cache, nonces | validate a request | token server, storage | stale cache, duplicates that race for the nonce, expiry checked once | a signed request is accepted once; replaced keys and expired tokens fade within a bound |
| Accounts (`auth_account_manager.py`, routes `account_*`, `oidc_exchange`, `get_profile`) | account, e-mail and OIDC-subject items | create, log in, look up, backfill | OIDC exchange, sessions | three writes without a transaction, clean-up that deletes by key, ambiguous failures | who was registered can sign in; no orphans; a profile is one's own |
| Sessions, key-fetch tokens (`fxa_token_manager.py`) | token items with TTL | create, verify, consume, destroy | account routes | consumed by concurrent or repeated requests; reads that lag behind a sign-out | a key-fetch token works once; a signed-out session does not |
| OAuth (`oauth_code_manager.py`, `oauth_token.py`) | codes, refresh tokens | authorise, exchange, rotate, destroy | sessions, JWT | a crash between consume and put; destroy racing rotate; scopes along a chain | a code is used once; rotation never forks nor widens; what was revoked stays so |
| Pairing client (`frontend/src/lib/pairing-channel`, `PairAuthorityPage`, `PairSupplicantPage`) | pending acks, TLS state, socket, what the page shows | create, connect, send, close, approve, decline | pairing relay, the user, OAuth | acks that are late or lost; listeners attached late; closes that cross | frames in order; what a page says was sent was relayed; a refusal stands; pages end |
| Devices (`device_manager.py`) | device items | upsert, list | sessions | read-merge-put | (not modelled) |
| OIDC validator (`oidc_validator.py`) | process caches of discovery document and keys | validate a token | identity provider | cache age, key rotation | (not modelled) |
| Session custody (`frontend/src/lib/session.ts`, `pairing-custody.ts`) | browser storage, a variable of the document | hand over a session | pairing pages | a reload in the middle | (not modelled) |

Not modelled because there is nothing for a model checker in them: the
cryptographic primitives and JWT code, request routing and logging, generated
model classes, CDK stacks, and presentation pages.  `PROJECT.json` lists each.

Not modelled although they keep state: device records (one item, read, merged in
memory and put; two updates at once lose the fields of one of them, and no document
promises otherwise), the OIDC validator's caches (private to a process, read and
written without a wait; the JWT checks are the library's) and the browser's session
store (read and written by one document; that a page without key custody goes back to
sign-in is one of the failures of `GetCode` in `PairingChannel`).

## 2. Modules

| Module | What it is |
|---|---|
| `StorageManager` | the storage of one user, one action per DynamoDB call |
| `AtomicStorage` | what it promises a client that is alone: every request takes effect at one instant |
| `StorageRequirements` | its invariants, action and liveness properties, and the refinement mapping |
| `StorageManagerProofs` | TLAPS proofs about it, with any number of requests at once |
| `StorageSerialProofs` | TLAPS proofs of what a client that is alone gets, the refinement of `AtomicStorage` among them |
| `ChannelService` | the pairing relay, one action per table or gateway call |
| `ChannelRequirements` | its properties |
| `ChannelServiceProofs` | TLAPS proofs about it: types and limits, order and acknowledgement of frames |
| `PairingChannel` | the two pages, their channels and TLS connections, over a relay reduced to what a page sees of it; its properties |
| `PairingChannelProofs` | TLAPS proofs about it: types, order of frames, what a sent message and a decline mean |
| `TokenServer` | users, generations, client states and the issue of credentials, one action per table call; its properties |
| `TokenServerProofs` | TLAPS proofs about it |
| `HawkAuthentication` | validation of signed requests by concurrent processes; its properties |
| `HawkAuthenticationProofs` | TLAPS proofs about it |
| `AuthAccounts` | registration, login and lookups over three items; its properties |
| `AuthAccountsProofs` | TLAPS proofs about it |
| `AuthTokens` | sessions, key-fetch tokens, codes and refresh tokens; its properties |
| `AuthTokensProofs` | TLAPS proofs about it |
| `MC*` | symmetry sets and instances for TLC |

How they fit together: `ChannelService` shows that a relay keeps the frames of one
sender in order *if* the sender waits for acks; `PairingChannel` models the sender and
shows that it does, also when it stops waiting.  `TokenServer` issues what
`HawkAuthentication` accepts.  `AuthAccounts` ends where a client holds a session;
`AuthTokens` begins there.

Plan, most important first:

1. `PairingChannel` with two faults per behaviour, and refining its relay by
   `ChannelService` with an `INSTANCE`.
2. `CollectionQuery`: filter, sort and paging as operators, checked against a
   reference definition over bounded collections.

## 3. The storage service

### State and actions

`objs`, `meta` and `index` are the items of one user.  `req[w]` is what invocation
`w` is doing: the operation, its arguments, what it has read so far and a label `pc`
naming its next call.  `Arrive` starts a request.  `Handle(w)` is the disjunction of
the calls; the local computation after a call (deltas, the choice of the next branch,
the response) belongs to that call's action.

| Operation | Calls, in order |
|---|---|
| PUT object | `GetObjectForPut`, `TakeTimestamp`, `WriteObject`, `UpdateMetadata` |
| POST collection | `CheckPrecondition` if there is a header, `GetCollectionForPost`, `TakeTimestamp`, `BatchGet` if it was found, `WriteObject` per item, `UpdateMetadata` if it was found or else `PutNewMetadata` |
| PUT collection | `GetCollectionForPut`, `TakeTimestamp`, `BatchGet`, `WriteObject` per item, `UpdateMetadata` |
| DELETE object | `GetObjectForDelete`, `TakeTimestamp`, `EraseItem` per item, then the answer |
| DELETE ?ids= | `GetCollectionForDelete`, `TakeTimestamp`, `EraseItem` per id, `PutStaleMetadata` |
| DELETE collection | `GetCollectionForDelete`, `TakeTimestamp`, `QueryKeys`, `EraseItem` per key, METADATA among them |
| DELETE all | `TakeTimestamp`, `ListCollections` from the index, and `GetListed`, `QueryKeys`, `EraseItem` for each |
| GET collection | `ReadCollection` |

The environment is `Tick`, `Sweep` (DynamoDB deletes expired items, late),
`PropagateIndex`, `Crash`, `PreconditionUnchecked` (the blanket `except` of the POST
precondition) and `FlushFails`.

What is abstracted, and why that is sound here:

- A payload is its length: counts, usage and preconditions see nothing else.
- Time is in ticks of `get_current_timestamp`, which keeps two decimals; an expiry is
  in whole seconds as `int(time.time()) + ttl`.  `TicksPerSecond` is 2 instead of 100.
- All items of a batch have the same ttl; PUT of an object without a payload is left
  out (see the divergences below).
- The pages of one query are one action; the 25-item chunks of a batch are its items,
  landing in any order, which covers every chunking.
- `FlushFails` does not fix which ids share a chunk: any `FlushAmount` of the
  outstanding ones may be lost together (25 in the code, 2 here).
- A request that fails validation changes nothing and is not issued.
- The index is only maintained in instances with DELETE of all, the one writer that
  reads it.

### The runs

| Run | Instance | Question | Result |
|---|---|---|---|
| `StorageSerial` | 1 invocation, 1 collection, 2 ids, 2 sizes, a ttl of one second, the headers 0 and 2, 3 ticks, 3 requests, every operation on one collection | Does a client that is alone get the atomic store, with metadata that cover the objects? | holds |
| `StorageCrash` | 1 invocation, 2 collections, 2 requests, 1 failure | Does a reader that asks for what is newer miss nothing although writers die anywhere? Is every request answered? | holds |
| `StorageWriters` | 2 invocations, 3 requests on an existing collection | Are count increments of concurrent writers kept? | holds |
| `StorageLostUpdate` | 2 conditional PUTs of one object | Is `X-If-Unmodified-Since` safe under concurrency? | violated |

The bounds: two ids give a batch that is half old and half new; two sizes give
usage that shrinks and grows; three ticks with two per second give equal stamps,
an expiry that passes and a second boundary; three requests are create, change,
observe; header 0 asks for create-only, header 2 is a time; two concurrent invocations are enough for each of the races, since each is
between one reader-then-writer and one interfering step.  The passing runs fire every
action and, between them, every disjunct.

`ImplementsAtomicStorage` maps the model to `AtomicStorage`: a write counts as done
when its timestamp (for a batch, its view of the old objects) is fixed, a deletion
when its keys are; the rest is "to land".  An expired item is invisible, swept or
not.  It holds one request at a time; with two invocations the runs above show how it
fails.

`NeverUndercounted` is one-sided on purpose: deletions and expiry never lower count
and usage in the code.

What the runs do not reach.  `StorageSerial` has one request at a time and no failures:
its invariants say nothing of an invocation that dies in the middle, of a deletion that
stops half way, or of two writers.  `StorageWriters` starts with the collection in place:
the `put_item` of a new one, and the stale metadata of DELETE ?ids=, are outside it, since
they do lose increments (below).  `IncrementalReadComplete` is for a reader that finds no
request in flight.  `EveryRequestAnswered` counts a crash as an end, and says nothing of
what DELETE of all leaves behind.

Fairness: `FairSpec` is weak fairness of `Handle(w)`, the next call of an invocation
that was not cut off.  Lambda gives that: a running invocation is not suspended for
ever, and one that is killed is `Crash`.  `EveryRequestAnswered` needs nothing more:
no fairness of time, the sweep or the index is assumed.

### What is proved

`TypeCorrect`: `Spec => []TypeOK`, from `StorageAssumption` alone (finite sets of ids
and invocations, natural sizes, an absent value outside the others).  `TypeOK`
contains `WellFormed`: at each label a request has the fields its next call reads.

`CountsCover`: `Spec => []CountCoversObjects` under `AddOnly`, for any number of
ids, collections and concurrent invocations.  The count alone is no invariant: a
writer's objects land before its increment.  So the property adds what is `Owed`, the
new objects already written by writers that have yet to count them.  It is not
inductive either; `CountInvariant` adds that what a writer saw stored is still stored
(or else an id it does not count would be new again) and that a POST past its lookup
has found its collection (so it adds, and does not put).  `AddOnly` names what that
rests on.  Each condition is needed:

- only writes: DELETE ?ids= puts back a count it read earlier;
- no ttl: an object that expires and is swept between a writer's lookup and its write
  is new, and not counted;
- no failures: an invocation that dies between objects and metadata never counts them;
- POST only on existing collections: `put_item` of new metadata overwrites the
  increments of others.

`IncrementalReads`: `Spec => []IncrementalReadComplete`, from `StorageAssumption` alone:
any number of invocations, crashes, and every operation.  Two facts carry it.  `Past`:
no object, metadata item or request has a time that has not come yet.  `Ages`: a step
keeps an object, drops it, or writes it with a time that its writer holds.  A client that
reads while no request is in flight learns every version there is, and a request that
takes its timestamp afterwards writes with one no earlier than the read (`ReadInvariant`);
so each later version is either held or newer.  The property promises nothing to a client
that reads while a write is landing, nor within the tick of the newest object: there
newer=X-Last-Modified does miss objects.

The promises to a client that is alone are theorems under `OneAtATime`: there is one
invocation, and no call fails.  Neither can be dropped: two requests at once lose
increments and stamp a collection with the older time (`PutNewMetadata`), and a writer
that dies leaves objects that no metadata covers.  Collections, ids, sizes, ttls, headers,
the number of requests and the clock are arbitrary, expiry and its sweep happen at any time, and DELETE of all,
which the run `StorageSerial` leaves out, is included.

- `SerialListed`, `SerialCounted`, `SerialStamped`, `SerialGone`, `SerialConditional`: the
  invariants `ListedWhenStored`, `NeverUndercounted`, `StampCoversObjects`,
  `DeletedMeansGone` and the action property `ConditionalWriteSafe`.
- `SerialRefinement`: `Spec => ImplementsAtomicStorage`.

`SerialInvariant` says what the one request has in hand.  A write is `Ahead`: with its
deltas added, the metadata will cover what is stored and what it is going to store.  That
is not an equation but an inequality, as expired objects may go at any time, and it is
why `NeverUndercounted` is one-sided.  What the write has landed is what it was sent
(`Prepared`, `Landed`), what it has yet to overwrite is no newer than its header
(`Passed`), a deletion of a collection has every key on its list (`Emptied`), what was
fetched is still so (`Fetched`), and its timestamp is the latest (`Latest`).  A collection that
nobody is writing to is `Covered`; one that nobody is emptying either is `Listed`.

The refinement adds `Targeted`: the collection that a deletion is about to query is there,
as the abstract deletion requires.  `TakeTimestamp` is the abstract `Write`, `DeleteObject` or
`DeleteObjects`, unless the request reads the old objects first; then `BatchGet` is
`Write`, and `QueryKeys` is `DeleteCollection`.  `Tick` is `Advance`.  Every other step
stutters: `WriteObject`, `EraseItem` and the metadata calls do what `EventualItem` and
`EventualStamp` had announced, and a swept object was invisible before.

Model-checked only: `EveryRequestAnswered`, as liveness is outside what the prover can do.

### Where the code and its documents disagree

With a run: see `findings` in `PROJECT.json`.  Seen while modelling, without a run:

- Two POSTs that both find the collection missing end in `put_item` of new metadata:
  the second overwrites the count and usage of the first (`PutNewMetadata`).
- A flush of `batch_writer` that fails inside `put_item` loses up to 24 items that the
  POST then lists as successes (`FlushFails`; the condition on the failing item is what
  the loop catches).
- 304 is decided from the objects that are left: after DELETE ?ids= of the newest ones
  a reader is told that nothing changed (`NotModified`).
- Deletions and expiry never lower count and usage, while Property 16 of the storage
  design wants counts to be those of the stored objects; concurrent shrinking writes
  can even make usage negative.
- DELETE ?ids= puts back the count and usage it read before it deleted: what another
  request added in between is lost, and the deleted objects stay counted
  (`PutStaleMetadata`).
- A deletion of a collection that stops half way, or a write that dies before its
  metadata, leaves objects that no count or listing knows.
- Timestamps are taken before objects are written: a reader that comes in between and
  then asks for what is newer than its X-Last-Modified misses those that land later with
  the same or an older time.
- Neither DELETE of a collection nor of ids looks at `X-If-Unmodified-Since`
  (Requirements 5.1, 5.2).
- DELETE of all misses collections the index does not show yet (Requirement 4.6).
- After a PUT that died before its metadata, DELETE of the collection answers 200 and
  leaves the object (Property 12).
- PUT of an object without a payload fails with 500, and one with a payload drops the
  sortindex and the ttl it does not name (Requirement 1.3).
- Duplicate ids in one batch are a 500; the header of PUT of a collection is parsed
  with `int()`, so a decimal one is refused.
- `X-Weave-Timestamp` is the later of now and the last-modified time (Requirement 9.3
  asks for now).

## 4. The pairing relay

### State and actions

`channel` and `lookup` are the items `CHANNEL#id` and `CONN#id`; `socket` is what the
gateway knows of a connection; `events` are invocations to be started; `handler[w]` is
what an invocation is doing, with a label for its next call.  `sent`, `acked`,
`refused` and `got` record what each client has sent and received, so that properties
can speak of the whole conversation.

| Route | Actions |
|---|---|
| `$connect` | `CreateChannel`, or `JoinChannel` (one conditional update, refused with 404 or 403); then `PutLookup` and `SchedulePost`; the gateway `Register`s the connection afterwards |
| deferred post | `PostChannelId`, tried again while the connection is not registered |
| `$default` | `FindChannel`, `CountMessage` (one conditional update that returns the list), then per entry `SkipSender`, `Deliver`, or `Gone` followed by a clean-up, then `Ack` |
| `$disconnect`, and the clean-up after `Gone` | `GetLookup`, `DropLookup`, `GetChannel`, `DropIndex` |

Clients `Open`, `Send` and `Close`.  `Send` is the one piece of frontend code in the
module: `sendAndAwaitAck` sends a frame only after the last one was acknowledged.  A
client whose frame was refused or never acknowledged sends nothing more, as its gate
rejects.  `Crash`, `ExpireChannel` and `ExpireLookup` are bounded together by
`MaxFailures`.  A post that fails with an error other than Gone is a `Crash` of the
relay, which it ends, or of the deferred post, which gives up.

Abstracted: a frame is its number; addresses, the envelope and the client cache are
left out; a client hangs up only once it is registered; `Channels` bounds how many
channels are created, and a `$connect` beyond the bound stands still, which is why
deadlock is not checked.  Expiry is any moment: the TTL of 300 seconds is never
refreshed, and the two items of a connection carry different ones.

### The runs

| Run | Instance | Question | Result |
|---|---|---|---|
| `ChannelRelay` | 3 connections for a channel of 2, one sender with 2 frames, 2 invocations, one crash or expiry | Do the limits hold? Do frames arrive in order, without gaps, and acked only when relayed? | holds |
| `ChannelSettles` | 2 connections, a frame each, message limit 1, no failures, fair | Is every frame acknowledged or refused unless its sender hangs up? | holds |
| `ChannelDisconnect` | 2 connections, 2 invocations, no failures | Does the clean-up of one connection leave the others alone? | violated |

Three connections on a channel of two give the refused join, the join after somebody
left, and a recipient that vanishes while the relay is under way.  Two invocations
are what the races need.  Two frames are the least for which order means
anything; the second one finds the first acknowledged, lost or refused.  The listeners
of `ChannelRelay` send nothing and are interchangeable, hence the symmetry.
`CONN` and `CHANNEL` items expire independently there.  The limit is 3 in the code, and 2
in the runs, to have a join refused: with two members there is nobody left on the list
after a recipient that is gone.  For three and more, `AckedWasRelayed` is proved.

Fairness: weak fairness of `Handle(w)`, as for storage, and of starting some pending
invocation: API Gateway and Lambda do not leave an event waiting for ever.  Nothing
is assumed of clients.  `FrameSettled` is checked without failures, because it is
false with them: nobody sends a frame or its ack again, and the client's timeout then
ends the pairing.

`ChannelDisconnect` is the clean-up meeting itself: the sender hangs up, its own
`$disconnect` and the ack of its last frame (which finds it gone) both read `CONN#`
before either deletes it, both read the same index, and the second `REMOVE` takes the
connection that joined in between.  That connection stays open and unlisted: frames
of others no longer reach it.

Also seen, without a run: a connection is on the list before the gateway registers it,
so a frame relayed in that window finds it gone, and the clean-up takes off the list a
connection that is about to be live; its own frames are then answered 404.  In the same
window the deferred post of the channel id finds the connection gone, and after
`CHANNEL_POST_RETRIES` attempts its client is never told its channel.  Nothing in the
repository promises otherwise.

### What is proved

`ChannelTyped`: `Spec => []TypeOK` from `ChannelAssumption`, for any number of
connections, channels and concurrent invocations, with crashes and expiries: no
channel ever lists more than `MAX_CONNECTIONS_PER_CHANNEL` connections or counts more
than `MAX_MESSAGES_PER_CHANNEL` messages.  The invariant is `IInv`: that a handler at
a given label works for a connection, on a channel, with a list that is not empty or
an index that is not zero has to be carried from the event that started it.

`FramesStayInOrder` (`Spec => []FramesInOrder`) and `AckedReached`
(`Spec => []AckedWasRelayed`), from the same assumption.  The relay numbers nothing and
several of its invocations may run for one channel; order comes from the client, which
waits for an ack, and from the ack, which comes after the relay.  So the invariant
`Order` says first that a sender has one frame in flight, be it an event or in an
invocation (`Alone`, `Flights`).  A recipient that is still there and received from it
before is then either `Behind`, having everything that was acknowledged, or `Level`,
having everything that was sent: behind while the frame has yet to reach it, level
afterwards, and an ack makes the two the same (`UpToDate`).  A recipient that joins late
starts anywhere but with no gap; one that left does not come back.  For that it has to be
on one list, once, and never to return to it (`Once`), and all frames of a sender have to
go to the list its recipients are on (`OneChannel`), which is not obvious, since `lookup`
and the list are separate items and expire separately.  `AckedWasRelayed` then is the case
of a sender with nothing in flight.

Model-checked only: `FrameSettled`, as liveness.

## 5. The pairing pages

### State and actions

`PairingChannel` is the browser side: the authority page that shows a QR code and the
supplicant page that scanned it, each with a `PairingChannel` object over a TLS
connection over a WebSocket.  `page` is what the user sees, `flow` where the page's
async function waits, `conn` the channel, `tasks` the queue of `_synchronized`, `run`
the frames that the task at its head has yet to send, `wire` the events that a socket
delivers in order, and `air` the frames at the relay, each in an invocation of its own.

| Code | Actions |
|---|---|
| `PairingChannel.create`, `connect` | `CreateChannel`; `JoinChannel`, which sends the ClientHello, and `Joined`, once it is acknowledged; `ConnectFails` |
| `initConnection` of the supplicant | `Probe` (the ten seconds for the browser's OAuth parameters), `Request` (waits for the TLS connection), then the sending of the request |
| `handleApprove`, `handleDecline`, `pair_decline` | `Approve`, `GetCode`; `Decline` |
| `Connection.recv` | `ReceiveHandshake`, `ReceiveMessage`, `ReceiveClose`, `ReceiveBad` |
| `Connection.send`, `close` | `SendOrClose`, then one `HearAck` per frame |
| `sendAndAwaitAck` | `Begin` sends a frame; `HearAck` or `AckTimeout` ends the wait |
| socket listeners | `HearFrame`, `HearAck`, `HearGone` |
| unmounting, leaving | `Leave`, `Vanish` |
| relay, network, gateway | `RelayFrame`, `PostAck`, `RelayDies`; `NetworkBreaks`, `GatewayCloses` |

One action is one event of an event loop with all that runs until the next wait.  A
frame is its number and what is in it; keys and ciphers only matter in that a frame out
of its order is not understood.  The two `connected` promises, the alerts and the
record layer's send and receive errors are the fields `state`, `sendClosed` and
`peerClosed`.  `Connection.send` awaits `connected` before it joins the queue and
`Connection.close` does not, so what a handler starts and does not wait for is queued
behind a close of the same handler, in whichever order it is written: `CloseWith` puts
cancel and decline behind the close, `Reaction` the answer to "authorize".  `EndRefused`
refuses them there.  The relay is what a page can see of `ChannelService`: it posts a frame,
then an ack, or dies before either.

Left out: a component that is unmounted while its function waits for something, and a
second decline.

### The run

`Pairing` checks one pairing from the first message to the end of both pages, with
`MaxFaults = 1`: one thing goes wrong (an answer of the relay comes after the timeout,
an invocation dies, a socket breaks, a page is left or unmounted), with everything that
follows from it; a frame that was lost is then waited for in vain, and the gateway
closes idle connections, without counting as a fault.  What users do (approve, decline
in either way, nothing) is free.  With `MaxFaults = 2` TLC needs a few minutes and finds no error
either.

Fairness: event loops run, timers fire (`AckTimeout`), an invocation of the relay ends
one way or another, the OAuth server answers or the request fails (`GetCode`), and the
gateway closes connections that nobody uses.  No user has to do anything, and neither
`Probe` nor the supplicant as a whole is fair to the authority.

- `SeenInOrder`: what a page has not dealt with yet are frames with consecutive
  numbers.  It rests on the sender never sending again after a timeout: as a late
  invocation may still post the old frame, a frame sent meanwhile would overtake it.
- `DoneMeansRelayed`: a page that goes on because its message was sent is right.
- `DeclineHolds`: the request of a supplicant may arrive after the user declined, and
  puts the page back to asking; approving it then never completes the pairing.  The close
  alone has to see to that, as the messages that say so are refused.
- `AuthoritySettles`, `SupplicantSettles`: both pages end.  Each names the case it leaves
  out: a request (or the account data) that was being decrypted when the socket went
  puts up a question on a channel that is gone; and a supplicant that missed the close
  of the other side, see below.  A supplicant whose pairing was declined ends when it
  hears that close.

### Where the code and its tests disagree

Seen while modelling, without a run:

- `pair:auth:cancel`, `pair:auth:decline` and `pair:supp:authorize` are never sent: each
  is started in the handler that closes the channel, joins the queue behind the close,
  and is refused.  `PairSupplicantPage.tsx:116` says "v2 requires this ack before the
  hand-off", and the tests at `pairing-pages.test.tsx:177` and `:295` see the messages
  because their channel is a fake that records calls of `send`.  A supplicant that was
  declined shows that the channel closed, not that it was declined.
- The supplicant attaches its listeners after the probe of up to ten seconds and the ack
  of its request.  A close that the authority sends before that is dispatched to
  nobody, and the page waits for ever, as a socket close after it is not reported
  (`pairing-pages.test.tsx:233` tests "ends on a terminal error when the channel closes
  while waiting", with the listeners in place).
- Frames that arrive between the ClientHello and its ack find no listener on the socket
  and are lost, and nothing limits how long `send` waits for the handshake.
- The pages ignore a channel's close once they are complete, but not its error: a socket
  that closes after success without a close alert turns "complete" into an error (the
  tests named "does not overwrite the complete state when the channel closes after
  success" dispatch a close).
- `pair_decline` while the authority is authorizing is overwritten by "complete" if the
  answer is sent already; while the channel is being created it is forgotten.
- A channel that has sent its close alert and then has to answer a handshake frame takes
  the error for the peer's close.
- After one ack timeout a channel sends nothing more, not even the alert that would tell
  the peer.

### What is proved

All four theorems are for any `MaxFaults`: any number of late or lost acks, of relays that
die, of sockets that break and of pages that are left.

`AckHasItsTask` (`Spec => []TypeOK`) needs the invariant `Shape`: who says what
(`Spoken`), where a page is before it has a channel (`Starting`), and that a side which
waits for an ack has sent a frame of the task at the head of its queue (`Running`): the
task's own message, or handshake frames in answer to the one it is dealing with.

`GoesOnWhenRelayed` (`Spec => []DoneMeansRelayed`) rests on `Pace`.  At most one frame of
a side is at the relay, and it is the last one sent; a side that waits for nothing and
has not failed has no frame there and no ack on its way; one that waits has one ack at
most, and if that ack is on its way the message was relayed.  A timeout fails the
connection for good, so an ack that comes late finds nobody who waits.  `Sure` is then
inductive: the page goes on with an ack, and the supplicant listens only once its
request was acknowledged.

`FramesSeenInOrder` (`Spec => []SeenInOrder`) needs the numbers.  What a page has yet to
deal with, its queue and then its socket's events, is a `Row`: its numbers rise without a
gap up to that of the last frame the peer sent, or to the one before while that frame is at
the relay, and it is complete once the last frame was acknowledged.  As `Pace` lets one
frame fly at a time, the next one is appended in its place; a socket that is no longer open
adds nothing.  A gap could still come from a channel that was shut while its page has frames
in its queue, as it drops what its socket brings afterwards.  `Quiet` says that by then
nothing with a number is to come.  It rests on two more invariants.
`Goodbye`: a side that sends a close sends nothing after it, no further frame of it is
at the relay, and a closed socket brings nothing.  `Hand`: the authority may close before it
has answered the handshake, with frame 1, while the supplicant has said no more than hello;
there alone a page treats an answer of its own as a close.

`DeclinedStaysDeclined` (`Spec => []DeclineHolds`).  A decline does not take back an
approval, so what has to be shown is that there was none.  `Single`: the supplicant's page
asks once, and its request is in one place, yet to be queued, yet to be sent, at the relay,
or with the authority; there the numbers of its row tell that dealing with it leaves no
other.  Hence as long as the authority's page may still come to `confirming`, and while it is
there, nothing is `Approved`: no code is fetched, no answer is queued, flying or dealt with
(`Decision`).  A decline then puts a close into a queue without an answer (and cancel and decline, which
are refused, behind it), so any answer
that a request arriving later may lead to is behind it (`Shielded`), until the close is being
sent or the channel has failed, after which nothing is sent (`Bars`).

## 6. The token server

### State and actions

`user` is the item `USER#id`; `token` the items `TOKEN#hawk_id`; `req[r]` what an
invocation is doing.  `past` (all versions of the user record) and `issued` (the
credentials devices were given, with the client state they had presented) are history.
A request is `CreateUser`, and when the user exists `GetUser` and, if its client
state is new and allowed, `UpdateClientState`; then `StoreToken` and `Answer`.
`IncrementGeneration` is the operator's call: nothing in the repository makes it, but
the class offers it.

No `get_item` of the repository asks for a consistent read.  Here that is modelled:
with `StaleReads`, `GetUser` may see any earlier version, or none.  In the
storage and relay modules a read returns what is stored; there, a stale read looks like a read made
earlier, which the interleavings contain whenever the reader had started by then, and
not otherwise.

Abstracted: one user, as the items of different users never meet; the bearer token
and the header have been validated; a random key is the number of its request; the
storage uid, a hash of user and generation, is the generation, so that hash
collisions are left out.  What the storage server makes of a credential is module
`HawkAuthentication`.

### The runs

| Run | Instance | Question | Result |
|---|---|---|---|
| `TokenGenerations` | 3 requests at once, 3 client states, history of one, stale reads, a manual increment, crashes | Does a storage uid name one client state? Is a history free of repetitions? | holds |

Three requests are a creation and two updates that race, each with a version of the
record read at any time before; a history of one is at its cap after the first update.
The clock reaches 2 with tokens of one second, so that they expire and are swept.  No
liveness is stated, so no fairness is assumed.  The requests run out, so deadlock is
not checked.

### What is proved

From `TokenAssumption` alone, hence for any number of concurrent requests, client
states and any history cap: `UidNamesState` (`Spec => []OneStatePerGeneration`),
`HistoryDistinct` (`Spec => []StatesDistinct`) and `TokenTyped`.  What is issued is no
invariant by itself.  `IInv` follows it back: a grant is vouched for by some version
of the record (`GrantsVouched`), versions with one generation agree on the client
state (`VersionsAgree`), because none is newer than the record (`Newest`) and an update
increments in place.  An update may write over a version it never saw; that the
state it writes is not in the history it writes needs `UpdateChecked`: both come
from the version that was checked.

### Where the code and its documents disagree

Seen while modelling, without a run:

- The Hawk id is user, generation and expiry in whole seconds: of two credentials
  issued in one second the second replaces the key of the first, whose device is
  refused from then on, although a token "SHALL be valid for 300 seconds"
  (Requirement 1.5 of the token server).  Two devices that wake up together are enough.
  `HawkAuthentication` bounds how long the replaced key is still accepted.

- Two concurrent updates write back the same earlier history: the client state that
  was current in between is in no history and is accepted again (Requirements 13.6,
  13.8).
- A first record with a non-empty client state and an empty history accepts an empty
  one: the check looks at the history only (Requirement 13.7).  The state it replaced is
  refused from then on.
- Neither the token server nor the storage server compares a generation with that of
  the user; `increment_generation` invalidates nothing before the tokens expire
  (Requirements 3.1 and 3.2).
- The generation grows twice when two devices bring the same new client state at once,
  and the two are sent to different uids.

## 7. Hawk authentication

### State and actions

`HawkAuthentication` is the validation of a signed storage request.  `token` are the
items `TOKEN#` with those that were replaced, `nonce` the items `NONCE#`, `cache[p]` the
30-second cache of a process, `run[p]` the validation it is doing.  `signed` and
`accepted` are the requests that clients signed and that passed, with the times of it.
`Issue` is the effect of the token server on `TOKEN#`: an item issued in the same second
has the same id and replaces the one before.  A client signs by its own clock, and the
network delivers what it signed to any process, late and as often as it likes (`Begin`).
Then: the expiry in the id, `CorrectQueryOrder` (only with several query parameters: a
lookup of its own), `CheckMac` (lookup, clock, MAC) and `PutNonce` (the conditional put,
and then mohawk compares the timestamp with the clock read before).  `Stop` is any other
error or the death of the process.

Left out: the generation in the id, which is compared with the entry's own and so is
always equal; a second Hawk scheme for sessions, which is `VerifySession` in
`AuthTokens`.  Each process handles one request at a time, as Lambda does.

### The run and what is proved

`HawkAuthentication` has two processes, one signed request that is delivered again and
again, two keys for one id, a skew, a cache time, a time limit and a sweep lag of one
second each, and a clock up to 5, so that a nonce expires and is swept, a cache entry
outlives the key it holds, and a token expires during a validation.

All four invariants are theorems for every value of the constants, `HawkAssumption`
asking only for naturals and that DynamoDB takes longer to sweep than an invocation may
run: `HawkTyped`, `NoReplay` (`AcceptedOnce`), `ReplacedKeysFade` and `ExpiredRefused`.

`AcceptedOnce` is not inductive.  The argument is about time: the nonce of an accepted
request stays until `2 * Skew + SweepLag` after it was accepted (`NonceKept`).  A
duplicate that does not find it is looked at later than that, so, as no validation
outlasts `SweepLag`, its clock was read more than `2 * Skew` after the first one's
(`RunInTime`, `AcceptedInTime`); but one timestamp is within `Skew` of both readings.
This is why the nonce is kept for twice the skew; with once (`NonceExpiryShort`) TLC finds
the replay.  `ReplacedKeyFades` needs that a cache entry for a replaced key was read
before `gone + ReadLag` (`CacheFades`).

## 8. Accounts

### State and actions

An account is three items, `EMAIL#address`, `OIDCSUB#subject` and `ACCOUNT#uid`, in
`AuthAccounts` the functions `email` and `subject` and the set `account`.  Registration
is `PutEmail` (conditional on there being none), `PutSubject` (unconditional),
`PutAccount`; when one of the last two raises, what was written is deleted by key.  The
other routes are `GetEmail`, `GetSubject`, `GetAccount`, `Backfill` at login, and at the
end `PutSession`, `PutKeyFetch` and `Answer`.  `Crash` ends an invocation anywhere;
`CallFails` lets a call raise *with or without having taken effect*, which is what a
timeout of boto3 means; a read that is not part of a condition returns any version the
item has had (`seen`).  It is assumed that a call takes effect at most once: a delete
that the SDK repeats after a timeout is not modelled.

`lost` are the uids whose registration died, or failed without anybody knowing whether it
took effect; properties about what must be clean leave these out and only these.

### The run

`AuthAccounts`: three requests at once of any kind, two addresses, two subjects, two calls
that fail, and one account from before there were subject items.  Two failures are what
it takes for a write and then its clean-up to fail.  Three requests are two
registrations that race and a login, lookup or third registration that meets what they
leave.

### What is proved

All five invariants, from `AccountAssumption` alone, hence for any number of concurrent
requests, addresses, subjects, failures and crashes, with or without the earlier account: `AccountsTyped`, `SignInHolds`
(`RegisteredCanSignIn`), `NoOrphansLeft`, `ProfilesOwn`, `TokensOwned`.

The argument is one of ownership.  A clean-up deletes by key and does not look at whose
item it deletes, so what has to be shown is that it can only be its own.  For an address
it is: `PutEmail` is conditional, so from then on the address leads to that registration
until that registration deletes it (`Making`), and `Unique` says that no two share a uid.
A subject has no such owner, as `PutSubject` overwrites; but whatever uid an `OIDCSUB#` item
ever named, also to a replica that lags, is of that subject (`Found`).  `Looking` and
`Told` carry what a login or a lookup found to its answer, and `lost` is the only excuse.

### Seen while modelling, without a run

- `PutSubject` overwrites.  A registration that fails after it deletes the `OIDCSUB#`
  item of the account that had it before (another account of the same subject), until
  the next login of that account writes it back.
- An address whose registration died after `PutEmail` "exists" for a registration and is
  unknown to a login.  `NoOrphans` excuses it, its uid being `lost`; that a death in between
  leaves no token without its account is `TokensHaveAccounts`.
- `get_profile` falls back from the uid in the token to the subject, so that a token whose
  uid a replica does not know yet may answer with another account of the same subject.

## 9. Sessions, codes and refresh tokens

### State and actions

`AuthTokens` is one account after sign-in: `session`, `keyfetch`, `code`, `refresh` are
the items; an invocation consumes (one `delete_item` that returns what it deleted), looks
the account up, puts, and answers.  `ArriveWithCode` and its like present anything a
client was ever answered, again and at once: no use is made of the nonces of the Hawk
middleware.  `Revoke` and `DestroySession` delete.  Reads of a session may lag behind its
deletion by `Lag` seconds.  Refresh tokens have a `family`, the code they descend from,
which the code does not record.

A scope is a set and may be empty.  A rotation whose body has no "scope" key keeps the
scope of its token; one that names a scope gets that, and "" names the empty one
(`Work.named` and `Wanted`, `oauth_token.py:153`), which passes the subset test and is
stored.  An authorization code may be for no scope as well: `oauth_authorization.py:57`
refuses a missing or an empty string, but not one of blanks.  The client starts with a code
for `FirstScope`.

Left out: the bearer read of a refresh token in the device middleware, which changes
nothing, and the wrapping of keys.

### The run and what is proved

`AuthTokens`: three requests, two of them at once, two scopes, a first code for both of
them (so that it can be narrowed, to nothing too); credentials for one use live
only in the second of their issue (`Lifetime = 0`: expiry is compared with `<`), a session
one second longer, and the clock goes to 2, so that each of them expires, is swept, and is
presented before and after.  Deadlock is not checked, as the requests run out.

All six invariants are theorems for any number of requests, scopes and seconds, from
`AuthTokenAssumption` (naturals, and a first scope among the scopes): `TokensTyped`, `SingleUse`, `NoFork`, `NoRegain`,
`RevocationHolds`, `SignOutHolds`.  None is inductive.  The invariant keeps a ledger:
`Given` is what was granted and is in a client's hands or about to be, `Pending` what a
request has consumed and has yet to put.  A family is in exactly one place, its code, a
pending request or a stored token (`OnePlace`); what is stored was not used (`Unused`);
what was used was used by one deed (`Once`); scopes shrink along the way (`Narrowing`).
Each step moves a family along or, when the invocation dies, loses it: that a crash
between consuming and putting signs the client out, and never doubles its token, is the
content of `NoFork`.  `TypeOK` also says that a request is at a call that its route makes,
so that none puts a token on a route that gives out none.

`RevokedIsRefused` and `SignedOutIsRefused` are about what arrives after the deletion: the
successor that a rotation under way puts after its token was revoked survives, and a
session may be used until a read that lags has caught up.

Seen while modelling, without a run: `_verify_hawk` of the session middleware accepts a
request whose payload hash is missing or wrong, as it catches both errors; the key-fetch
token is deleted before its MAC is checked, so whoever knows its id can use it up.

## 10. Proved, checked, not modelled

| | Theorems for every value of the constants | Model-checked on small instances only |
|---|---|---|
| Storage | everything that is safety: with one request at a time the refinement of `AtomicStorage` and the serial properties, with writes only `CountCoversObjects`, without a condition types and `IncrementalReadComplete` | `EveryRequestAnswered` |
| Relay | types and limits, `FramesInOrder`, `AckedWasRelayed` | `FrameSettled` |
| Pairing pages | types, `SeenInOrder`, `DoneMeansRelayed`, `DeclineHolds` | `AuthoritySettles`, `SupplicantSettles` |
| Token server | everything | |
| Hawk authentication | everything | |
| Accounts | everything | |
| Sessions, codes, refresh tokens | everything | |

Liveness (`EveryRequestAnswered`, `FrameSettled`, `AuthoritySettles`, `SupplicantSettles`)
stays with TLC: the prover has neither fairness nor `ENABLED`.  The violated runs are
counterexamples and need no proof.  What is not modelled, and why, is in section 1 and,
component by component, in `PROJECT.json`.

## 11. Running

    tlc -config StorageSerial.cfg MCStorageManager.tla
    tlc -config ChannelRelay.cfg MCChannelService.tla
    tlc -config Pairing.cfg PairingChannel.tla
    tlc -config TokenGenerations.cfg MCTokenServer.tla
    tlc -config HawkAuthentication.cfg MCHawkAuthentication.tla
    tlc -config AuthAccounts.cfg MCAuthAccounts.tla
    tlc -config AuthTokens.cfg MCAuthTokens.tla
    tlapm StorageManagerProofs.tla
    tlapm StorageSerialProofs.tla
    tlapm ChannelServiceProofs.tla
    tlapm PairingChannelProofs.tla
    tlapm TokenServerProofs.tla
    tlapm HawkAuthenticationProofs.tla
    tlapm AuthAccountsProofs.tla
    tlapm AuthTokensProofs.tla

A definition whose comment begins with "A slip" or "Slips" is a plausible mistake in
the definition after it.  `PROJECT.json` pairs each with a property that catches it.
