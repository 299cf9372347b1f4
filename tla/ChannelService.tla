--------------------------- MODULE ChannelService ---------------------------
(***************************************************************************)
(* The message relay two devices pair through:                             *)
(* src/lambda/src/services/channel_service.py, behind an API Gateway       *)
(* WebSocket API.                                                          *)
(*                                                                         *)
(* The gateway starts one Lambda invocation per event: a connection asks   *)
(* to open, a frame arrives, a connection is gone; and the service starts  *)
(* one itself to post the channel id.  Invocations run concurrently, and   *)
(* every action of one below is one call, to the table (each atomic on one *)
(* item) or to the gateway.                                                *)
(*                                                                         *)
(* A frame is the number it has among those of its sender.                 *)
(***************************************************************************)
EXTENDS Integers, Sequences, SequencesExt

CONSTANTS
  Connections,     \* connection ids the gateway gives out
  Channels,        \* channel ids uuid4 gives out
  Workers,         \* invocations that may run at the same time
  MaxConnections,  \* MAX_CONNECTIONS_PER_CHANNEL
  MaxMessages,     \* MAX_MESSAGES_PER_CHANNEL
  PostRetries,     \* CHANNEL_POST_RETRIES
  MaxFrames,       \* bound of an instance: how many frames each connection sends
  MaxFailures,     \* bound of an instance: failures and expiries
  None

\* The item CHANNEL#id; the item CONN#id is just the id of its channel.
Channel == [connections : Seq(Connections), messageCount : Nat]

ASSUME ChannelAssumption ==
  /\ MaxConnections \in Nat \ {0}
  /\ MaxMessages \in Nat /\ PostRetries \in Nat \ {0}
  /\ MaxFrames \in [Connections -> Nat] /\ MaxFailures \in Nat
  /\ None \notin Channel /\ None \notin Channels /\ None \notin Connections

VARIABLES
  channel,   \* channel[ch]: the item CHANNEL#ch, or None
  lookup,    \* lookup[c]: the channel in the item CONN#c, or None
  minted,    \* channel ids given out so far
  socket,    \* what the gateway and the client know of each connection
  chanid,    \* chanid[c]: the channel id its client has been told, or None
  sent,      \* sent[c]: frames its client has sent
  acked,     \* acked[c]: the last of them that was acknowledged
  refused,   \* connections that had a frame refused with 404 or 429
  got,       \* got[c][s]: the frames of s that c received, in order
  events,    \* invocations still to be started
  handler,   \* handler[w]: what invocation w is doing
  failures   \* failures and expiries so far

vars == <<channel, lookup, minted, socket, chanid, sent, acked, refused, got,
          events, handler, failures>>
table == <<channel, lookup, minted>>
client == <<socket, chanid, sent, acked, refused, got>>

Sockets == {"new", "connecting", "accepted", "open", "closed"}
Kinds == {"connect", "post", "message", "disconnect"}

Event == [kind : Kinds, conn : Connections, channelId : Channels \cup {None},
          frame : Nat]

Labels == {"idle", "create", "append", "putLookup", "schedule", "refuse",
           "post", "find", "count", "relay", "ack",
           "getLookup", "dropLookup", "getChannel", "dropIndex"}

\* queue: the rest of the list a frame is being relayed along; leaving and
\* index: the connection cleaned up, and its place in the list that was read.
Handler == [kind : Kinds \cup {"none"}, conn : Connections \cup {None},
            channelId : Channels \cup {None}, frame : Nat, pc : Labels,
            queue : Seq(Connections), leaving : Connections \cup {None},
            index : Nat, attempt : Nat]

Idle == [kind |-> "none", conn |-> None, channelId |-> None, frame |-> 0,
         pc |-> "idle", queue |-> <<>>, leaving |-> None, index |-> 0,
         attempt |-> 0]

Goto(w, h) == handler' = [handler EXCEPT ![w] = h]
Done(w) == Goto(w, Idle)

(***************************************************************************)
(* Clients and the gateway.                                                *)
(***************************************************************************)
NewEvent(kind, c, ch, n) ==
  events' = events \cup {[kind |-> kind, conn |-> c, channelId |-> ch, frame |-> n]}

\* Without a channel id to create one, with one that some client was told
\* (and shows as a QR code) to join it.
Open(c) ==
  /\ socket[c] = "new"
  /\ \E ch \in {chanid[s] : s \in Connections} \cup {None} :
       NewEvent("connect", c, ch, 0)
  /\ socket' = [socket EXCEPT ![c] = "connecting"]
  /\ UNCHANGED <<table, chanid, sent, acked, refused, got, handler, failures>>

\* The gateway registers a connection only after $connect has returned.
Register(c) ==
  /\ socket[c] = "accepted"
  /\ socket' = [socket EXCEPT ![c] = "open"]
  /\ UNCHANGED <<table, chanid, sent, acked, refused, got, events, handler, failures>>

\* A slip: the client does not wait for the ack.
SendAtOnce(c) ==
  /\ socket[c] = "open" /\ chanid[c] # None
  /\ sent[c] < MaxFrames[c]
  /\ sent' = [sent EXCEPT ![c] = @ + 1]
  /\ NewEvent("message", c, None, sent[c] + 1)
  /\ UNCHANGED <<table, socket, chanid, acked, refused, got, handler, failures>>

\* The client sends a frame only after the last one was acknowledged.
Send(c) ==
  /\ socket[c] = "open" /\ chanid[c] # None
  /\ sent[c] = acked[c] /\ sent[c] < MaxFrames[c]
  /\ sent' = [sent EXCEPT ![c] = @ + 1]
  /\ NewEvent("message", c, None, sent[c] + 1)
  /\ UNCHANGED <<table, socket, chanid, acked, refused, got, handler, failures>>

Close(c) ==
  /\ socket[c] = "open"
  /\ socket' = [socket EXCEPT ![c] = "closed"]
  /\ NewEvent("disconnect", c, None, 0)
  /\ UNCHANGED <<table, chanid, sent, acked, refused, got, handler, failures>>

(***************************************************************************)
(* handle: an invocation starts.                                           *)
(***************************************************************************)
FirstCall(e) ==
  CASE e.kind = "connect" /\ e.channelId = None -> "create"
    [] e.kind = "connect" /\ e.channelId # None -> "append"
    [] e.kind = "post" -> "post"
    [] e.kind = "message" -> "find"
    [] e.kind = "disconnect" -> "getLookup"

Start(w, e) ==
  /\ handler[w].pc = "idle"
  /\ e \in events
  /\ events' = events \ {e}
  /\ Goto(w, [Idle EXCEPT !.kind = e.kind, !.conn = e.conn, !.frame = e.frame,
                          !.channelId = e.channelId, !.pc = FirstCall(e),
                          !.leaving = IF e.kind = "disconnect" THEN e.conn ELSE None])
  /\ UNCHANGED <<table, client, failures>>

(***************************************************************************)
(* $connect.                                                               *)
(***************************************************************************)
CreateChannel(w) ==
  LET h == handler[w] IN
  /\ h.pc = "create"
  /\ \E ch \in Channels \ minted :
       /\ minted' = minted \cup {ch}
       /\ channel' = [channel EXCEPT ![ch] =
                        [connections |-> <<h.conn>>, messageCount |-> 0]]
       /\ Goto(w, [h EXCEPT !.channelId = ch, !.pc = "putLookup"])
  /\ UNCHANGED <<lookup, client, events, failures>>

\* A slip: one connection too many.
HasRoomForOneMore(ch) ==
  channel[ch] # None /\ Len(channel[ch].connections) <= MaxConnections

HasRoom(ch) ==
  channel[ch] # None /\ Len(channel[ch].connections) < MaxConnections

\* One conditional update; when it fails a get_item tells 404 from 403.
JoinChannel(w) ==
  LET h == handler[w] IN
  /\ h.pc = "append"
  /\ \/ /\ HasRoom(h.channelId)
        /\ channel' = [channel EXCEPT ![h.channelId].connections = Append(@, h.conn)]
        /\ Goto(w, [h EXCEPT !.pc = "putLookup"])
     \/ /\ ~HasRoom(h.channelId)
        /\ Goto(w, [h EXCEPT !.pc = "refuse"])
        /\ UNCHANGED channel
  /\ UNCHANGED <<lookup, minted, client, events, failures>>

PutLookup(w) ==
  LET h == handler[w] IN
  /\ h.pc = "putLookup"
  /\ lookup' = [lookup EXCEPT ![h.conn] = h.channelId]
  /\ Goto(w, [h EXCEPT !.pc = "schedule"])
  /\ UNCHANGED <<channel, minted, client, events, failures>>

\* The service invokes itself to post the channel id, then accepts.
SchedulePost(w) ==
  LET h == handler[w] IN
  /\ h.pc = "schedule"
  /\ NewEvent("post", h.conn, h.channelId, 0)
  /\ socket' = [socket EXCEPT ![h.conn] = "accepted"]
  /\ Done(w)
  /\ UNCHANGED <<table, chanid, sent, acked, refused, got, failures>>

\* 404 or 403 for a connection, 404 or 429 for a frame.
Refuse(w) ==
  LET h == handler[w] IN
  /\ h.pc = "refuse"
  /\ \/ /\ h.kind = "connect"
        /\ socket' = [socket EXCEPT ![h.conn] = "closed"]
        /\ UNCHANGED refused
     \/ /\ h.kind = "message"
        /\ refused' = refused \cup {h.conn}
        /\ UNCHANGED socket
  /\ Done(w)
  /\ UNCHANGED <<table, chanid, sent, acked, got, events, failures>>

(***************************************************************************)
(* The deferred post of the channel id: a connection that is not (or no    *)
(* longer) registered is Gone, and is tried again.                         *)
(***************************************************************************)
PostChannelId(w) ==
  LET h == handler[w] IN
  /\ h.pc = "post"
  /\ \/ /\ socket[h.conn] = "open"
        /\ chanid' = [chanid EXCEPT ![h.conn] = h.channelId]
        /\ Done(w)
     \/ /\ socket[h.conn] # "open" /\ h.attempt + 1 < PostRetries
        /\ Goto(w, [h EXCEPT !.attempt = @ + 1])
        /\ UNCHANGED chanid
     \/ /\ socket[h.conn] # "open" /\ h.attempt + 1 >= PostRetries
        /\ Done(w)
        /\ UNCHANGED chanid
  /\ UNCHANGED <<table, socket, sent, acked, refused, got, events, failures>>

(***************************************************************************)
(* A frame.                                                                *)
(***************************************************************************)
FindChannel(w) ==
  LET h == handler[w] IN
  /\ h.pc = "find"
  /\ IF lookup[h.conn] = None
       THEN Done(w) /\ refused' = refused \cup {h.conn}
       ELSE /\ Goto(w, [h EXCEPT !.channelId = lookup[h.conn], !.pc = "count"])
            /\ UNCHANGED refused
  /\ UNCHANGED <<table, socket, chanid, sent, acked, got, events, failures>>

\* The list is followed to its end, and then the sender gets its ack.
Relay(h) == [h EXCEPT !.pc = IF h.queue = <<>> THEN "ack" ELSE "relay"]

\* A slip: no limit.
HasQuotaAlways(ch) == channel[ch] # None

HasQuota(ch) == channel[ch] # None /\ channel[ch].messageCount < MaxMessages

\* One conditional update counts the frame and returns the list of members.
CountMessage(w) ==
  LET h == handler[w] IN
  /\ h.pc = "count"
  /\ \/ /\ HasQuota(h.channelId)
        /\ channel' = [channel EXCEPT ![h.channelId].messageCount = @ + 1]
        /\ Goto(w, Relay([h EXCEPT !.queue = channel[h.channelId].connections]))
     \/ /\ ~HasQuota(h.channelId)
        /\ Goto(w, [h EXCEPT !.pc = "refuse"])
        /\ UNCHANGED channel
  /\ UNCHANGED <<lookup, minted, client, events, failures>>

\* The relay skips the sender ...
SkipSender(w) ==
  LET h == handler[w] IN
  /\ h.pc = "relay" /\ Head(h.queue) = h.conn
  /\ Goto(w, Relay([h EXCEPT !.queue = Tail(@)]))
  /\ UNCHANGED <<table, client, events, failures>>

\* ... reaches a recipient ...
Deliver(w) ==
  LET h == handler[w]
      p == Head(h.queue)
  IN
  /\ h.pc = "relay" /\ p # h.conn /\ socket[p] = "open"
  /\ got' = [got EXCEPT ![p][h.conn] = Append(@, h.frame)]
  /\ Goto(w, Relay([h EXCEPT !.queue = Tail(@)]))
  /\ UNCHANGED <<table, socket, chanid, sent, acked, refused, events, failures>>

\* A slip: a recipient that is gone is tried again after its clean-up.
GoneKept(w) ==
  LET h == handler[w]
      p == Head(h.queue)
  IN
  /\ h.pc = "relay" /\ p # h.conn /\ socket[p] # "open"
  /\ Goto(w, [h EXCEPT !.leaving = p, !.pc = "getLookup"])
  /\ UNCHANGED <<table, client, events, failures>>

\* ... or finds it gone, and _handle_disconnect cleans up after it.
Gone(w) ==
  LET h == handler[w]
      p == Head(h.queue)
  IN
  /\ h.pc = "relay" /\ p # h.conn /\ socket[p] # "open"
  /\ Goto(w, [h EXCEPT !.queue = Tail(@), !.leaving = p, !.pc = "getLookup"])
  /\ UNCHANGED <<table, client, events, failures>>

\* A slip: the ack goes out while the frame is being relayed.
AckEarly(w) ==
  LET h == handler[w] IN
  /\ h.pc \in {"relay", "ack"} /\ socket[h.conn] = "open"
  /\ acked' = [acked EXCEPT ![h.conn] = h.frame]
  /\ IF h.pc = "ack" THEN Done(w) ELSE UNCHANGED handler
  /\ UNCHANGED <<table, socket, chanid, sent, refused, got, events, failures>>

\* The ack, unless the sender is gone itself.
Ack(w) ==
  LET h == handler[w] IN
  /\ h.pc = "ack"
  /\ \/ /\ socket[h.conn] = "open"
        /\ acked' = [acked EXCEPT ![h.conn] = h.frame]
        /\ Done(w)
     \/ /\ socket[h.conn] # "open"
        /\ Goto(w, [h EXCEPT !.leaving = h.conn, !.pc = "getLookup"])
        /\ UNCHANGED acked
  /\ UNCHANGED <<table, socket, chanid, sent, refused, got, events, failures>>

(***************************************************************************)
(* _handle_disconnect, for $disconnect, or for a recipient or a sender     *)
(* that turned out to be gone.                                             *)
(***************************************************************************)
\* Cleaned up after a recipient, the relay goes on; else nothing is left to do.
CleanedUp(w) ==
  LET h == handler[w] IN
  IF h.leaving = h.conn THEN Done(w)
  ELSE Goto(w, Relay([h EXCEPT !.leaving = None]))

GetLookup(w) ==
  LET h == handler[w] IN
  /\ h.pc = "getLookup"
  /\ IF lookup[h.leaving] = None
       THEN CleanedUp(w)
       ELSE Goto(w, [h EXCEPT !.channelId = lookup[h.leaving], !.pc = "dropLookup"])
  /\ UNCHANGED <<table, client, events, failures>>

DropLookup(w) ==
  LET h == handler[w] IN
  /\ h.pc = "dropLookup"
  /\ lookup' = [lookup EXCEPT ![h.leaving] = None]
  /\ Goto(w, [h EXCEPT !.pc = "getChannel"])
  /\ UNCHANGED <<channel, minted, client, events, failures>>

\* The places of c in the list that was read; connections.index takes the first.
Places(ch, c) ==
  IF channel[ch] = None THEN {}
  ELSE {i \in DOMAIN channel[ch].connections : channel[ch].connections[i] = c}

GetChannel(w) ==
  LET h == handler[w]
      places == Places(h.channelId, h.leaving)
  IN
  /\ h.pc = "getChannel"
  /\ \/ places = {} /\ CleanedUp(w)
     \/ \E i \in places :
          /\ \A j \in places : i <= j
          /\ Goto(w, [h EXCEPT !.index = i, !.pc = "dropIndex"])
  /\ UNCHANGED <<table, client, events, failures>>

\* REMOVE connections[index]: whatever is there now, or nothing past its end.
\* Without the item there is no such path, which raises.
DropIndex(w) ==
  LET h == handler[w]
      ch == h.channelId
  IN
  /\ h.pc = "dropIndex"
  /\ \/ /\ channel[ch] = None
        /\ UNCHANGED channel
        /\ Done(w)
     \/ /\ channel[ch] # None /\ h.index > Len(channel[ch].connections)
        /\ UNCHANGED channel
        /\ CleanedUp(w)
     \/ /\ channel[ch] # None /\ h.index <= Len(channel[ch].connections)
        /\ channel' = [channel EXCEPT ![ch].connections = RemoveAt(@, h.index)]
        /\ CleanedUp(w)
  /\ UNCHANGED <<lookup, minted, client, events, failures>>

(***************************************************************************)
(* Failures: an invocation dies, or a call raises an error it does not     *)
(* expect; the items of the table expire, CHANNEL and CONN independently.  *)
(***************************************************************************)
Failing ==
  /\ failures < MaxFailures
  /\ failures' = failures + 1

\* A $connect that dies is refused by the gateway.
Crash(w) ==
  LET h == handler[w] IN
  /\ h.pc # "idle"
  /\ socket' = IF h.kind = "connect" THEN [socket EXCEPT ![h.conn] = "closed"]
               ELSE socket
  /\ Done(w)
  /\ Failing
  /\ UNCHANGED <<table, chanid, sent, acked, refused, got, events>>

ExpireChannel(ch) ==
  /\ channel[ch] # None
  /\ channel' = [channel EXCEPT ![ch] = None]
  /\ Failing
  /\ UNCHANGED <<lookup, minted, client, events, handler>>

ExpireLookup(c) ==
  /\ lookup[c] # None
  /\ lookup' = [lookup EXCEPT ![c] = None]
  /\ Failing
  /\ UNCHANGED <<channel, minted, client, events, handler>>

Init ==
  /\ channel = [ch \in Channels |-> None]
  /\ lookup = [c \in Connections |-> None]
  /\ minted = {}
  /\ socket = [c \in Connections |-> "new"]
  /\ chanid = [c \in Connections |-> None]
  /\ sent = [c \in Connections |-> 0]
  /\ acked = [c \in Connections |-> 0]
  /\ refused = {}
  /\ got = [c \in Connections |-> [s \in Connections |-> <<>>]]
  /\ events = {}
  /\ handler = [w \in Workers |-> Idle]
  /\ failures = 0

Handle(w) ==
  \/ CreateChannel(w) \/ JoinChannel(w) \/ PutLookup(w) \/ SchedulePost(w)
  \/ Refuse(w) \/ PostChannelId(w)
  \/ FindChannel(w) \/ CountMessage(w) \/ SkipSender(w) \/ Deliver(w)
  \/ Gone(w) \/ Ack(w)
  \/ GetLookup(w) \/ DropLookup(w) \/ GetChannel(w) \/ DropIndex(w)

Next ==
  \/ \E c \in Connections : Open(c) \/ Register(c) \/ Send(c) \/ Close(c)
  \/ \E w \in Workers :
       \/ \E e \in events : Start(w, e)
       \/ Handle(w) \/ Crash(w)
  \/ \E ch \in Channels : ExpireChannel(ch)
  \/ \E c \in Connections : ExpireLookup(c)

Spec == Init /\ [][Next]_vars

\* The gateway starts an invocation for every event, and one that is not cut
\* off runs on.
FairSpec ==
  /\ Spec
  /\ \A w \in Workers : WF_vars(Handle(w))
  /\ WF_vars(\E w \in Workers, e \in events : Start(w, e))
=============================================================================
