------------------------ MODULE ChannelServiceProofs ------------------------
(***************************************************************************)
(* Proofs about the pairing relay.                                         *)
(*                                                                         *)
(* TypeOK says how many connections and frames a channel may hold.  It is  *)
(* not inductive: that a handler at some label works for a connection and  *)
(* on a channel, and not on None, has to be carried along, from the event  *)
(* that started it.  That is HandlersSane.                                 *)
(***************************************************************************)
EXTENDS ChannelRequirements, SequenceTheorems, TLAPS

\* A post carries the channel id it posts.
EventsSane == \A e \in events : e.kind = "post" => e.channelId # None

OnChannel == {"append", "putLookup", "schedule", "post", "count",
              "dropLookup", "getChannel", "dropIndex"}
CleaningUp == {"getLookup", "dropLookup", "getChannel", "dropIndex"}

Sane(h) ==
  /\ h.pc # "idle" => h.conn # None
  /\ h.pc \in OnChannel => h.channelId # None
  /\ h.pc \in CleaningUp => h.leaving # None
  /\ h.pc = "relay" => h.queue # <<>>
  /\ h.pc = "dropIndex" => h.index # 0

HandlersSane == \A w \in Workers : Sane(handler[w])

IInv == TypeOK /\ EventsSane /\ HandlersSane

-----------------------------------------------------------------------------
\* Removing one element of a list gives a list, shorter by one.
LEMMA RemoveAtShortens ==
  ASSUME NEW S, NEW s \in Seq(S), NEW i \in 1 .. Len(s)
  PROVE  /\ RemoveAt(s, i) \in Seq(S)
         /\ Len(RemoveAt(s, i)) = Len(s) - 1
<1>1. Len(s) \in Nat /\ \A j \in 1 .. Len(s) : s[j] \in S
  BY LenProperties, ElementOfSeq
<1>2. /\ SubSeq(s, 1, i - 1) \in Seq(S)
      /\ Len(SubSeq(s, 1, i - 1)) = i - 1
  <2>1. \A j \in 1 .. i - 1 : s[j] \in S
    BY <1>1
  <2>2. 1 \in Int /\ i - 1 \in Int
    BY <1>1
  <2>3. Len(SubSeq(s, 1, i - 1)) = IF 1 <= i - 1 THEN i - 1 - 1 + 1 ELSE 0
    BY <2>1, <2>2, SubSeqProperties
  <2> QED BY <1>1, <2>1, <2>2, <2>3, SubSeqProperties
<1>3. /\ SubSeq(s, i + 1, Len(s)) \in Seq(S)
      /\ Len(SubSeq(s, i + 1, Len(s))) = Len(s) - i
  <2>1. \A j \in i + 1 .. Len(s) : s[j] \in S
    BY <1>1
  <2>2. i + 1 \in Int /\ Len(s) \in Int
    BY <1>1
  <2>3. Len(SubSeq(s, i + 1, Len(s))) = IF i + 1 <= Len(s) THEN Len(s) - (i + 1) + 1 ELSE 0
    BY <2>1, <2>2, SubSeqProperties
  <2> QED BY <1>1, <2>1, <2>2, <2>3, SubSeqProperties
<1>4. ASSUME NEW u \in Seq(S), NEW v \in Seq(S)
      PROVE  u \o v \in Seq(S) /\ Len(u \o v) = Len(u) + Len(v)
  BY ConcatProperties
<1>5. /\ RemoveAt(s, i) \in Seq(S)
      /\ Len(RemoveAt(s, i)) = Len(SubSeq(s, 1, i - 1)) + Len(SubSeq(s, i + 1, Len(s)))
  BY <1>2, <1>3, <1>4, Zenon DEF RemoveAt
<1>6. ASSUME NEW m \in Nat, NEW p, NEW q, p = i - 1, q = m - i
      PROVE  p + q = m - 1
  <2>1. i \in Int BY <1>1
  <2> QED BY <2>1, <1>6
<1> QED BY <1>1, <1>2, <1>3, <1>5, <1>6, Zenon

-----------------------------------------------------------------------------
\* An invocation that is done is a sane handler.
LEMMA IdleSane == Idle \in Handler /\ Sane(Idle)
BY DEF Idle, Handler, Sane, OnChannel, CleaningUp, Kinds, Labels

\* A handler that goes to a sane state leaves them all sane.
LEMMA GotoSane ==
  ASSUME handler \in [Workers -> Handler], HandlersSane,
         NEW w \in Workers, NEW h \in Handler, Sane(h), Goto(w, h)
  PROVE  handler' \in [Workers -> Handler] /\ HandlersSane'
<1>1. handler' = [handler EXCEPT ![w] = h]
  BY DEF Goto
<1>2. ASSUME NEW v \in Workers PROVE Sane(handler'[v])
  BY <1>1 DEF HandlersSane
<1> QED BY <1>1, <1>2 DEF HandlersSane

\* So does one that is done.
LEMMA DoneSane ==
  ASSUME handler \in [Workers -> Handler], HandlersSane,
         NEW w \in Workers, Done(w)
  PROVE  handler' \in [Workers -> Handler] /\ HandlersSane'
BY IdleSane, GotoSane DEF Done

\* A relay that goes on is sane, at its next recipient or at the ack.
LEMMA RelaySane ==
  ASSUME NEW h \in Handler, h.conn # None
  PROVE  Relay(h) \in Handler /\ Sane(Relay(h))
BY DEF Relay, Handler, Sane, OnChannel, CleaningUp, Labels

\* A new event is typed and sane.
LEMMA NewEventSane ==
  ASSUME events \subseteq Event, EventsSane, NEW kind \in Kinds,
         NEW c \in Connections, NEW ch \in Channels \cup {None}, NEW n \in Nat,
         kind = "post" => ch # None, NewEvent(kind, c, ch, n)
  PROVE  events' \subseteq Event /\ EventsSane'
<1> DEFINE e == [kind |-> kind, conn |-> c, channelId |-> ch, frame |-> n]
<1>1. e \in Event /\ (e.kind = "post" => e.channelId # None)
  BY DEF Event
<1>2. events' = events \cup {e}
  BY DEF NewEvent
<1> HIDE DEF e
<1> QED BY <1>1, <1>2 DEF EventsSane

-----------------------------------------------------------------------------
\* Clients and the gateway.
LEMMA ClientStep ==
  ASSUME IInv, NEW c \in Connections,
         Open(c) \/ Register(c) \/ Send(c) \/ Close(c)
  PROVE  IInv'
<1> USE ChannelAssumption DEF IInv, TypeOK, HandlersSane, table, client
<1>1. CASE Open(c)
  <2>1. PICK ch \in {chanid[s] : s \in Connections} \cup {None} :
          NewEvent("connect", c, ch, 0)
    BY <1>1 DEF Open
  <2>2. ch \in Channels \cup {None}
    BY <2>1
  <2>3. events' \subseteq Event /\ EventsSane'
    BY <2>1, <2>2, NewEventSane DEF Kinds
  <2> QED BY <1>1, <2>3 DEF Open, Sockets
<1>2. CASE Register(c)
  BY <1>2 DEF Register, Sockets, EventsSane
<1>3. CASE Send(c)
  <2>1. NewEvent("message", c, None, sent[c] + 1)
    BY <1>3 DEF Send
  <2>2. events' \subseteq Event /\ EventsSane'
    BY <2>1, NewEventSane DEF Kinds
  <2> QED BY <1>3, <2>2 DEF Send
<1>4. CASE Close(c)
  <2>1. NewEvent("disconnect", c, None, 0)
    BY <1>4 DEF Close
  <2>2. events' \subseteq Event /\ EventsSane'
    BY <2>1, NewEventSane DEF Kinds
  <2> QED BY <1>4, <2>2 DEF Close, Sockets
<1> QED BY <1>1, <1>2, <1>3, <1>4

\* An event starts a handler that is sane from its first call on.
LEMMA StartStep ==
  ASSUME IInv, NEW w \in Workers, NEW e \in events, Start(w, e)
  PROVE  IInv'
<1> USE ChannelAssumption DEF IInv, TypeOK, table, client
<1> DEFINE l == FirstCall(e)
           g == IF e.kind = "disconnect" THEN e.conn ELSE None
           h == [Idle EXCEPT !.kind = e.kind, !.conn = e.conn, !.frame = e.frame,
                             !.channelId = e.channelId, !.pc = l, !.leaving = g]
<1>1. e \in Event /\ (e.kind = "post" => e.channelId # None)
  BY DEF EventsSane
<1>2. /\ FirstCall(e) \in {"create", "append", "post", "find", "getLookup"}
      /\ FirstCall(e) = "append" => e.channelId # None
      /\ FirstCall(e) = "post" => e.channelId # None
      /\ FirstCall(e) = "getLookup" => e.kind = "disconnect"
  <2>1. e.kind \in Kinds
    BY <1>1 DEF Event
  <2>2. CASE e.kind = "connect" /\ e.channelId = None
    BY <2>2 DEF FirstCall
  <2>3. CASE e.kind = "connect" /\ e.channelId # None
    BY <2>3 DEF FirstCall
  <2>4. CASE e.kind = "post"
    BY <2>4, <1>1 DEF FirstCall
  <2>5. CASE e.kind = "message"
    BY <2>5 DEF FirstCall
  <2>6. CASE e.kind = "disconnect"
    BY <2>6 DEF FirstCall
  <2> QED BY <2>1, <2>2, <2>3, <2>4, <2>5, <2>6 DEF Kinds
<1>3. h \in Handler /\ Sane(h)
  <2>1. /\ l \in Labels /\ g \in Connections \cup {None}
        /\ l \in OnChannel => e.channelId # None
        /\ l \in CleaningUp => g # None
        /\ l # "relay" /\ l # "dropIndex"
    BY <1>1, <1>2 DEF Labels, OnChannel, CleaningUp, Event
  <2>2. /\ e.kind \in Kinds /\ e.conn \in Connections /\ e.conn # None
        /\ e.channelId \in Channels \cup {None} /\ e.frame \in Nat
    BY <1>1 DEF Event
  <2> HIDE DEF IInv, TypeOK, l, g
  <2>3. h \in Handler
    BY <2>1, <2>2, IdleSane DEF Handler
  <2>4. /\ h.pc = l /\ h.conn = e.conn
        /\ h.channelId = e.channelId /\ h.leaving = g
    BY IdleSane DEF Handler
  <2> HIDE DEF h
  <2> QED BY <2>1, <2>2, <2>3, <2>4 DEF Sane
<1>4. Goto(w, h) /\ events' = events \ {e} /\ UNCHANGED <<table, client, failures>>
  BY DEF Start
<1> HIDE DEF h
<1>5. handler' \in [Workers -> Handler] /\ HandlersSane'
  BY <1>3, <1>4, GotoSane
<1> QED BY <1>4, <1>5 DEF EventsSane

\* What the invariant says of one running handler.
LEMMA Running ==
  ASSUME IInv, NEW w \in Workers, handler[w].pc # "idle"
  PROVE  /\ handler[w] \in Handler /\ Sane(handler[w])
         /\ handler[w].conn \in Connections
         /\ handler[w].pc \in OnChannel => handler[w].channelId \in Channels
         /\ handler[w].pc \in CleaningUp => handler[w].leaving \in Connections
BY DEF IInv, TypeOK, HandlersSane, Sane, Handler

\* $connect creates a channel with one member, or joins one that has room.
LEMMA ConnectStep ==
  ASSUME IInv, NEW w \in Workers,
         CreateChannel(w) \/ JoinChannel(w) \/ PutLookup(w) \/ SchedulePost(w)
  PROVE  IInv'
<1> USE ChannelAssumption
<1> DEFINE h == handler[w]
<1>1. /\ h \in Handler /\ Sane(h) /\ h.conn \in Connections
      /\ h.pc \in OnChannel => h.channelId \in Channels
  BY Running DEF CreateChannel, JoinChannel, PutLookup, SchedulePost
<1>2. CASE CreateChannel(w)
  <2>1. PICK ch \in Channels \ minted :
          /\ minted' = minted \cup {ch}
          /\ channel' = [channel EXCEPT ![ch] =
                           [connections |-> <<h.conn>>, messageCount |-> 0]]
          /\ Goto(w, [h EXCEPT !.channelId = ch, !.pc = "putLookup"])
    BY <1>2 DEF CreateChannel
  <2> DEFINE item == [connections |-> <<h.conn>>, messageCount |-> 0]
             g == [h EXCEPT !.channelId = ch, !.pc = "putLookup"]
  <2>2. item \in Channel /\ Len(item.connections) <= MaxConnections
        /\ item.messageCount <= MaxMessages
    BY <1>1 DEF Channel
  <2>3. g \in Handler /\ Sane(g)
    BY <1>1, <2>1 DEF Handler, Sane, OnChannel, CleaningUp, Labels
  <2> HIDE DEF item, g
  <2>4. handler' \in [Workers -> Handler] /\ HandlersSane'
    BY <2>1, <2>3, GotoSane DEF IInv, TypeOK, g
  <2>5. channel' \in [Channels -> Channel \cup {None}]
        /\ \A x \in Channels : channel'[x] # None =>
             /\ Len(channel'[x].connections) <= MaxConnections
             /\ channel'[x].messageCount <= MaxMessages
    <3>1. channel' = [channel EXCEPT ![ch] = item]
      BY <2>1 DEF item
    <3> QED BY <3>1, <2>1, <2>2 DEF IInv, TypeOK
  <2> QED BY <1>2, <2>1, <2>4, <2>5 DEF CreateChannel, client, IInv, TypeOK, EventsSane
<1>3. CASE JoinChannel(w)
  <2>1. h.channelId \in Channels
    BY <1>1, <1>3 DEF JoinChannel, OnChannel
  <2>2. ASSUME NEW pc \in {"putLookup", "refuse"}
        PROVE  [h EXCEPT !.pc = pc] \in Handler /\ Sane([h EXCEPT !.pc = pc])
    BY <1>1, <2>1 DEF Handler, Sane, OnChannel, CleaningUp, Labels
  <2>3. \E pc \in {"putLookup", "refuse"} : Goto(w, [h EXCEPT !.pc = pc])
    BY <1>3 DEF JoinChannel
  <2>4. handler' \in [Workers -> Handler] /\ HandlersSane'
    BY <2>2, <2>3, GotoSane DEF IInv, TypeOK
  <2>5. channel' \in [Channels -> Channel \cup {None}]
        /\ \A x \in Channels : channel'[x] # None =>
             /\ Len(channel'[x].connections) <= MaxConnections
             /\ channel'[x].messageCount <= MaxMessages
    <3>1. CASE UNCHANGED channel
      BY <3>1 DEF IInv, TypeOK
    <3>2. CASE /\ HasRoom(h.channelId)
               /\ channel' = [channel EXCEPT ![h.channelId].connections = Append(@, h.conn)]
      <4> DEFINE old == channel[h.channelId]
                 item == [old EXCEPT !.connections = Append(@, h.conn)]
      <4>1. old \in Channel /\ Len(old.connections) < MaxConnections
            /\ old.messageCount <= MaxMessages
        BY <3>2, <2>1 DEF HasRoom, IInv, TypeOK
      <4>2. /\ Append(old.connections, h.conn) \in Seq(Connections)
            /\ Len(Append(old.connections, h.conn)) = Len(old.connections) + 1
            /\ Len(old.connections) \in Nat
        BY <4>1, <1>1, AppendProperties, LenProperties DEF Channel
      <4>3. /\ item \in Channel
            /\ item.connections = Append(old.connections, h.conn)
            /\ item.messageCount = old.messageCount
        <5>1. ASSUME NEW o \in Channel, NEW q \in Seq(Connections)
              PROVE  /\ [o EXCEPT !.connections = q] \in Channel
                     /\ [o EXCEPT !.connections = q].connections = q
                     /\ [o EXCEPT !.connections = q].messageCount = o.messageCount
          BY DEF Channel
        <5> QED BY <4>1, <4>2, <5>1, Zenon
      <4>5. Len(item.connections) <= MaxConnections /\ item.messageCount <= MaxMessages
        <5> HIDE DEF item, old
        <5> QED BY <4>1, <4>2, <4>3
      <4>4. channel' = [channel EXCEPT ![h.channelId] = item]
        BY <3>2, <2>1, <4>1 DEF IInv, TypeOK
      <4> HIDE DEF item
      <4> QED BY <4>3, <4>4, <4>5, <2>1 DEF IInv, TypeOK
    <3> QED BY <1>3, <3>1, <3>2 DEF JoinChannel
  <2> QED BY <1>3, <2>4, <2>5 DEF JoinChannel, client, IInv, TypeOK, EventsSane
<1>4. CASE PutLookup(w)
  <2>1. h.channelId \in Channels
    BY <1>1, <1>4 DEF PutLookup, OnChannel
  <2>2. [h EXCEPT !.pc = "schedule"] \in Handler /\ Sane([h EXCEPT !.pc = "schedule"])
    BY <1>1, <2>1 DEF Handler, Sane, OnChannel, CleaningUp, Labels
  <2>3. handler' \in [Workers -> Handler] /\ HandlersSane'
    BY <1>4, <2>2, GotoSane DEF PutLookup, IInv, TypeOK
  <2>4. lookup' \in [Connections -> Channels \cup {None}]
    BY <1>1, <1>4, <2>1 DEF PutLookup, IInv, TypeOK
  <2> QED BY <1>4, <2>3, <2>4 DEF PutLookup, client, IInv, TypeOK, EventsSane
<1>5. CASE SchedulePost(w)
  <2>1. h.channelId \in Channels
    BY <1>1, <1>5 DEF SchedulePost, OnChannel
  <2>2. events' \subseteq Event /\ EventsSane'
    BY <1>1, <1>5, <2>1, NewEventSane DEF SchedulePost, IInv, TypeOK, Kinds
  <2>3. handler' \in [Workers -> Handler] /\ HandlersSane'
    BY <1>5, DoneSane DEF SchedulePost, IInv, TypeOK
  <2>4. socket' \in [Connections -> Sockets]
    BY <1>1, <1>5 DEF SchedulePost, IInv, TypeOK, Sockets
  <2> QED BY <1>5, <2>2, <2>3, <2>4 DEF SchedulePost, table, IInv, TypeOK
<1> QED BY <1>2, <1>3, <1>4, <1>5

\* A refusal and the post of a channel id only touch what the client knows.
LEMMA AnswerStep ==
  ASSUME IInv, NEW w \in Workers, Refuse(w) \/ PostChannelId(w)
  PROVE  IInv'
<1> USE ChannelAssumption
<1> DEFINE h == handler[w]
<1>1. /\ h \in Handler /\ Sane(h) /\ h.conn \in Connections
      /\ h.pc \in OnChannel => h.channelId \in Channels
  BY Running DEF Refuse, PostChannelId
<1>2. CASE Refuse(w)
  <2>1. handler' \in [Workers -> Handler] /\ HandlersSane'
    BY <1>2, DoneSane DEF Refuse, IInv, TypeOK
  <2>2. socket' \in [Connections -> Sockets] /\ refused' \subseteq Connections
    BY <1>1, <1>2 DEF Refuse, IInv, TypeOK, Sockets
  <2> QED BY <1>2, <2>1, <2>2 DEF Refuse, table, IInv, TypeOK, EventsSane
<1>3. CASE PostChannelId(w)
  <2>1. h.channelId \in Channels
    BY <1>1, <1>3 DEF PostChannelId, OnChannel
  <2>2. [h EXCEPT !.attempt = @ + 1] \in Handler /\ Sane([h EXCEPT !.attempt = @ + 1])
    <3>1. h.attempt + 1 \in Nat
      BY <1>1 DEF Handler
    <3>2. ASSUME NEW n \in Nat
          PROVE  [h EXCEPT !.attempt = n] \in Handler /\ Sane([h EXCEPT !.attempt = n])
      BY <1>1, <1>3, <2>1 DEF PostChannelId, Handler, Sane, OnChannel, CleaningUp
    <3> QED BY <3>1, <3>2
  <2>3. handler' \in [Workers -> Handler] /\ HandlersSane'
    BY <1>3, <2>2, DoneSane, GotoSane DEF PostChannelId, IInv, TypeOK
  <2>4. chanid' \in [Connections -> Channels \cup {None}]
    BY <1>1, <1>3, <2>1 DEF PostChannelId, IInv, TypeOK
  <2> QED BY <1>3, <2>3, <2>4 DEF PostChannelId, table, IInv, TypeOK, EventsSane
<1> QED BY <1>2, <1>3

\* A frame finds its channel and is counted in it, as long as there is quota.
LEMMA FrameStep ==
  ASSUME IInv, NEW w \in Workers, FindChannel(w) \/ CountMessage(w)
  PROVE  IInv'
<1> USE ChannelAssumption
<1> DEFINE h == handler[w]
<1>1. /\ h \in Handler /\ Sane(h) /\ h.conn \in Connections
      /\ h.pc \in OnChannel => h.channelId \in Channels
  BY Running DEF FindChannel, CountMessage
<1>2. CASE FindChannel(w)
  <2>1. refused' \subseteq Connections
    BY <1>1, <1>2 DEF FindChannel, IInv, TypeOK
  <2>2. handler' \in [Workers -> Handler] /\ HandlersSane'
    <3>1. CASE Done(w)
      BY <3>1, DoneSane DEF IInv, TypeOK
    <3>2. CASE lookup[h.conn] # None
               /\ Goto(w, [h EXCEPT !.channelId = lookup[h.conn], !.pc = "count"])
      <4> DEFINE g == [h EXCEPT !.channelId = lookup[h.conn], !.pc = "count"]
      <4>1. lookup[h.conn] \in Channels
        BY <1>1, <3>2 DEF IInv, TypeOK
      <4>2. g \in Handler /\ Sane(g)
        BY <1>1, <4>1 DEF Handler, Sane, OnChannel, CleaningUp, Labels
      <4> HIDE DEF g
      <4> QED BY <3>2, <4>2, GotoSane DEF IInv, TypeOK, g
    <3> QED BY <1>2, <3>1, <3>2 DEF FindChannel
  <2> QED BY <1>2, <2>1, <2>2 DEF FindChannel, table, IInv, TypeOK, EventsSane
<1>3. CASE CountMessage(w)
  <2> DEFINE old == channel[h.channelId]
  <2>1. h.channelId \in Channels
    BY <1>1, <1>3 DEF CountMessage, OnChannel
  <2>2. CASE /\ ~HasQuota(h.channelId)
             /\ Goto(w, [h EXCEPT !.pc = "refuse"])
             /\ UNCHANGED channel
    <3>1. [h EXCEPT !.pc = "refuse"] \in Handler /\ Sane([h EXCEPT !.pc = "refuse"])
      BY <1>1 DEF Handler, Sane, OnChannel, CleaningUp, Labels
    <3>2. handler' \in [Workers -> Handler] /\ HandlersSane'
      BY <2>2, <3>1, GotoSane DEF IInv, TypeOK
    <3> QED BY <1>3, <2>2, <3>2 DEF CountMessage, client, IInv, TypeOK, EventsSane
  <2>3. CASE /\ HasQuota(h.channelId)
             /\ channel' = [channel EXCEPT ![h.channelId].messageCount = @ + 1]
             /\ Goto(w, Relay([h EXCEPT !.queue = old.connections]))
    <3>1. old \in Channel /\ Len(old.connections) <= MaxConnections
          /\ old.messageCount < MaxMessages
      BY <2>1, <2>3 DEF HasQuota, IInv, TypeOK
    <3>2. old.connections \in Seq(Connections) /\ old.messageCount + 1 \in Nat
      BY <3>1 DEF Channel
    <3>3. [h EXCEPT !.queue = old.connections] \in Handler
          /\ [h EXCEPT !.queue = old.connections].conn # None
      <4>1. ASSUME NEW q \in Seq(Connections)
            PROVE  [h EXCEPT !.queue = q] \in Handler /\ [h EXCEPT !.queue = q].conn # None
        BY <1>1 DEF Handler
      <4> QED BY <3>2, <4>1, Zenon
    <3>4. handler' \in [Workers -> Handler] /\ HandlersSane'
      BY <2>3, <3>3, RelaySane, GotoSane DEF IInv, TypeOK
    <3> DEFINE item == [old EXCEPT !.messageCount = @ + 1]
    <3>5. /\ item \in Channel
          /\ item.connections = old.connections
          /\ item.messageCount = old.messageCount + 1
      BY <3>1, <3>2 DEF Channel
    <3>6. Len(item.connections) <= MaxConnections /\ item.messageCount <= MaxMessages
      <4>1. old.messageCount \in Nat
        BY <3>1 DEF Channel
      <4> HIDE DEF item, old
      <4> QED BY <3>1, <3>5, <4>1
    <3>7. channel' = [channel EXCEPT ![h.channelId] = item]
      BY <2>1, <2>3, <3>1 DEF IInv, TypeOK
    <3>8. channel' \in [Channels -> Channel \cup {None}]
          /\ \A x \in Channels : channel'[x] # None =>
               /\ Len(channel'[x].connections) <= MaxConnections
               /\ channel'[x].messageCount <= MaxMessages
      <4> HIDE DEF item
      <4> QED BY <3>5, <3>6, <3>7, <2>1 DEF IInv, TypeOK
    <3> QED BY <1>3, <3>4, <3>8 DEF CountMessage, client, IInv, TypeOK, EventsSane
  <2> QED BY <1>3, <2>2, <2>3 DEF CountMessage
<1> QED BY <1>2, <1>3

\* The relay goes along the list, to the ack.
LEMMA RelayStep ==
  ASSUME IInv, NEW w \in Workers,
         SkipSender(w) \/ Deliver(w) \/ Gone(w) \/ Ack(w)
  PROVE  IInv'
<1> USE ChannelAssumption
<1> DEFINE h == handler[w]
<1>1. /\ h \in Handler /\ Sane(h) /\ h.conn \in Connections
  BY Running DEF SkipSender, Deliver, Gone, Ack
<1>2. ASSUME h.pc = "relay"
      PROVE  Head(h.queue) \in Connections /\ Tail(h.queue) \in Seq(Connections)
  <2>1. h.queue \in Seq(Connections) /\ h.queue # <<>>
    BY <1>1, <1>2 DEF Handler, Sane
  <2> HIDE DEF h
  <2> QED BY <2>1, HeadTailProperties, Zenon
<1>3. ASSUME NEW q \in Seq(Connections)
      PROVE  [h EXCEPT !.queue = q] \in Handler /\ [h EXCEPT !.queue = q].conn # None
  BY <1>1 DEF Handler
<1>4. ASSUME NEW p \in Connections, NEW q \in Seq(Connections)
      PROVE  /\ [h EXCEPT !.queue = q, !.leaving = p, !.pc = "getLookup"] \in Handler
             /\ Sane([h EXCEPT !.queue = q, !.leaving = p, !.pc = "getLookup"])
  BY <1>1 DEF Handler, Sane, OnChannel, CleaningUp, Labels
<1>5. CASE SkipSender(w)
  <2>1. handler' \in [Workers -> Handler] /\ HandlersSane'
    BY <1>2, <1>3, <1>5, RelaySane, GotoSane DEF SkipSender, IInv, TypeOK
  <2> QED BY <1>5, <2>1 DEF SkipSender, table, client, IInv, TypeOK, EventsSane
<1>6. CASE Deliver(w)
  <2>1. handler' \in [Workers -> Handler] /\ HandlersSane'
    BY <1>2, <1>3, <1>6, RelaySane, GotoSane DEF Deliver, IInv, TypeOK
  <2>2. got' \in [Connections -> [Connections -> Seq(Nat)]]
    <3> DEFINE p == Head(h.queue)
               seen == got[p][h.conn]
    <3>1. p \in Connections /\ h.frame \in Nat
      BY <1>1, <1>2, <1>6 DEF Deliver, Handler
    <3>2. seen \in Seq(Nat)
      BY <1>1, <3>1 DEF IInv, TypeOK
    <3>3. Append(seen, h.frame) \in Seq(Nat)
      BY <3>1, <3>2, AppendProperties
    <3>4. got' = [got EXCEPT ![p][h.conn] = Append(@, h.frame)]
      BY <1>6 DEF Deliver
    <3> HIDE DEF p
    <3> QED BY <1>1, <3>1, <3>3, <3>4 DEF IInv, TypeOK
  <2> QED BY <1>6, <2>1, <2>2 DEF Deliver, table, IInv, TypeOK, EventsSane
<1>7. CASE Gone(w)
  <2>1. handler' \in [Workers -> Handler] /\ HandlersSane'
    BY <1>2, <1>4, <1>7, GotoSane DEF Gone, IInv, TypeOK
  <2> QED BY <1>7, <2>1 DEF Gone, table, client, IInv, TypeOK, EventsSane
<1>8. CASE Ack(w)
  <2>1. /\ [h EXCEPT !.leaving = h.conn, !.pc = "getLookup"] \in Handler
        /\ Sane([h EXCEPT !.leaving = h.conn, !.pc = "getLookup"])
    BY <1>1 DEF Handler, Sane, OnChannel, CleaningUp, Labels
  <2>2. handler' \in [Workers -> Handler] /\ HandlersSane'
    BY <1>8, <2>1, DoneSane, GotoSane DEF Ack, IInv, TypeOK
  <2>3. acked' \in [Connections -> Nat]
    BY <1>1, <1>8 DEF Ack, IInv, TypeOK, Handler
  <2> QED BY <1>8, <2>2, <2>3 DEF Ack, table, IInv, TypeOK, EventsSane
<1> QED BY <1>5, <1>6, <1>7, <1>8

\* After a clean-up the handler is done, or its relay goes on.
LEMMA CleanedUpSane ==
  ASSUME IInv, NEW w \in Workers, handler[w].pc # "idle", CleanedUp(w)
  PROVE  handler' \in [Workers -> Handler] /\ HandlersSane'
<1> DEFINE h == handler[w]
<1>1. CASE Done(w)
  BY <1>1, DoneSane DEF IInv, TypeOK
<1>2. CASE Goto(w, Relay([h EXCEPT !.leaving = None]))
  <2>1. [h EXCEPT !.leaving = None] \in Handler /\ [h EXCEPT !.leaving = None].conn # None
    BY Running, ChannelAssumption DEF Handler
  <2> QED BY <1>2, <2>1, RelaySane, GotoSane DEF IInv, TypeOK
<1> QED BY <1>1, <1>2 DEF CleanedUp

\* A clean-up takes at most one connection off a list.
LEMMA CleanUpStep ==
  ASSUME IInv, NEW w \in Workers,
         GetLookup(w) \/ DropLookup(w) \/ GetChannel(w) \/ DropIndex(w)
  PROVE  IInv'
<1> USE ChannelAssumption
<1> DEFINE h == handler[w]
<1>1. /\ h \in Handler /\ Sane(h) /\ h.conn \in Connections
      /\ h.leaving \in Connections
      /\ h.pc \in OnChannel => h.channelId \in Channels
  BY Running DEF GetLookup, DropLookup, GetChannel, DropIndex, CleaningUp
<1>2. CASE GetLookup(w)
  <2>1. handler' \in [Workers -> Handler] /\ HandlersSane'
    <3>1. CASE CleanedUp(w)
      BY <1>2, <3>1, CleanedUpSane DEF GetLookup
    <3>2. CASE lookup[h.leaving] # None
               /\ Goto(w, [h EXCEPT !.channelId = lookup[h.leaving], !.pc = "dropLookup"])
      <4> DEFINE g == [h EXCEPT !.channelId = lookup[h.leaving], !.pc = "dropLookup"]
      <4>1. lookup[h.leaving] \in Channels
        BY <1>1, <3>2 DEF IInv, TypeOK
      <4>2. g \in Handler /\ Sane(g)
        BY <1>1, <4>1 DEF Handler, Sane, OnChannel, CleaningUp, Labels
      <4> HIDE DEF g
      <4> QED BY <3>2, <4>2, GotoSane DEF IInv, TypeOK, g
    <3> QED BY <1>2, <3>1, <3>2 DEF GetLookup
  <2> QED BY <1>2, <2>1 DEF GetLookup, table, client, IInv, TypeOK, EventsSane
<1>3. CASE DropLookup(w)
  <2>1. /\ [h EXCEPT !.pc = "getChannel"] \in Handler
        /\ Sane([h EXCEPT !.pc = "getChannel"])
    BY <1>1, <1>3 DEF DropLookup, Handler, Sane, OnChannel, CleaningUp, Labels
  <2>2. handler' \in [Workers -> Handler] /\ HandlersSane'
    BY <1>3, <2>1, GotoSane DEF DropLookup, IInv, TypeOK
  <2>3. lookup' \in [Connections -> Channels \cup {None}]
    BY <1>1, <1>3 DEF DropLookup, IInv, TypeOK
  <2> QED BY <1>3, <2>2, <2>3 DEF DropLookup, client, IInv, TypeOK, EventsSane
<1>4. CASE GetChannel(w)
  <2>1. h.channelId \in Channels
    BY <1>1, <1>4 DEF GetChannel, OnChannel
  <2>2. handler' \in [Workers -> Handler] /\ HandlersSane'
    <3>1. CASE CleanedUp(w)
      BY <1>4, <3>1, CleanedUpSane DEF GetChannel
    <3>2. CASE \E i \in Places(h.channelId, h.leaving) :
                 Goto(w, [h EXCEPT !.index = i, !.pc = "dropIndex"])
      <4>1. PICK i \in Places(h.channelId, h.leaving) :
              Goto(w, [h EXCEPT !.index = i, !.pc = "dropIndex"])
        BY <3>2
      <4>2. channel[h.channelId] \in Channel
            /\ i \in DOMAIN channel[h.channelId].connections
        BY <2>1, <4>1 DEF Places, IInv, TypeOK
      <4>3. i \in Nat /\ i # 0
        <5>1. channel[h.channelId].connections \in Seq(Connections)
          BY <4>2 DEF Channel
        <5> QED BY <4>2, <5>1, LenProperties
      <4>4. /\ [h EXCEPT !.index = i, !.pc = "dropIndex"] \in Handler
            /\ Sane([h EXCEPT !.index = i, !.pc = "dropIndex"])
        BY <1>1, <1>4, <4>3 DEF GetChannel, Handler, Sane, OnChannel, CleaningUp, Labels
      <4> QED BY <4>1, <4>4, GotoSane DEF IInv, TypeOK
    <3> QED BY <1>4, <3>1, <3>2 DEF GetChannel
  <2> QED BY <1>4, <2>2 DEF GetChannel, table, client, IInv, TypeOK, EventsSane
<1>5. CASE DropIndex(w)
  <2> DEFINE old == channel[h.channelId]
  <2>1. h.channelId \in Channels /\ h.index \in Nat \ {0}
    BY <1>1, <1>5 DEF DropIndex, OnChannel, Handler, Sane
  <2>2. handler' \in [Workers -> Handler] /\ HandlersSane'
    BY <1>5, DoneSane, CleanedUpSane DEF DropIndex, IInv, TypeOK
  <2>3. channel' \in [Channels -> Channel \cup {None}]
        /\ \A x \in Channels : channel'[x] # None =>
             /\ Len(channel'[x].connections) <= MaxConnections
             /\ channel'[x].messageCount <= MaxMessages
    <3>1. CASE UNCHANGED channel
      BY <3>1 DEF IInv, TypeOK
    <3>2. CASE /\ old # None /\ h.index <= Len(old.connections)
               /\ channel' = [channel EXCEPT ![h.channelId].connections =
                                RemoveAt(@, h.index)]
      <4> DEFINE item == [old EXCEPT !.connections = RemoveAt(@, h.index)]
      <4>1. old \in Channel /\ Len(old.connections) <= MaxConnections
            /\ old.messageCount <= MaxMessages
        BY <2>1, <3>2 DEF IInv, TypeOK
      <4>2. old.connections \in Seq(Connections) /\ Len(old.connections) \in Nat
        BY <4>1, LenProperties DEF Channel
      <4>3. h.index \in 1 .. Len(old.connections)
        BY <2>1, <3>2, <4>2
      <4>4. /\ RemoveAt(old.connections, h.index) \in Seq(Connections)
            /\ Len(RemoveAt(old.connections, h.index)) = Len(old.connections) - 1
        BY <4>2, <4>3, RemoveAtShortens
      <4>5. /\ item \in Channel
            /\ item.connections = RemoveAt(old.connections, h.index)
            /\ item.messageCount = old.messageCount
        <5>1. ASSUME NEW o \in Channel, NEW q \in Seq(Connections)
              PROVE  /\ [o EXCEPT !.connections = q] \in Channel
                     /\ [o EXCEPT !.connections = q].connections = q
                     /\ [o EXCEPT !.connections = q].messageCount = o.messageCount
          BY DEF Channel
        <5> QED BY <4>1, <4>4, <5>1, Zenon
      <4>6. Len(item.connections) <= MaxConnections /\ item.messageCount <= MaxMessages
        <5> HIDE DEF item, old
        <5> QED BY <4>1, <4>2, <4>4, <4>5
      <4>7. channel' = [channel EXCEPT ![h.channelId] = item]
        BY <2>1, <3>2, <4>1 DEF IInv, TypeOK
      <4> HIDE DEF item
      <4> QED BY <4>5, <4>6, <4>7, <2>1 DEF IInv, TypeOK
    <3> QED BY <1>5, <3>1, <3>2 DEF DropIndex
  <2> QED BY <1>5, <2>2, <2>3 DEF DropIndex, client, IInv, TypeOK, EventsSane
<1> QED BY <1>2, <1>3, <1>4, <1>5

\* A crash ends a handler, an expiry takes an item.
LEMMA FailureStep ==
  ASSUME IInv,
         \/ \E w \in Workers : Crash(w)
         \/ \E ch \in Channels : ExpireChannel(ch)
         \/ \E c \in Connections : ExpireLookup(c)
  PROVE  IInv'
<1> USE ChannelAssumption
<1>1. ASSUME NEW w \in Workers, Crash(w) PROVE IInv'
  <2>1. handler' \in [Workers -> Handler] /\ HandlersSane'
    BY <1>1, DoneSane DEF Crash, IInv, TypeOK
  <2>2. socket' \in [Connections -> Sockets]
    BY <1>1, Running DEF Crash, IInv, TypeOK, Sockets
  <2> QED BY <1>1, <2>1, <2>2 DEF Crash, Failing, table, IInv, TypeOK, EventsSane
<1>2. ASSUME NEW ch \in Channels, ExpireChannel(ch) PROVE IInv'
  BY <1>2 DEF ExpireChannel, Failing, client, IInv, TypeOK, EventsSane, HandlersSane
<1>3. ASSUME NEW c \in Connections, ExpireLookup(c) PROVE IInv'
  BY <1>3 DEF ExpireLookup, Failing, client, IInv, TypeOK, EventsSane, HandlersSane
<1> QED BY <1>1, <1>2, <1>3

-----------------------------------------------------------------------------
\* The inductive invariant.
LEMMA Inductive ==
  /\ Init => IInv
  /\ IInv /\ [Next]_vars => IInv'
<1> USE ChannelAssumption
<1>1. Init => IInv
  <2> SUFFICES ASSUME Init PROVE IInv
    OBVIOUS
  <2>1. HandlersSane /\ handler \in [Workers -> Handler]
    BY IdleSane DEF Init, HandlersSane
  <2> QED BY <2>1, EmptySeq DEF Init, IInv, TypeOK, EventsSane, Sockets
<1>2. ASSUME IInv, [Next]_vars PROVE IInv'
  <2>1. CASE UNCHANGED vars
    BY <1>2, <2>1 DEF vars, IInv, TypeOK, EventsSane, HandlersSane
  <2>2. CASE Next
    BY <1>2, <2>2, ClientStep, StartStep, ConnectStep, AnswerStep, FrameStep,
       RelayStep, CleanUpStep, FailureStep DEF Next, Handle
  <2> QED BY <1>2, <2>1, <2>2
<1> QED BY <1>1, <1>2

\* However many invocations run, crash and clean up at the same time, a channel
\* never has more than MAX_CONNECTIONS_PER_CHANNEL connections and never relays
\* more than MAX_MESSAGES_PER_CHANNEL frames.
THEOREM ChannelTyped == Spec => []TypeOK
<1>1. IInv => TypeOK
  BY DEF IInv
<1> QED BY <1>1, Inductive, PTL DEF Spec

-----------------------------------------------------------------------------
(***************************************************************************)
(* Order and acknowledgement of the pairing relay, for any number of       *)
(* connections, channels and concurrent invocations: a recipient gets the  *)
(* frames of a sender in order with no gap, and an acknowledged frame      *)
(* reached every recipient that is still there.                            *)
(*                                                                         *)
(* The relay has no sequence numbers: order comes from the client, which   *)
(* sends a frame only after the last one was acknowledged, and from the    *)
(* ack, which goes out only after the relay.  So a sender has at most one  *)
(* frame in flight, and a recipient that received from it before is either *)
(* still ahead of the relay (it has everything acknowledged) or behind it  *)
(* (it has everything sent).  That needs the frames of a sender to go to   *)
(* one list only, which a connection enters once and leaves for good.      *)
(***************************************************************************)

Joining == {"create", "append"}
Relaying == {"relay", "ack"} \cup CleaningUp

\* What an invocation is at each label.
Labelled(h) ==
  /\ h.kind = "none" => h.pc = "idle"
  /\ h.kind = "connect" => h.pc \in Joining \cup {"putLookup", "schedule", "refuse"}
  /\ h.kind = "post" => h.pc = "post"
  /\ h.kind = "message" => h.pc \in {"find", "count", "refuse"} \cup Relaying
  /\ h.kind = "disconnect" => h.pc \in CleaningUp /\ h.leaving = h.conn
  /\ h.pc = "ack" => h.queue = <<>>

Jobs == \A w \in Workers : Labelled(handler[w])

\* A connection opens once, and has one frame in flight: an event or a handler.
Serial == {"connect", "message"}

Alone ==
  /\ \A e, f \in events : e.kind \in Serial /\ e.kind = f.kind /\ e.conn = f.conn => e = f
  /\ \A v, w \in Workers :
       /\ handler[v].kind \in Serial /\ handler[v].kind = handler[w].kind
       /\ handler[v].conn = handler[w].conn
       => v = w
  /\ \A w \in Workers, e \in events :
       e.kind \in Serial /\ e.kind = handler[w].kind => e.conn # handler[w].conn

\* Not open yet.
Young(c) == socket[c] \in {"new", "connecting", "accepted"}

InFlight(x) ==
  /\ x.kind = "connect" => socket[x.conn] = "connecting"
  /\ x.kind = "message" => /\ x.frame = sent[x.conn] /\ sent[x.conn] = acked[x.conn] + 1
                           /\ ~Young(x.conn)

Flights == (\A e \in events : InFlight(e)) /\ \A w \in Workers : InFlight(handler[w])

\* Nobody receives from itself; who was never open received and sent nothing.
Quiet ==
  \A c, s \in Connections :
    /\ got[c][c] = <<>>
    /\ Young(c) => got[c][s] = <<>> /\ got[s][c] = <<>>

\* c may still enter a list.
Joinable(c) ==
  \/ socket[c] = "new"
  \/ \E e \in events : e.kind = "connect" /\ e.conn = c
  \/ \E w \in Workers : handler[w].pc \in Joining /\ handler[w].conn = c

\* A connection is on one list, in one place; and on none before it joins.
Once ==
  /\ \A ch \in Channels : channel[ch] # None => IsInjective(channel[ch].connections)
  /\ \A w \in Workers : IsInjective(handler[w].queue)
  /\ \A c \in Connections, x, y \in Channels : c \in Members(x) /\ c \in Members(y) => x = y
  /\ \A c \in Connections : Joinable(c) =>
       /\ \A ch \in Channels : c \notin Members(ch)
       /\ \A w \in Workers : c \notin ToSet(handler[w].queue)

\* c receives the frames of s, or is about to.
Linked(c, s) ==
  \/ got[c][s] # <<>>
  \/ \E w \in Workers : /\ handler[w].kind = "message" /\ handler[w].conn = s
                        /\ c \in ToSet(handler[w].queue)

\* The frames of s go to one list.
OneChannel ==
  /\ \A c, s \in Connections, ch \in Channels :
       Linked(c, s) /\ c \in Members(ch) => lookup[s] \in {None, ch}
  /\ \A w \in Workers : handler[w].pc = "count" =>
       /\ lookup[handler[w].conn] \in {None, handler[w].channelId}
       /\ \A c \in Connections, ch \in Channels :
            got[c][handler[w].conn] # <<>> /\ c \in Members(ch) => ch = handler[w].channelId

Reach(c) == socket[c] = "open" /\ \E ch \in Channels : c \in Members(ch)

Behind(c, s) == Last(got[c][s]) = acked[s]
Level(c, s) == Last(got[c][s]) = sent[s]

\* What a handler h of a frame of s means for c, which received from s before.
Follows(h, c, s) ==
  h.kind = "message" /\ h.conn = s /\ got[c][s] # <<>> =>
    /\ h.pc \in {"find", "count"} /\ Reach(c) => Behind(c, s)
    /\ h.pc \in Relaying /\ c \in ToSet(h.queue) /\ socket[c] = "open" => Behind(c, s)
    /\ h.pc \in Relaying /\ c \notin ToSet(h.queue) /\ Reach(c) => Level(c, s)

UpToDate ==
  \A c, s \in Connections :
    /\ got[c][s] # <<>> /\ Reach(c) => Behind(c, s) \/ Level(c, s)
    /\ \A e \in events :
         got[c][s] # <<>> /\ Reach(c) /\ e.kind = "message" /\ e.conn = s => Behind(c, s)
    /\ \A w \in Workers : Follows(handler[w], c, s)

Order ==
  /\ IInv
  /\ Jobs /\ Alone /\ Flights /\ Quiet
  /\ Once /\ OneChannel
  /\ UpToDate
  /\ \A s \in Connections : acked[s] <= sent[s]
  /\ FramesInOrder

-----------------------------------------------------------------------------
(***************************************************************************)
(* Lists.                                                                  *)
(***************************************************************************)
LEMMA EmptyList == ToSet(<<>>) = {} /\ IsInjective(<<>>)
BY DEF ToSet, IsInjective

LEMMA OneList == ASSUME NEW e PROVE ToSet(<<e>>) = {e} /\ IsInjective(<<e>>)
BY DEF ToSet, IsInjective

\* Without its first element, an injective list has just the others.
LEMMA TailList ==
  ASSUME NEW S, NEW s \in Seq(S), s # <<>>, IsInjective(s)
  PROVE  /\ Head(s) \in ToSet(s)
         /\ ToSet(Tail(s)) = ToSet(s) \ {Head(s)}
         /\ IsInjective(Tail(s))
<1>1. /\ Head(s) = s[1] /\ Tail(s) \in Seq(S) /\ Len(Tail(s)) = Len(s) - 1
      /\ \A i \in 1 .. Len(Tail(s)) : Tail(s)[i] = s[i + 1]
      /\ Len(s) \in Nat \ {0} /\ DOMAIN s = 1 .. Len(s)
      /\ DOMAIN Tail(s) = 1 .. Len(Tail(s))
  BY HeadTailProperties, LenProperties, EmptySeq
<1>2. Head(s) \in ToSet(s)
  BY <1>1 DEF ToSet
<1>3. IsInjective(Tail(s))
  BY <1>1 DEF IsInjective
<1>4. ASSUME NEW x \in ToSet(Tail(s)) PROVE x \in ToSet(s) \ {Head(s)}
  <2> PICK i \in 1 .. Len(Tail(s)) : x = Tail(s)[i]
    BY <1>1 DEF ToSet
  <2>1. i + 1 \in DOMAIN s /\ i + 1 # 1 /\ x = s[i + 1] /\ 1 \in DOMAIN s
    BY <1>1
  <2> QED BY <1>1, <2>1 DEF ToSet, IsInjective
<1>5. ASSUME NEW x \in ToSet(s) \ {Head(s)} PROVE x \in ToSet(Tail(s))
  <2> PICK i \in 1 .. Len(s) : x = s[i]
    BY <1>1 DEF ToSet
  <2>1. i - 1 \in 1 .. Len(Tail(s)) /\ (i - 1) + 1 = i
    BY <1>1
  <2>2. x = Tail(s)[i - 1]
    BY <1>1, <2>1
  <2> QED BY <1>1, <2>1, <2>2 DEF ToSet
<1> QED BY <1>2, <1>3, <1>4, <1>5

LEMMA AppendList ==
  ASSUME NEW S, NEW s \in Seq(S), NEW e \in S
  PROVE  /\ ToSet(Append(s, e)) = ToSet(s) \cup {e}
         /\ IsInjective(s) /\ e \notin ToSet(s) => IsInjective(Append(s, e))
         /\ Append(s, e) # <<>> /\ Last(Append(s, e)) = e
<1>1. /\ Append(s, e) \in Seq(S) /\ Len(Append(s, e)) = Len(s) + 1
      /\ \A i \in 1 .. Len(s) : Append(s, e)[i] = s[i]
      /\ Append(s, e)[Len(s) + 1] = e
      /\ Len(s) \in Nat /\ DOMAIN s = 1 .. Len(s)
      /\ DOMAIN Append(s, e) = 1 .. Len(s) + 1
  BY AppendProperties, LenProperties
<1>2. ToSet(Append(s, e)) = ToSet(s) \cup {e}
  BY <1>1 DEF ToSet
<1>3. ASSUME IsInjective(s), e \notin ToSet(s) PROVE IsInjective(Append(s, e))
  BY <1>1, <1>3 DEF IsInjective, ToSet
<1>4. Append(s, e) # <<>> /\ Last(Append(s, e)) = e
  BY <1>1 DEF Last
<1> QED BY <1>2, <1>3, <1>4

\* A list of consecutive numbers stays one with the next number.
LEMMA AppendNext ==
  ASSUME NEW old \in Seq(Nat), NEW n \in Nat,
         \A i \in 2 .. Len(old) : old[i] = old[i - 1] + 1,
         old # <<>> => n = Last(old) + 1
  PROVE  /\ Append(old, n) # <<>> /\ Last(Append(old, n)) = n
         /\ \A i \in 2 .. Len(Append(old, n)) : Append(old, n)[i] = Append(old, n)[i - 1] + 1
<1> PICK m \in Nat : m = Len(old)
  BY LenProperties
<1> DEFINE new == Append(old, n)
<1>1. /\ Len(new) = m + 1 /\ new[m + 1] = n
      /\ \A i \in 1 .. m : new[i] = old[i]
  BY AppendProperties
<1>2. new # <<>> /\ Last(new) = n
  BY AppendList
<1> HIDE DEF new
<1>3. ASSUME NEW i \in 2 .. m + 1 PROVE new[i] = new[i - 1] + 1
  <2>1. CASE i \in 2 .. m
    <3>1. i - 1 \in 1 .. m /\ i \in 1 .. m
      BY <2>1
    <3> QED BY <1>1, <2>1, <3>1
  <2>2. CASE i = m + 1
    <3>1. m >= 1 /\ m \in 1 .. m /\ i - 1 = m
      BY <2>2
    <3>2. old # <<>>
      BY <3>1, EmptySeq
    <3>3. n = old[m] + 1
      BY <3>2 DEF Last
    <3> QED BY <1>1, <2>2, <3>1, <3>3
  <2> QED BY <2>1, <2>2
<1> QED BY <1>1, <1>2, <1>3 DEF new

LEMMA RemoveAtList ==
  ASSUME NEW S, NEW s \in Seq(S), NEW n \in 1 .. Len(s), IsInjective(s)
  PROVE  ToSet(RemoveAt(s, n)) \subseteq ToSet(s) /\ IsInjective(RemoveAt(s, n))
<1> PICK m \in Nat : m = Len(s)
  BY LenProperties
<1> DEFINE u == SubSeq(s, 1, n - 1)
           v == SubSeq(s, n + 1, m)
           t == RemoveAt(s, n)
<1>1. DOMAIN s = 1 .. m /\ n \in 1 .. m /\ \A j \in 1 .. m : s[j] \in S
  BY LenProperties, ElementOfSeq
<1>2. /\ u \in Seq(S) /\ Len(u) = n - 1
      /\ \A i \in 1 .. n - 1 : u[i] = s[i]
  <2>1. 1 \in Int /\ n - 1 \in Int /\ \A j \in 1 .. n - 1 : s[j] \in S
    BY <1>1
  <2>2. /\ Len(u) = IF 1 <= n - 1 THEN n - 1 - 1 + 1 ELSE 0
        /\ u \in Seq(S)
        /\ \A i \in 1 .. n - 1 - 1 + 1 : u[i] = s[1 + i - 1]
    BY <2>1, SubSeqProperties
  <2> QED BY <1>1, <2>2
<1>3. /\ v \in Seq(S) /\ Len(v) = m - n
      /\ \A i \in 1 .. m - n : v[i] = s[n + i]
  <2>1. n + 1 \in Int /\ m \in Int /\ \A j \in n + 1 .. m : s[j] \in S
    BY <1>1
  <2>2. /\ Len(v) = IF n + 1 <= m THEN m - (n + 1) + 1 ELSE 0
        /\ v \in Seq(S)
        /\ \A i \in 1 .. m - (n + 1) + 1 : v[i] = s[(n + 1) + i - 1]
    BY <2>1, SubSeqProperties
  <2>3. Len(v) = m - n
    BY <1>1, <2>2
  <2>5. ASSUME NEW i \in 1 .. m - n PROVE v[i] = s[n + i]
    <3>1. i \in 1 .. m - (n + 1) + 1 /\ (n + 1) + i - 1 = n + i
      BY <1>1
    <3> QED BY <2>2, <3>1
  <2> QED BY <2>2, <2>3, <2>5
<1> HIDE DEF u, v
<1>4. /\ Len(u \o v) = Len(u) + Len(v) /\ u \o v \in Seq(S)
      /\ \A i \in 1 .. Len(u) + Len(v) : (u \o v)[i] = IF i <= Len(u) THEN u[i] ELSE v[i - Len(u)]
  BY <1>2, <1>3, ConcatProperties
<1>5. t = u \o v
  BY DEF RemoveAt, u, v
<1> HIDE DEF t
<1>6. DOMAIN t = 1 .. m - 1
  <2>1. t \in Seq(S) /\ Len(t) = m - 1
    <3>1. Len(t) = (n - 1) + (m - n)
      BY <1>2, <1>3, <1>4, <1>5
    <3> QED BY <1>1, <1>4, <1>5, <3>1
  <2> QED BY <2>1, LenProperties
<1>7. \A i \in 1 .. m - 1 : t[i] = IF i < n THEN s[i] ELSE s[i + 1]
  <2> SUFFICES ASSUME NEW i \in 1 .. m - 1
               PROVE  t[i] = IF i < n THEN s[i] ELSE s[i + 1]
    OBVIOUS
  <2>1. t[i] = IF i <= n - 1 THEN u[i] ELSE v[i - (n - 1)]
    BY <1>1, <1>2, <1>3, <1>4, <1>5
  <2>2. CASE i < n
    BY <1>1, <1>2, <2>1, <2>2
  <2>3. CASE ~(i < n)
    <3>1. i - (n - 1) \in 1 .. m - n /\ n + (i - (n - 1)) = i + 1
      BY <1>1, <2>3
    <3> QED BY <1>1, <1>3, <2>1, <2>3, <3>1
  <2> QED BY <2>2, <2>3
<1>8. ToSet(t) \subseteq ToSet(s)
  <2> SUFFICES ASSUME NEW i \in 1 .. m - 1 PROVE t[i] \in ToSet(s)
    BY <1>6 DEF ToSet
  <2>1. i \in DOMAIN s /\ i + 1 \in DOMAIN s
    BY <1>1
  <2> QED BY <1>7, <2>1 DEF ToSet
<1>9. IsInjective(t)
  <2> SUFFICES ASSUME NEW i \in 1 .. m - 1, NEW j \in 1 .. m - 1, t[i] = t[j]
               PROVE  i = j
    BY <1>6 DEF IsInjective
  <2> DEFINE f(k) == IF k < n THEN k ELSE k + 1
  <2>1. /\ f(i) \in DOMAIN s /\ f(j) \in DOMAIN s
        /\ t[i] = s[f(i)] /\ t[j] = s[f(j)]
    BY <1>1, <1>7
  <2>2. f(i) = f(j)
    BY <2>1 DEF IsInjective
  <2> QED BY <1>1, <2>2
<1> QED BY <1>8, <1>9 DEF t

-----------------------------------------------------------------------------
(***************************************************************************)
(* What a step of an invocation does to it.                                *)
(***************************************************************************)
SameJob(g, h) == g.kind = h.kind /\ g.conn = h.conn /\ g.frame = h.frame

\* Invocation w goes on as g, or is done.
Moves(w, g) ==
  /\ handler' = [handler EXCEPT ![w] = g]
  /\ handler[w].pc # "idle" /\ handler[w].kind # "none"
  /\ Labelled(g) /\ g.pc \notin Joining
  /\ g = Idle \/ SameJob(g, handler[w])

LEMMA IdleLabelled == Idle \in Handler /\ Labelled(Idle) /\ Idle.kind = "none"
                      /\ Idle.pc = "idle" /\ Idle.queue = <<>>
BY IdleSane DEF Idle, Labelled

LEMMA DoneMoves ==
  ASSUME IInv, NEW w \in Workers, Done(w), handler[w].pc # "idle", Jobs
  PROVE  Moves(w, Idle)
BY IdleLabelled DEF Done, Goto, Moves, Joining, Jobs, Labelled, IInv, TypeOK, Handler, Kinds

\* A handler h that is sent on as g, typed and labelled.
LEMMA GotoMoves ==
  ASSUME IInv, Jobs, NEW w \in Workers, handler[w].pc # "idle",
         NEW g \in Handler, Goto(w, g), SameJob(g, handler[w]),
         g.pc \notin Joining, Labelled(g)
  PROVE  Moves(w, g)
<1>1. handler[w].kind # "none"
  BY DEF Jobs, Labelled
<1> QED BY <1>1 DEF Goto, Moves

\* What a label says of the kind of a running invocation.
LEMMA Job ==
  ASSUME IInv, Jobs, NEW w \in Workers, handler[w].pc # "idle"
  PROVE  /\ handler[w] \in Handler /\ Labelled(handler[w]) /\ Sane(handler[w])
         /\ handler[w].kind \in Kinds /\ handler[w].conn \in Connections
         /\ handler[w].pc \in Joining \cup {"putLookup", "schedule"} => handler[w].kind = "connect"
         /\ handler[w].pc = "post" => handler[w].kind = "post"
         /\ handler[w].pc \in {"find", "count", "relay", "ack"} => handler[w].kind = "message"
         /\ handler[w].pc \in CleaningUp /\ handler[w].leaving # handler[w].conn
              => handler[w].kind = "message"
         /\ handler[w].pc \in CleaningUp => handler[w].kind \in {"message", "disconnect"}
         /\ handler[w].queue \in Seq(Connections) /\ handler[w].frame \in Nat
<1>1. /\ handler[w] \in Handler /\ Labelled(handler[w]) /\ Sane(handler[w])
      /\ handler[w].conn \in Connections
  BY Running DEF Jobs
<1>2. handler[w].kind \in Kinds \cup {"none"}
  BY <1>1 DEF Handler
<1>3. handler[w].queue \in Seq(Connections) /\ handler[w].frame \in Nat
  BY <1>1 DEF Handler
<1> QED BY <1>1, <1>2, <1>3 DEF Kinds, Labelled, Joining, CleaningUp, Relaying

\* A relay goes on at its next recipient, or at the ack.
LEMMA RelayMoves ==
  ASSUME NEW h \in Handler, h.kind = "message"
  PROVE  /\ SameJob(Relay(h), h) /\ Relay(h).queue = h.queue
         /\ Relay(h).pc \in {"relay", "ack"} /\ Relay(h).pc \notin Joining
         /\ Labelled(Relay(h)) /\ Relay(h) \in Handler
<1>1. /\ SameJob(Relay(h), h) /\ Relay(h).queue = h.queue /\ Relay(h) \in Handler
      /\ Relay(h).pc = IF h.queue = <<>> THEN "ack" ELSE "relay"
  BY DEF Relay, Handler, SameJob, Labels
<1> QED BY <1>1 DEF Labelled, Relaying, Joining, SameJob

LEMMA CleanedUpMoves ==
  ASSUME IInv, Jobs, NEW w \in Workers, handler[w].pc \in CleaningUp, CleanedUp(w)
  PROVE  \E g \in Handler :
            /\ Moves(w, g)
            /\ g # Idle => /\ g.kind = "message" /\ g.pc \in {"relay", "ack"}
                          /\ g.queue = handler[w].queue
<1> DEFINE h == handler[w]
<1>1. h.pc # "idle" /\ h \in Handler
  BY Job DEF CleaningUp
<1>2. CASE h.leaving = h.conn
  BY <1>1, <1>2, DoneMoves, IdleLabelled DEF CleanedUp
<1>3. CASE h.leaving # h.conn
  <2> DEFINE k == [h EXCEPT !.leaving = None]
  <2>1. h.kind = "message"
    BY <1>1, <1>3, Job
  <2>2. k \in Handler /\ SameJob(k, h) /\ k.queue = h.queue
    BY <1>1 DEF Handler, SameJob
  <2>3. Goto(w, Relay(k))
    BY <1>3 DEF CleanedUp
  <2> HIDE DEF k
  <2>4. /\ Relay(k) \in Handler /\ Labelled(Relay(k)) /\ SameJob(Relay(k), h)
        /\ Relay(k).pc \notin Joining /\ Relay(k).pc \in {"relay", "ack"}
        /\ Relay(k).queue = h.queue /\ Relay(k).kind = "message"
    BY <2>1, <2>2, RelayMoves DEF SameJob
  <2>5. Moves(w, Relay(k))
    BY <1>1, <2>3, <2>4, GotoMoves
  <2> QED BY <2>4, <2>5
<1> QED BY <1>2, <1>3

\* A message goes on from h as g: no recipient that is open is left out.
Eases(h, g) ==
  /\ SameJob(g, h)
  /\ g.pc = "count" => g.channelId = lookup[g.conn] /\ lookup[g.conn] # None
  /\ g.pc \in {"find", "count"} => h.pc \in {"find", "count"}
  /\ g.pc \in Relaying => h.pc \in Relaying
  /\ ToSet(g.queue) \subseteq ToSet(h.queue)
  /\ \A c \in ToSet(h.queue) \ ToSet(g.queue) : c = h.conn \/ socket[c] # "open"

Onward(h, g) ==
  \/ g = h
  \/ g.kind # "message"
  \/ Eases(h, g)
  \/ /\ g.pc = "find" /\ g.queue = <<>>
     /\ \E e \in events : e.kind = "message" /\ e.conn = g.conn

\* Where the queue of g comes from.
Shifts(h, g) ==
  \/ g.queue = h.queue \/ g.queue = <<>>
  \/ h.queue # <<>> /\ g.queue = Tail(h.queue)
  \/ /\ h.channelId \in Channels /\ channel[h.channelId] # None
     /\ g.queue = channel[h.channelId].connections

\* An invocation of another kind, or one that is done.
LEMMA AsideOnward ==
  ASSUME NEW w \in Workers, NEW g \in Handler, Moves(w, g),
         g = Idle \/ handler[w].kind # "message", g = Idle \/ g.queue = handler[w].queue
  PROVE  Onward(handler[w], g) /\ Shifts(handler[w], g)
BY IdleLabelled DEF Moves, SameJob, Onward, Shifts

\* A message whose queue stays, at labels of the same phase.
LEMMA StayOnward ==
  ASSUME NEW h, NEW g, SameJob(g, h), g.queue = h.queue,
         g.pc \in Relaying => h.pc \in Relaying, g.pc \notin {"find", "count"}
  PROVE  Onward(h, g) /\ Shifts(h, g)
BY DEF Onward, Eases, Shifts

\* $connect.
LEMMA ConnectMoves ==
  ASSUME IInv, Jobs, NEW w \in Workers,
         CreateChannel(w) \/ JoinChannel(w) \/ PutLookup(w) \/ SchedulePost(w)
  PROVE  \E g \in Handler : /\ Moves(w, g) /\ Onward(handler[w], g) /\ Shifts(handler[w], g)
                            /\ g = Idle \/ g.queue = handler[w].queue
<1> DEFINE h == handler[w]
<1>1. /\ h \in Handler /\ h.conn \in Connections /\ h.kind = "connect" /\ h.pc # "idle"
      /\ h.pc \in OnChannel => h.channelId \in Channels
      /\ Labelled(h)
  <2>1. h.pc # "idle" /\ h.pc \in Joining \cup {"putLookup", "schedule"}
    BY DEF CreateChannel, JoinChannel, PutLookup, SchedulePost, Joining
  <2> QED BY <2>1, Job, Running
<1>2. ASSUME NEW g \in Handler, Goto(w, g), g.kind = h.kind, g.conn = h.conn,
             g.frame = h.frame, g.queue = h.queue,
             g.pc \in {"putLookup", "schedule", "refuse"}
      PROVE  Moves(w, g)
  <2>1. Labelled(g) /\ SameJob(g, h) /\ g.pc \notin Joining
    BY <1>1, <1>2 DEF Labelled, SameJob, Joining
  <2> QED BY <1>1, <1>2, <2>1, GotoMoves
<1>3. ASSUME NEW pc \in {"putLookup", "schedule", "refuse"}, NEW ch \in Channels,
             Goto(w, [h EXCEPT !.channelId = ch, !.pc = pc]) \/ Goto(w, [h EXCEPT !.pc = pc])
      PROVE  \E g \in Handler : Moves(w, g) /\ g.queue = h.queue
  <2>1. ASSUME NEW g, g = [h EXCEPT !.channelId = ch, !.pc = pc] \/ g = [h EXCEPT !.pc = pc]
        PROVE  /\ g \in Handler /\ g.kind = h.kind /\ g.conn = h.conn
               /\ g.frame = h.frame /\ g.queue = h.queue /\ g.pc = pc
    BY <1>1, <2>1 DEF Handler, Labels
  <2> QED BY <1>2, <1>3, <2>1
<1>4. \/ Done(w)
      \/ \E g \in Handler : Moves(w, g) /\ g.queue = h.queue
  <2>1. CASE CreateChannel(w)
    BY <1>3, <2>1 DEF CreateChannel
  <2>2. CASE JoinChannel(w)
    <3>1. h.channelId \in Channels
      BY <1>1, <2>2 DEF JoinChannel, OnChannel
    <3> QED BY <1>3, <2>2, <3>1 DEF JoinChannel
  <2>3. CASE PutLookup(w)
    <3>1. h.channelId \in Channels
      BY <1>1, <2>3 DEF PutLookup, OnChannel
    <3> QED BY <1>3, <2>3, <3>1 DEF PutLookup
  <2>4. CASE SchedulePost(w)
    BY <2>4 DEF SchedulePost
  <2> QED BY <2>1, <2>2, <2>3, <2>4
<1>5. CASE Done(w)
  BY <1>1, <1>5, DoneMoves, IdleLabelled, AsideOnward
<1>6. ASSUME NEW g \in Handler, Moves(w, g), g.queue = h.queue
      PROVE  Onward(h, g) /\ Shifts(h, g)
  BY <1>1, <1>6, AsideOnward
<1> QED BY <1>4, <1>5, <1>6

\* A refusal, the post of a channel id, a crash.
LEMMA AnswerMoves ==
  ASSUME IInv, Jobs, NEW w \in Workers, Refuse(w) \/ PostChannelId(w) \/ Crash(w)
  PROVE  \E g \in Handler : /\ Moves(w, g) /\ Onward(handler[w], g) /\ Shifts(handler[w], g)
                            /\ g = Idle \/ g.queue = handler[w].queue
<1> DEFINE h == handler[w]
<1>1. h.pc # "idle" /\ h \in Handler /\ Labelled(h) /\ Sane(h)
  BY Job DEF Refuse, PostChannelId, Crash
<1>2. CASE Done(w)
  BY <1>1, <1>2, DoneMoves, IdleLabelled, AsideOnward
<1>3. CASE h.pc = "post" /\ Goto(w, [h EXCEPT !.attempt = @ + 1])
  <2> PICK g : g = [h EXCEPT !.attempt = @ + 1]
    OBVIOUS
  <2>1. h.attempt + 1 \in Nat
    BY <1>1 DEF Handler
  <2>2. /\ g \in Handler /\ g.kind = h.kind /\ g.conn = h.conn /\ g.pc = h.pc
        /\ g.frame = h.frame /\ g.queue = h.queue /\ g.leaving = h.leaving
    BY <1>1, <2>1 DEF Handler
  <2>3. h.kind = "post"
    BY <1>1, <1>3, Job
  <2>4. Labelled(g) /\ SameJob(g, h) /\ g.pc \notin Joining
    BY <1>1, <1>3, <2>2, <2>3 DEF Labelled, SameJob, Joining
  <2>5. Moves(w, g)
    BY <1>1, <1>3, <2>2, <2>4, GotoMoves
  <2> QED BY <2>2, <2>3, <2>5, AsideOnward
<1> QED BY <1>2, <1>3 DEF Refuse, PostChannelId, Crash

\* A frame finds its channel.
LEMMA FindMoves ==
  ASSUME IInv, Jobs, NEW w \in Workers, FindChannel(w)
  PROVE  \E g \in Handler : /\ Moves(w, g) /\ Onward(handler[w], g) /\ Shifts(handler[w], g)
                            /\ g = Idle \/ g.queue = handler[w].queue
<1> DEFINE h == handler[w]
<1>1. h.pc # "idle" /\ h.pc = "find" /\ h \in Handler /\ Labelled(h) /\ h.conn \in Connections
      /\ h.kind = "message"
  BY Job DEF FindChannel
<1>2. CASE Done(w)
  BY <1>1, <1>2, DoneMoves, IdleLabelled, AsideOnward
<1>3. CASE /\ lookup[h.conn] # None
           /\ Goto(w, [h EXCEPT !.channelId = lookup[h.conn], !.pc = "count"])
  <2> PICK g : g = [h EXCEPT !.channelId = lookup[h.conn], !.pc = "count"]
    OBVIOUS
  <2>1. lookup[h.conn] \in Channels
    BY <1>1, <1>3 DEF IInv, TypeOK
  <2>2. /\ g \in Handler /\ g.kind = h.kind /\ g.conn = h.conn /\ g.pc = "count"
        /\ g.frame = h.frame /\ g.queue = h.queue /\ g.channelId = lookup[h.conn]
    BY <1>1, <2>1 DEF Handler, Labels
  <2>3. Labelled(g) /\ SameJob(g, h) /\ g.pc \notin Joining
    BY <1>1, <2>2 DEF Labelled, SameJob, Joining, CleaningUp, Relaying
  <2>4. Moves(w, g)
    BY <1>1, <1>3, <2>2, <2>3, GotoMoves
  <2>5. Eases(h, g)
    BY <1>1, <1>3, <2>2, <2>3 DEF Eases, Relaying, CleaningUp
  <2> QED BY <2>2, <2>4, <2>5 DEF Onward, Shifts
<1> QED BY <1>2, <1>3 DEF FindChannel

\* A frame is refused, or is relayed along the list of its channel.
LEMMA CountMoves ==
  ASSUME IInv, Jobs, NEW w \in Workers, CountMessage(w)
  PROVE  \E g \in Handler :
           /\ Moves(w, g) /\ Shifts(handler[w], g)
           /\ \/ /\ Onward(handler[w], g) /\ channel' = channel
                 /\ g.queue = handler[w].queue
              \/ /\ HasQuota(handler[w].channelId) /\ g.pc \in {"relay", "ack"}
                 /\ SameJob(g, handler[w])
                 /\ g.queue = channel[handler[w].channelId].connections
                 /\ channel' = [channel EXCEPT ![handler[w].channelId].messageCount = @ + 1]
<1> DEFINE h == handler[w]
<1>1. h.pc # "idle" /\ h.pc = "count" /\ h \in Handler /\ Labelled(h) /\ h.conn \in Connections
      /\ h.kind = "message" /\ h.channelId \in Channels
  BY Job, Running DEF CountMessage, OnChannel
<1>2. CASE Goto(w, [h EXCEPT !.pc = "refuse"]) /\ UNCHANGED channel
  <2> PICK g : g = [h EXCEPT !.pc = "refuse"]
    OBVIOUS
  <2>2. /\ g \in Handler /\ g.kind = h.kind /\ g.conn = h.conn /\ g.pc = "refuse"
        /\ g.frame = h.frame /\ g.queue = h.queue
    BY <1>1 DEF Handler, Labels
  <2>3. Labelled(g) /\ SameJob(g, h) /\ g.pc \notin Joining
    BY <1>1, <2>2 DEF Labelled, SameJob, Joining, CleaningUp, Relaying
  <2>4. Moves(w, g)
    BY <1>1, <1>2, <2>2, <2>3, GotoMoves
  <2>5. Onward(h, g) /\ Shifts(h, g)
    BY <2>2, <2>3, StayOnward DEF Relaying, CleaningUp
  <2> QED BY <1>2, <2>2, <2>4, <2>5
<1>3. CASE /\ HasQuota(h.channelId)
           /\ channel' = [channel EXCEPT ![h.channelId].messageCount = @ + 1]
           /\ Goto(w, Relay([h EXCEPT !.queue = channel[h.channelId].connections]))
  <2> PICK q : q = channel[h.channelId].connections
    OBVIOUS
  <2> PICK k : k = [h EXCEPT !.queue = q]
    OBVIOUS
  <2>1. channel[h.channelId] # None /\ q \in Seq(Connections)
    BY <1>1, <1>3 DEF HasQuota, IInv, TypeOK, Channel
  <2>2. k \in Handler /\ SameJob(k, h) /\ k.queue = q /\ k.kind = "message"
    BY <1>1, <2>1 DEF Handler, SameJob
  <2>3. /\ Relay(k) \in Handler /\ Labelled(Relay(k)) /\ SameJob(Relay(k), h)
        /\ Relay(k).pc \notin Joining /\ Relay(k).pc \in {"relay", "ack"}
        /\ Relay(k).queue = q
    BY <2>2, RelayMoves DEF SameJob
  <2>4. Goto(w, Relay(k))
    BY <1>3
  <2>5. Moves(w, Relay(k))
    BY <1>1, <2>3, <2>4, GotoMoves
  <2>6. Shifts(h, Relay(k))
    BY <1>1, <2>1, <2>3 DEF Shifts
  <2> QED BY <1>3, <2>3, <2>5, <2>6
<1> QED BY <1>2, <1>3 DEF CountMessage

\* The relay leaves its next recipient behind.
LEMMA NextMoves ==
  ASSUME IInv, Jobs, NEW w \in Workers, SkipSender(w) \/ Deliver(w) \/ Gone(w)
  PROVE  \E g \in Handler :
           /\ Moves(w, g) /\ g.pc \in {"relay", "ack", "getLookup"}
           /\ SameJob(g, handler[w]) /\ g.queue = Tail(handler[w].queue)
<1> DEFINE h == handler[w]
<1>1. h.pc # "idle" /\ h.pc = "relay" /\ h \in Handler /\ Labelled(h) /\ h.conn \in Connections
      /\ h.kind = "message" /\ h.queue \in Seq(Connections) /\ h.queue # <<>>
  BY Job DEF SkipSender, Deliver, Gone, Sane
<1>2. Tail(h.queue) \in Seq(Connections) /\ Head(h.queue) \in Connections
  <2> HIDE DEF h
  <2> QED BY <1>1, HeadTailProperties, Zenon
<1> PICK q : q = Tail(h.queue)
  OBVIOUS
<1> PICK p : p = Head(h.queue)
  OBVIOUS
<1>3. CASE Goto(w, Relay([h EXCEPT !.queue = Tail(@)]))
  <2> PICK k : k = [h EXCEPT !.queue = q]
    OBVIOUS
  <2>2. k \in Handler /\ SameJob(k, h) /\ k.queue = q /\ k.kind = "message"
    BY <1>1, <1>2 DEF Handler, SameJob
  <2>3. /\ Relay(k) \in Handler /\ Labelled(Relay(k)) /\ SameJob(Relay(k), h)
        /\ Relay(k).pc \notin Joining /\ Relay(k).pc \in {"relay", "ack"}
        /\ Relay(k).queue = q
    BY <2>2, RelayMoves DEF SameJob
  <2>4. Goto(w, Relay(k))
    BY <1>3
  <2>5. Moves(w, Relay(k))
    BY <1>1, <2>3, <2>4, GotoMoves
  <2> QED BY <2>3, <2>5
<1>4. CASE Goto(w, [h EXCEPT !.queue = Tail(@), !.leaving = p, !.pc = "getLookup"])
  <2> PICK g : g = [h EXCEPT !.queue = q, !.leaving = p, !.pc = "getLookup"]
    OBVIOUS
  <2>1. /\ g \in Handler /\ g.kind = h.kind /\ g.conn = h.conn /\ g.pc = "getLookup"
        /\ g.frame = h.frame /\ g.queue = q
    BY <1>1, <1>2 DEF Handler, Labels
  <2>2. Labelled(g) /\ SameJob(g, h) /\ g.pc \notin Joining
    BY <1>1, <2>1 DEF Labelled, SameJob, Joining, CleaningUp, Relaying
  <2>3. Moves(w, g)
    <3>1. Goto(w, g)
      BY <1>4
    <3> QED BY <1>1, <2>1, <2>2, <3>1, GotoMoves
  <2> QED BY <2>1, <2>2, <2>3
<1> QED BY <1>3, <1>4 DEF SkipSender, Deliver, Gone

\* It leaves out the sender, or one that is gone; or it delivers.
LEMMA NextOnward ==
  ASSUME IInv, Jobs, Once, NEW w \in Workers, SkipSender(w) \/ Deliver(w) \/ Gone(w)
  PROVE  \E g \in Handler :
           /\ Moves(w, g) /\ Shifts(handler[w], g)
           /\ g.pc \in Relaying /\ handler[w].pc = "relay" /\ handler[w].kind = "message"
           /\ SameJob(g, handler[w])
           /\ Head(handler[w].queue) \in ToSet(handler[w].queue)
           /\ ToSet(g.queue) = ToSet(handler[w].queue) \ {Head(handler[w].queue)}
           /\ ~Deliver(w) => Onward(handler[w], g)
<1> DEFINE h == handler[w]
<1>1. h.pc = "relay" /\ h.queue \in Seq(Connections) /\ h.queue # <<>> /\ IsInjective(h.queue)
      /\ h.kind = "message"
  BY Job DEF SkipSender, Deliver, Gone, Sane, Once
<1>2. PICK g \in Handler :
           /\ Moves(w, g) /\ g.pc \in {"relay", "ack", "getLookup"}
           /\ SameJob(g, h) /\ g.queue = Tail(h.queue)
  BY NextMoves
<1>3. /\ Head(h.queue) \in ToSet(h.queue)
      /\ ToSet(g.queue) = ToSet(h.queue) \ {Head(h.queue)}
  BY <1>1, <1>2, TailList
<1>4. Shifts(h, g)
  BY <1>1, <1>2 DEF Shifts
<1>5. g.pc \in Relaying /\ h.pc \in Relaying /\ g.pc \notin {"find", "count"}
  BY <1>1, <1>2 DEF Relaying, CleaningUp
<1>6. ASSUME ~Deliver(w) PROVE Onward(h, g)
  <2>1. Head(h.queue) = h.conn \/ socket[Head(h.queue)] # "open"
    BY <1>6 DEF SkipSender, Gone
  <2>2. \A c \in ToSet(h.queue) \ ToSet(g.queue) : c = h.conn \/ socket[c] # "open"
    <3> HIDE DEF h
    <3> QED BY <1>3, <2>1
  <2>3. Eases(h, g)
    BY <1>2, <1>3, <1>5, <2>2 DEF Eases
  <2> QED BY <2>3 DEF Onward
<1> QED BY <1>1, <1>2, <1>3, <1>4, <1>5, <1>6

\* The ack, or the clean-up after a sender that is gone.
LEMMA AckMoves ==
  ASSUME IInv, Jobs, NEW w \in Workers, Ack(w)
  PROVE  \E g \in Handler : /\ Moves(w, g) /\ Onward(handler[w], g) /\ Shifts(handler[w], g)
                            /\ g = Idle \/ g.queue = handler[w].queue
<1> DEFINE h == handler[w]
<1>1. h.pc # "idle" /\ h.pc = "ack" /\ h \in Handler /\ Labelled(h) /\ h.conn \in Connections
      /\ h.kind = "message"
  BY Job DEF Ack
<1>2. CASE Done(w)
  BY <1>1, <1>2, DoneMoves, IdleLabelled, AsideOnward
<1>3. CASE Goto(w, [h EXCEPT !.leaving = h.conn, !.pc = "getLookup"])
  <2> PICK g : g = [h EXCEPT !.leaving = h.conn, !.pc = "getLookup"]
    OBVIOUS
  <2>1. /\ g \in Handler /\ g.kind = h.kind /\ g.conn = h.conn /\ g.pc = "getLookup"
        /\ g.frame = h.frame /\ g.queue = h.queue
    BY <1>1 DEF Handler, Labels
  <2>2. Labelled(g) /\ SameJob(g, h) /\ g.pc \notin Joining
    BY <1>1, <2>1 DEF Labelled, SameJob, Joining, CleaningUp, Relaying
  <2>3. Moves(w, g)
    BY <1>1, <1>3, <2>1, <2>2, GotoMoves
  <2>4. Onward(h, g) /\ Shifts(h, g)
    BY <1>1, <2>1, <2>2, StayOnward DEF Relaying, CleaningUp
  <2> QED BY <2>1, <2>3, <2>4
<1> QED BY <1>2, <1>3 DEF Ack

\* The clean-up, after which the relay goes on where it was.
LEMMA CleanUpMoves ==
  ASSUME IInv, Jobs, NEW w \in Workers,
         GetLookup(w) \/ DropLookup(w) \/ GetChannel(w) \/ DropIndex(w)
  PROVE  \E g \in Handler : /\ Moves(w, g) /\ Onward(handler[w], g) /\ Shifts(handler[w], g)
                            /\ g = Idle \/ g.queue = handler[w].queue
<1> DEFINE h == handler[w]
<1>1. /\ h.pc # "idle" /\ h.pc \in CleaningUp /\ h \in Handler /\ Labelled(h)
      /\ h.conn \in Connections /\ h.leaving \in Connections
      /\ h.kind \in {"message", "disconnect"}
  BY Job, Running DEF GetLookup, DropLookup, GetChannel, DropIndex, CleaningUp
<1>2. CASE Done(w)
  BY <1>1, <1>2, DoneMoves, IdleLabelled, AsideOnward
<1>3. CASE CleanedUp(w)
  <2>1. PICK g \in Handler :
            /\ Moves(w, g)
            /\ g # Idle => /\ g.kind = "message" /\ g.pc \in {"relay", "ack"}
                          /\ g.queue = h.queue
    BY <1>1, <1>3, CleanedUpMoves
  <2>2. CASE g = Idle
    BY <2>1, <2>2, AsideOnward
  <2>3. CASE g # Idle
    <3>1. SameJob(g, h) /\ h.pc \in Relaying /\ g.pc \notin {"find", "count"}
      BY <1>1, <2>1, <2>3 DEF Moves, Relaying
    <3> QED BY <2>1, <2>3, <3>1, StayOnward
  <2> QED BY <2>2, <2>3
<1>4. ASSUME NEW g \in Handler, Goto(w, g), g.kind = h.kind, g.conn = h.conn,
             g.frame = h.frame, g.queue = h.queue, g.leaving = h.leaving,
             g.pc \in CleaningUp
      PROVE  Moves(w, g) /\ Onward(h, g) /\ Shifts(h, g)
  <2>1. Labelled(g) /\ SameJob(g, h) /\ g.pc \notin Joining
    BY <1>1, <1>4 DEF Labelled, SameJob, Joining, CleaningUp, Relaying
  <2>2. Moves(w, g)
    BY <1>1, <1>4, <2>1, GotoMoves
  <2>3. h.pc \in Relaying /\ g.pc \notin {"find", "count"}
    BY <1>1, <1>4 DEF Relaying, CleaningUp
  <2> QED BY <1>4, <2>1, <2>2, <2>3, StayOnward
<1>5. CASE GetLookup(w)
  <2>1. CASE CleanedUp(w)
    BY <1>3, <2>1
  <2>2. CASE /\ lookup[h.leaving] # None
             /\ Goto(w, [h EXCEPT !.channelId = lookup[h.leaving], !.pc = "dropLookup"])
    <3> PICK ch : ch = lookup[h.leaving]
      OBVIOUS
    <3> PICK g : g = [h EXCEPT !.channelId = ch, !.pc = "dropLookup"]
      OBVIOUS
    <3>1. ch \in Channels
      BY <1>1, <2>2 DEF IInv, TypeOK
    <3>2. /\ g \in Handler /\ g.kind = h.kind /\ g.conn = h.conn /\ g.pc = "dropLookup"
          /\ g.frame = h.frame /\ g.queue = h.queue /\ g.leaving = h.leaving
      BY <1>1, <3>1 DEF Handler, Labels
    <3>3. g.pc \in CleaningUp
      BY <3>2 DEF CleaningUp
    <3> QED BY <1>4, <2>2, <3>2, <3>3
  <2> QED BY <1>5, <2>1, <2>2 DEF GetLookup
<1>6. CASE DropLookup(w)
  <2> PICK g : g = [h EXCEPT !.pc = "getChannel"]
    OBVIOUS
  <2>1. /\ g \in Handler /\ g.kind = h.kind /\ g.conn = h.conn /\ g.pc = "getChannel"
        /\ g.frame = h.frame /\ g.queue = h.queue /\ g.leaving = h.leaving
    BY <1>1 DEF Handler, Labels
  <2>2. g.pc \in CleaningUp /\ Goto(w, g)
    BY <1>6, <2>1 DEF CleaningUp, DropLookup
  <2> QED BY <1>4, <2>1, <2>2
<1>7. CASE GetChannel(w)
  <2>1. CASE CleanedUp(w)
    BY <1>3, <2>1
  <2>2. CASE \E i \in Places(h.channelId, h.leaving) :
               Goto(w, [h EXCEPT !.index = i, !.pc = "dropIndex"])
    <3> PICK i \in Places(h.channelId, h.leaving) :
               Goto(w, [h EXCEPT !.index = i, !.pc = "dropIndex"])
      BY <2>2
    <3> PICK g : g = [h EXCEPT !.index = i, !.pc = "dropIndex"]
      OBVIOUS
    <3>1. i \in Nat
      <4>1. h.channelId \in Channels
        BY <1>1, <1>7, Running DEF GetChannel, OnChannel
      <4>2. /\ channel[h.channelId] \in Channel
            /\ i \in DOMAIN channel[h.channelId].connections
        BY <4>1 DEF Places, IInv, TypeOK
      <4>3. channel[h.channelId].connections \in Seq(Connections)
        BY <4>2 DEF Channel
      <4> QED BY <4>2, <4>3, LenProperties
    <3>2. /\ g \in Handler /\ g.kind = h.kind /\ g.conn = h.conn /\ g.pc = "dropIndex"
          /\ g.frame = h.frame /\ g.queue = h.queue /\ g.leaving = h.leaving
      BY <1>1, <3>1 DEF Handler, Labels
    <3>3. g.pc \in CleaningUp
      BY <3>2 DEF CleaningUp
    <3> QED BY <1>4, <3>2, <3>3
  <2> QED BY <1>7, <2>1, <2>2 DEF GetChannel
<1>8. CASE DropIndex(w)
  BY <1>2, <1>3, <1>8 DEF DropIndex
<1> QED BY <1>5, <1>6, <1>7, <1>8

-----------------------------------------------------------------------------
(***************************************************************************)
(* What a step of an invocation does to the rest.                          *)
(***************************************************************************)
Outside(w, g) ==
  /\ sent' = sent
  /\ \A e \in events' : e \in events \/ e.kind = "post"
  /\ \/ socket' = socket
     \/ /\ handler[w].kind = "connect" /\ g = Idle
        /\ \E st \in {"accepted", "closed"} :
             socket' = [socket EXCEPT ![handler[w].conn] = st]
  /\ \/ acked' = acked
     \/ /\ handler[w].kind = "message" /\ g = Idle
        /\ acked' = [acked EXCEPT ![handler[w].conn] = handler[w].frame]

LEMMA HandleOutside ==
  ASSUME IInv, Jobs, NEW w \in Workers, Handle(w) \/ Crash(w),
         NEW g \in Handler, Moves(w, g)
  PROVE  Outside(w, g)
<1> DEFINE h == handler[w]
<1>1. Done(w) => g = Idle
  <2>1. handler'[w] = g
    BY DEF Moves, IInv, TypeOK
  <2>2. Done(w) => handler'[w] = Idle
    BY DEF Done, Goto, IInv, TypeOK
  <2> QED BY <2>1, <2>2
<1>2. CASE \/ CreateChannel(w) \/ JoinChannel(w) \/ PutLookup(w) \/ PostChannelId(w)
           \/ FindChannel(w) \/ CountMessage(w) \/ SkipSender(w) \/ Deliver(w) \/ Gone(w)
           \/ GetLookup(w) \/ DropLookup(w) \/ GetChannel(w) \/ DropIndex(w)
  <2>1. UNCHANGED <<sent, events, socket, acked>>
    BY <1>2 DEF CreateChannel, JoinChannel, PutLookup, PostChannelId, FindChannel,
       CountMessage, SkipSender, Deliver, Gone, GetLookup, DropLookup, GetChannel,
       DropIndex, client
  <2> QED BY <2>1 DEF Outside
<1>3. CASE SchedulePost(w)
  <2>1. h.kind = "connect"
    BY <1>3, Job DEF SchedulePost
  <2>2. \A e \in events' : e \in events \/ e.kind = "post"
    BY <1>3 DEF SchedulePost, NewEvent
  <2> QED BY <1>1, <1>3, <2>1, <2>2 DEF SchedulePost, Outside
<1>4. CASE Refuse(w)
  BY <1>1, <1>4 DEF Refuse, Outside
<1>5. CASE Ack(w)
  <2>1. h.kind = "message"
    BY <1>5, Job DEF Ack
  <2> QED BY <1>1, <1>5, <2>1 DEF Ack, Outside
<1>6. CASE Crash(w)
  BY <1>1, <1>6 DEF Crash, Outside
<1> QED BY <1>2, <1>3, <1>4, <1>5, <1>6 DEF Handle

\* No connection gets younger, and every one that may still join could before.
Ages ==
  /\ \A c \in Connections : Young(c)' => Young(c)
  /\ \A c \in Connections : socket'[c] = "open" => socket[c] = "open" \/ Young(c)

LEMMA StepKeeps ==
  ASSUME IInv, Jobs, Alone, Flights, NEW w \in Workers, NEW g \in Handler,
         Moves(w, g), Outside(w, g)
  PROVE  /\ Jobs' /\ Alone' /\ Flights' /\ Ages
         /\ \A c \in Connections : socket'[c] = "open" => socket[c] = "open"
         /\ \A c \in Connections : Joinable(c)' =>
              Joinable(c) /\ (handler[w].pc \in Joining => c # handler[w].conn)
<1> DEFINE h == handler[w]
<1>0. /\ h \in Handler /\ h.conn \in Connections /\ h.pc # "idle"
      /\ handler \in [Workers -> Handler]
      /\ handler' \in [Workers -> Handler]
      /\ handler'[w] = g /\ \A v \in Workers \ {w} : handler'[v] = handler[v]
      /\ g.pc \notin Joining /\ Labelled(g) /\ (g = Idle \/ SameJob(g, h))
      /\ \A e \in events' : e \in events \/ e.kind = "post"
  BY Job DEF Moves, IInv, TypeOK, Outside
<1>1. \A v \in Workers : \/ handler'[v].kind = "none"
                         \/ SameJob(handler'[v], handler[v])
  BY <1>0, IdleLabelled DEF SameJob
<1>2. Jobs'
  BY <1>0 DEF Jobs, Labelled
<1>3. Alone'
  <2>1. \A e, f \in events' : e.kind \in Serial /\ e.kind = f.kind /\ e.conn = f.conn => e = f
    BY <1>0 DEF Alone, Serial
  <2>2. \A u, v \in Workers :
          /\ handler'[v].kind \in Serial /\ handler'[v].kind = handler'[u].kind
          /\ handler'[v].conn = handler'[u].conn
          => v = u
    BY <1>1 DEF Alone, Serial, SameJob
  <2>3. \A v \in Workers, e \in events' :
          e.kind \in Serial /\ e.kind = handler'[v].kind => e.conn # handler'[v].conn
    BY <1>0, <1>1 DEF Alone, Serial, SameJob
  <2> QED BY <2>1, <2>2, <2>3 DEF Alone
<1>4. /\ Ages
      /\ \A c \in Connections : socket'[c] = "open" => socket[c] = "open"
      /\ \A c \in Connections : socket'[c] = "new" => socket[c] = "new"
  <2>1. CASE socket' = socket
    BY <2>1 DEF Ages, Young
  <2>2. CASE /\ h.kind = "connect"
             /\ \E st \in {"accepted", "closed"} : socket' = [socket EXCEPT ![h.conn] = st]
    <3>1. socket[h.conn] = "connecting"
      BY <2>2 DEF Flights, InFlight
    <3> QED BY <2>2, <3>1, <1>0 DEF Ages, Young, IInv, TypeOK
  <2> QED BY <2>1, <2>2 DEF Outside
<1>5. \A x \in events : InFlight(x)
  BY DEF Flights
<1>6. ASSUME NEW x, InFlight(x), x.conn \in Connections,
             x.kind \in Serial /\ x.kind = h.kind => g # Idle \/ x.conn # h.conn
      PROVE  InFlight(x)'
  <2>1. CASE x.kind = "connect"
    <3>1. socket[x.conn] = "connecting"
      BY <1>6, <2>1 DEF InFlight
    <3>2. socket'[x.conn] = "connecting"
      BY <1>0, <1>6, <2>1, <3>1 DEF Outside, Serial, IInv, TypeOK
    <3> QED BY <2>1, <3>2 DEF InFlight
  <2>2. CASE x.kind = "message"
    <3>1. x.frame = sent[x.conn] /\ sent[x.conn] = acked[x.conn] + 1 /\ ~Young(x.conn)
      BY <1>6, <2>2 DEF InFlight
    <3>2. acked'[x.conn] = acked[x.conn] /\ sent'[x.conn] = sent[x.conn]
      BY <1>0, <1>6, <2>2 DEF Outside, Serial, IInv, TypeOK
    <3>3. ~Young(x.conn)'
      BY <1>4, <1>6, <3>1 DEF Ages
    <3> QED BY <2>2, <3>1, <3>2, <3>3 DEF InFlight
  <2>3. CASE x.kind \notin Serial
    BY <2>3 DEF Serial, InFlight
  <2> QED BY <2>1, <2>2, <2>3 DEF Serial
<1>7. Flights'
  <2>1. ASSUME NEW e \in events' PROVE InFlight(e)'
    <3>1. CASE e.kind = "post"
      BY <3>1 DEF InFlight
    <3>2. CASE e \in events
      <4>1. e.conn \in Connections
        BY <3>2 DEF IInv, TypeOK, Event
      <4>2. e.kind \in Serial /\ e.kind = h.kind => e.conn # h.conn
        BY <3>2 DEF Alone
      <4> QED BY <1>5, <1>6, <3>2, <4>1, <4>2
    <3> QED BY <1>0, <3>1, <3>2
  <2>2. ASSUME NEW v \in Workers PROVE InFlight(handler[v])'
    <3> PICK x : x = handler'[v]
      OBVIOUS
    <3> SUFFICES InFlight(x)'
      BY DEF InFlight, Young
    <3>1. CASE x.kind = "none"
      BY <3>1 DEF InFlight
    <3>2. CASE SameJob(x, handler[v]) /\ x.kind # "none"
      <4>1. InFlight(handler[v])
        BY DEF Flights
      <4>2. InFlight(x)
        BY <3>2, <4>1 DEF InFlight, SameJob
      <4>3. x.conn \in Connections
        <5>1. handler[v].pc # "idle"
          BY <1>0, <3>2 DEF Jobs, Labelled, SameJob, IInv, TypeOK, Handler, Joining, Relaying, CleaningUp, Kinds
        <5> QED BY <3>2, <5>1, Job DEF SameJob
      <4>4. x.kind \in Serial /\ x.kind = h.kind => g # Idle \/ x.conn # h.conn
        BY <1>0, <3>2, IdleLabelled DEF Alone, SameJob
      <4> QED BY <1>6, <4>2, <4>3, <4>4
    <3> QED BY <1>1, <3>1, <3>2
  <2> QED BY <2>1, <2>2 DEF Flights
<1>8. ASSUME NEW c \in Connections, Joinable(c)'
      PROVE  Joinable(c) /\ (h.pc \in Joining => c # h.conn)
  <2>1. CASE socket'[c] = "new"
    <3>1. h.pc \in Joining => socket[h.conn] = "connecting"
      BY <1>0, Job DEF Flights, InFlight
    <3> QED BY <1>4, <2>1, <3>1 DEF Joinable
  <2>2. CASE \E e \in events' : e.kind = "connect" /\ e.conn = c
    <3>1. PICK e \in events : e.kind = "connect" /\ e.conn = c
      BY <1>0, <2>2
    <3>2. h.pc \in Joining => h.kind = "connect"
      BY <1>0, Job
    <3> QED BY <3>1, <3>2 DEF Joinable, Alone, Serial
  <2>3. CASE \E v \in Workers : handler'[v].pc \in Joining /\ handler'[v].conn = c
    <3>1. PICK v \in Workers : handler'[v].pc \in Joining /\ handler'[v].conn = c
      BY <2>3
    <3>2. v # w /\ handler[v].pc \in Joining /\ handler[v].conn = c
      BY <1>0, <3>1
    <3>3. handler[v].kind = "connect" /\ (h.pc \in Joining => h.kind = "connect")
      BY <1>0, <3>2, Job DEF Joining
    <3> QED BY <3>2, <3>3 DEF Joinable, Alone, Serial
  <2> QED BY <1>8, <2>1, <2>2, <2>3 DEF Joinable
<1> QED BY <1>0, <1>2, <1>3, <1>4, <1>7, <1>8

-----------------------------------------------------------------------------
(***************************************************************************)
(* Lists: Once.                                                            *)
(***************************************************************************)
Injective == \A ch \in Channels : channel[ch] # None => IsInjective(channel[ch].connections)

LEMMA ItemMembers ==
  ASSUME IInv, NEW ch \in Channels, NEW item \in Channel,
         channel' = [channel EXCEPT ![ch] = item]
  PROVE  /\ Members(ch)' = ToSet(item.connections)
         /\ \A x \in Channels \ {ch} : Members(x)' = Members(x)
         /\ Injective /\ IsInjective(item.connections) => Injective'
BY ChannelAssumption DEF Members, Injective, IInv, TypeOK

\* A new list, or a longer one, with the connection that joins.
LEMMA JoinMembers ==
  ASSUME IInv, Once, NEW w \in Workers,
         CreateChannel(w) \/ (JoinChannel(w) /\ HasRoom(handler[w].channelId))
  PROVE  \E x \in Channels :
           /\ Members(x)' \subseteq Members(x) \cup {handler[w].conn}
           /\ \A y \in Channels \ {x} : Members(y)' = Members(y)
           /\ Injective'
<1> PICK j : j = handler[w].conn
  OBVIOUS
<1>1. /\ j \in Connections
      /\ JoinChannel(w) => handler[w].channelId \in Channels
  BY Running DEF CreateChannel, JoinChannel, OnChannel
<1>2. CASE CreateChannel(w)
  <2>1. PICK ch \in Channels :
          channel' = [channel EXCEPT ![ch] = [connections |-> <<j>>, messageCount |-> 0]]
    BY <1>2 DEF CreateChannel
  <2> PICK item : item = [connections |-> <<j>>, messageCount |-> 0]
    OBVIOUS
  <2>2. item \in Channel /\ item.connections = <<j>>
    BY <1>1 DEF Channel
  <2>3. ToSet(item.connections) = {j} /\ IsInjective(item.connections)
    BY <2>2, OneList
  <2>4. Injective
    BY DEF Once, Injective
  <2>5. channel' = [channel EXCEPT ![ch] = item]
    BY <2>1
  <2> QED BY <2>2, <2>3, <2>4, <2>5, ItemMembers
<1>3. CASE JoinChannel(w) /\ HasRoom(handler[w].channelId)
  <2> PICK ch : ch = handler[w].channelId
    OBVIOUS
  <2> PICK old : old = channel[ch]
    OBVIOUS
  <2>1. ch \in Channels /\ HasRoom(ch)
        /\ channel' = [channel EXCEPT ![ch].connections = Append(@, j)]
    BY <1>1, <1>3 DEF JoinChannel
  <2>2. old \in Channel /\ old # None
    BY <2>1 DEF HasRoom, IInv, TypeOK
  <2> PICK q : q = Append(old.connections, j)
    OBVIOUS
  <2> PICK item : item = [old EXCEPT !.connections = q]
    OBVIOUS
  <2>3. old.connections \in Seq(Connections)
    BY <2>2 DEF Channel
  <2>4. q \in Seq(Connections)
    BY <1>1, <2>3, AppendProperties
  <2>5. item \in Channel /\ item.connections = q
    BY <2>2, <2>4 DEF Channel
  <2>6. channel' = [channel EXCEPT ![ch] = item]
    BY <2>1, <2>2 DEF IInv, TypeOK
  <2>7. Members(ch) = ToSet(old.connections) /\ Injective /\ IsInjective(old.connections)
    BY <2>1, <2>2 DEF Members, Once, Injective
  <2>8. ToSet(q) = Members(ch) \cup {j}
    BY <1>1, <2>3, <2>7, AppendList
  <2>9. j \notin Members(ch)
    <3>1. handler[w].pc \in Joining
      BY <1>3 DEF JoinChannel, Joining
    <3> QED BY <1>1, <2>1, <3>1 DEF Once, Joinable
  <2>10. IsInjective(q)
    BY <1>1, <2>3, <2>7, <2>9, AppendList
  <2>11. item \in Channel /\ ch \in Channels /\ Injective /\ IsInjective(item.connections)
    BY <2>1, <2>5, <2>7, <2>10
  <2>12. Members(ch)' = ToSet(item.connections) /\ Injective'
         /\ \A x \in Channels \ {ch} : Members(x)' = Members(x)
    BY <2>6, <2>11, ItemMembers, Zenon
  <2>13. Members(ch)' = Members(ch) \cup {j}
    BY <2>5, <2>8, <2>12, Zenon
  <2>14. Members(ch)' \subseteq Members(ch) \cup {j}
    BY <2>13
  <2> QED BY <2>11, <2>12, <2>14
<1> QED BY <1>2, <1>3

\* No other step puts a connection on a list.
LEMMA ShrinkMembers ==
  ASSUME IInv, Once,
         \/ UNCHANGED channel
         \/ \E w \in Workers : DropIndex(w)
         \/ \E ch \in Channels : ExpireChannel(ch)
         \/ \E w \in Workers : CountMessage(w)
  PROVE  (\A x \in Channels : Members(x)' \subseteq Members(x)) /\ Injective'
<1>0. Injective
  BY DEF Once, Injective
<1>1. CASE UNCHANGED channel
  BY <1>0, <1>1 DEF Members, Injective
<1>2. ASSUME NEW w \in Workers, DropIndex(w), channel' # channel
      PROVE  (\A x \in Channels : Members(x)' \subseteq Members(x)) /\ Injective'
  <2> PICK ch : ch = handler[w].channelId
    OBVIOUS
  <2> PICK n : n = handler[w].index
    OBVIOUS
  <2> PICK old : old = channel[ch]
    OBVIOUS
  <2>1. /\ ch \in Channels /\ n \in Nat \ {0} /\ old # None /\ n <= Len(old.connections)
        /\ channel' = [channel EXCEPT ![ch].connections = RemoveAt(@, n)]
    BY <1>2, Running DEF DropIndex, OnChannel, Sane, Handler
  <2>2. old \in Channel
    BY <2>1 DEF IInv, TypeOK
  <2>3. old.connections \in Seq(Connections)
    BY <2>2 DEF Channel
  <2>4. Len(old.connections) \in Nat
    BY <2>3, LenProperties
  <2>5. n \in 1 .. Len(old.connections)
    BY <2>1, <2>4
  <2> PICK q : q = RemoveAt(old.connections, n)
    OBVIOUS
  <2>6. q \in Seq(Connections)
    BY <2>3, <2>5, RemoveAtShortens
  <2>7. Members(ch) = ToSet(old.connections) /\ IsInjective(old.connections)
    BY <1>0, <2>1 DEF Members, Injective
  <2>8. ToSet(q) \subseteq Members(ch) /\ IsInjective(q)
    BY <2>3, <2>5, <2>7, RemoveAtList
  <2> PICK item : item = [old EXCEPT !.connections = q]
    OBVIOUS
  <2>9. item \in Channel /\ item.connections = q
    BY <2>2, <2>6 DEF Channel
  <2>10. channel' = [channel EXCEPT ![ch] = item]
    BY <2>1, <2>2 DEF IInv, TypeOK
  <2>11. Members(ch)' = ToSet(q) /\ (\A x \in Channels \ {ch} : Members(x)' = Members(x))
         /\ Injective'
    <3>1. item \in Channel /\ ch \in Channels /\ IsInjective(item.connections)
      BY <2>1, <2>8, <2>9
    <3>2. Members(ch)' = ToSet(item.connections) /\ Injective'
          /\ \A x \in Channels \ {ch} : Members(x)' = Members(x)
      BY <1>0, <2>10, <3>1, ItemMembers, Zenon
    <3> QED BY <2>9, <3>2, Zenon
  <2> QED BY <2>8, <2>11
<1>3. ASSUME NEW ch \in Channels, ExpireChannel(ch)
      PROVE  (\A x \in Channels : Members(x)' \subseteq Members(x)) /\ Injective'
  BY <1>0, <1>3 DEF ExpireChannel, Members, Injective, IInv, TypeOK
<1>4. ASSUME NEW w \in Workers, CountMessage(w), channel' # channel
      PROVE  (\A x \in Channels : Members(x)' \subseteq Members(x)) /\ Injective'
  <2> PICK ch : ch = handler[w].channelId
    OBVIOUS
  <2> PICK old : old = channel[ch]
    OBVIOUS
  <2>1. /\ ch \in Channels /\ HasQuota(ch)
        /\ channel' = [channel EXCEPT ![ch].messageCount = @ + 1]
    BY <1>4, Running DEF CountMessage, OnChannel
  <2>2. old \in Channel /\ old # None
    BY <2>1 DEF HasQuota, IInv, TypeOK
  <2> PICK item : item = [old EXCEPT !.messageCount = @ + 1]
    OBVIOUS
  <2>3. item \in Channel /\ item.connections = old.connections
    BY <2>2 DEF Channel
  <2>4. channel' = [channel EXCEPT ![ch] = item]
    BY <2>1, <2>2 DEF IInv, TypeOK
  <2>5. Members(ch) = ToSet(old.connections) /\ IsInjective(old.connections)
    BY <1>0, <2>1, <2>2 DEF Members, Injective
  <2>6. item \in Channel /\ ch \in Channels /\ IsInjective(item.connections)
    BY <2>1, <2>3, <2>5
  <2>7. Members(ch)' = ToSet(item.connections) /\ Injective'
        /\ \A x \in Channels \ {ch} : Members(x)' = Members(x)
    BY <1>0, <2>4, <2>6, ItemMembers, Zenon
  <2>8. Members(ch)' = Members(ch)
    BY <2>3, <2>5, <2>7, Zenon
  <2>9. ASSUME NEW x \in Channels PROVE Members(x)' \subseteq Members(x)
    BY <2>7, <2>8
  <2> QED BY <2>7, <2>9
<1> QED BY <1>1, <1>2, <1>3, <1>4

\* A queue is a part of an earlier one, or of a list.
LEMMA QueueParts ==
  ASSUME IInv, Once, Jobs, NEW w \in Workers, handler[w].pc # "idle", NEW g \in Handler,
         Shifts(handler[w], g)
  PROVE  /\ IsInjective(g.queue)
         /\ \A c \in ToSet(g.queue) :
              c \in ToSet(handler[w].queue) \/ \E ch \in Channels : c \in Members(ch)
<1> DEFINE h == handler[w]
<1>1. IsInjective(h.queue) /\ h.queue \in Seq(Connections)
  BY Job DEF Once
<1>2. CASE g.queue = h.queue
  BY <1>1, <1>2
<1>3. CASE g.queue = <<>>
  BY <1>3, EmptyList
<1>4. CASE h.queue # <<>> /\ g.queue = Tail(h.queue)
  <2> HIDE DEF h
  <2>1. ToSet(g.queue) = ToSet(h.queue) \ {Head(h.queue)} /\ IsInjective(g.queue)
    BY <1>1, <1>4, TailList
  <2> QED BY <2>1 DEF h
<1>5. CASE /\ h.channelId \in Channels /\ channel[h.channelId] # None
           /\ g.queue = channel[h.channelId].connections
  BY <1>5 DEF Once, Members
<1> QED BY <1>2, <1>3, <1>4, <1>5 DEF Shifts

LEMMA OnceKept ==
  ASSUME Once, Injective', handler \in [Workers -> Handler],
         \A c \in Connections : Joinable(c)' => Joinable(c),
         \A x \in Channels : Members(x)' \subseteq Members(x),
         \A v \in Workers : IsInjective(handler'[v].queue),
         \A v \in Workers : \A c \in ToSet(handler'[v].queue) :
            \/ c \in ToSet(handler[v].queue)
            \/ \E ch \in Channels : c \in Members(ch)
  PROVE  Once'
<1>1. (\A ch \in Channels : channel[ch] # None => IsInjective(channel[ch].connections))'
  BY DEF Injective
<1>2. (\A w \in Workers : IsInjective(handler[w].queue))'
  OBVIOUS
<1>3. (\A c \in Connections, x, y \in Channels : c \in Members(x) /\ c \in Members(y) => x = y)'
  BY DEF Once
<1>4. ASSUME NEW c \in Connections, Joinable(c)'
      PROVE  /\ \A ch \in Channels : c \notin Members(ch)'
             /\ \A w \in Workers : c \notin ToSet(handler'[w].queue)
  <2>1. Joinable(c)
    BY <1>4
  <2>2. /\ \A ch \in Channels : c \notin Members(ch)
        /\ \A w \in Workers : c \notin ToSet(handler[w].queue)
    BY <2>1 DEF Once
  <2> QED BY <2>2
<1> QED BY <1>1, <1>2, <1>3, <1>4 DEF Once

LEMMA OnceJoined ==
  ASSUME Once, Injective', NEW j \in Connections, Joinable(j), NEW x \in Channels,
         \A c \in Connections : Joinable(c)' => Joinable(c) /\ c # j,
         Members(x)' \subseteq Members(x) \cup {j},
         \A y \in Channels \ {x} : Members(y)' = Members(y),
         \A v \in Workers : handler'[v].queue = handler[v].queue
  PROVE  Once'
<1>1. (\A ch \in Channels : channel[ch] # None => IsInjective(channel[ch].connections))'
  BY DEF Injective
<1>2. (\A w \in Workers : IsInjective(handler[w].queue))'
  BY DEF Once
<1>3. \A y \in Channels : j \notin Members(y)
  BY DEF Once
<1>4. (\A c \in Connections, y, z \in Channels : c \in Members(y) /\ c \in Members(z) => y = z)'
  BY <1>3 DEF Once
<1>5. ASSUME NEW c \in Connections, Joinable(c)'
      PROVE  /\ \A ch \in Channels : c \notin Members(ch)'
             /\ \A w \in Workers : c \notin ToSet(handler'[w].queue)
  <2>1. Joinable(c) /\ c # j
    BY <1>5
  <2>2. /\ \A ch \in Channels : c \notin Members(ch)
        /\ \A w \in Workers : c \notin ToSet(handler[w].queue)
    BY <2>1 DEF Once
  <2> QED BY <2>1, <2>2
<1> QED BY <1>1, <1>2, <1>4, <1>5 DEF Once

-----------------------------------------------------------------------------
(***************************************************************************)
(* One list, and up to date: OneChannel and UpToDate.                      *)
(***************************************************************************)
\* A step that delivers, acknowledges and sends nothing, where only connections
\* that are not open yet join a list and every relay goes on to who is open.
Calm ==
  /\ got' = got /\ acked' = acked /\ sent' = sent
  /\ \A c \in Connections : socket'[c] = "open" => socket[c] = "open" \/ Young(c)
  /\ \A c \in Connections, ch \in Channels : c \in Members(ch)' => c \in Members(ch) \/ Joinable(c)
  /\ \A c \in Connections : lookup'[c] \in {None, lookup[c]} \/ Young(c)
  /\ \A e \in events' : e.kind = "message" => e \in events
  /\ \A w \in Workers : Onward(handler[w], handler'[w])

\* A frame of s is in flight, so s has been open.
LEMMA Grown ==
  ASSUME IInv, Jobs, Flights, Quiet
  PROVE  /\ \A w \in Workers : handler[w].kind = "message" =>
              handler[w].conn \in Connections /\ ~Young(handler[w].conn)
         /\ \A e \in events : e.kind = "message" => e.conn \in Connections /\ ~Young(e.conn)
         /\ \A c, s \in Connections : got[c][s] # <<>> => ~Young(c) /\ ~Young(s)
<1>1. ASSUME NEW w \in Workers, handler[w].kind = "message"
      PROVE  handler[w].conn \in Connections /\ ~Young(handler[w].conn)
  <2>1. handler[w].pc # "idle"
    BY <1>1 DEF Jobs, Labelled, Relaying, CleaningUp
  <2> QED BY <1>1, <2>1, Job DEF Flights, InFlight
<1>2. ASSUME NEW e \in events, e.kind = "message"
      PROVE  e.conn \in Connections /\ ~Young(e.conn)
  BY <1>2 DEF IInv, TypeOK, Event, Flights, InFlight
<1>3. ASSUME NEW c \in Connections, NEW s \in Connections, got[c][s] # <<>>
      PROVE  ~Young(c) /\ ~Young(s)
  BY <1>3 DEF Quiet
<1> QED BY <1>1, <1>2, <1>3

\* Who may still join has not been open.
LEMMA JoinableYoung ==
  ASSUME IInv, Jobs, Flights, NEW c \in Connections, Joinable(c)
  PROVE  Young(c)
<1>1. CASE socket[c] = "new"
  BY <1>1 DEF Young
<1>2. CASE \E e \in events : e.kind = "connect" /\ e.conn = c
  BY <1>2 DEF Flights, InFlight, Young
<1>3. CASE \E w \in Workers : handler[w].pc \in Joining /\ handler[w].conn = c
  <2> PICK w \in Workers : handler[w].pc \in Joining /\ handler[w].conn = c
    BY <1>3
  <2>1. handler[w].kind = "connect"
    BY Job DEF Joining
  <2> QED BY <2>1 DEF Flights, InFlight, Young
<1> QED BY <1>1, <1>2, <1>3 DEF Joinable

\* A connection that received is not open or on a list that it was not before.
LEMMA CalmReach ==
  ASSUME IInv, Jobs, Flights, Calm, NEW c \in Connections, ~Young(c)
  PROVE  /\ socket'[c] = "open" => socket[c] = "open"
         /\ \A ch \in Channels : c \in Members(ch)' => c \in Members(ch)
         /\ Reach(c)' => Reach(c)
         /\ lookup'[c] \in {None, lookup[c]}
<1>1. ~Joinable(c)
  BY JoinableYoung
<1> QED BY <1>1 DEF Calm, Reach

\* Where a message came from in a calm step.
LEMMA CalmMessage ==
  ASSUME IInv, Jobs, Flights, Quiet, Calm, NEW w \in Workers, NEW g,
         g = handler'[w], g.kind = "message"
  PROVE  /\ g.conn \in Connections /\ ~Young(g.conn)
         /\ \/ g = handler[w]
            \/ Eases(handler[w], g) /\ handler[w].kind = "message" /\ handler[w].conn = g.conn
            \/ /\ g.pc = "find" /\ g.queue = <<>>
               /\ \E e \in events : e.kind = "message" /\ e.conn = g.conn
BY Grown DEF Calm, Onward, Eases, SameJob

LEMMA CalmOneChannel ==
  ASSUME IInv, Jobs, Flights, Quiet, Once, OneChannel, Calm,
         \A w \in Workers : handler'[w].pc = "count" => handler'[w].kind = "message"
  PROVE  OneChannel'
<1>1. ASSUME NEW c \in Connections, NEW s \in Connections, Linked(c, s)'
      PROVE  Linked(c, s) /\ ~Young(s)
  <2>1. CASE got'[c][s] # <<>>
    BY <2>1, Grown DEF Linked, Calm
  <2>2. CASE \E w \in Workers : /\ handler'[w].kind = "message" /\ handler'[w].conn = s
                                /\ c \in ToSet(handler'[w].queue)
    <3> PICK w \in Workers : /\ handler'[w].kind = "message" /\ handler'[w].conn = s
                             /\ c \in ToSet(handler'[w].queue)
      BY <2>2
    <3> PICK g : g = handler'[w]
      OBVIOUS
    <3>1. /\ ~Young(s)
          /\ \/ g = handler[w]
             \/ Eases(handler[w], g) /\ handler[w].kind = "message" /\ handler[w].conn = s
             \/ g.queue = <<>>
      BY CalmMessage
    <3> QED BY <3>1, EmptyList DEF Linked, Eases
  <2> QED BY <1>1, <2>1, <2>2 DEF Linked
<1>2. ASSUME NEW c \in Connections, NEW s \in Connections, NEW ch \in Channels,
             Linked(c, s)', c \in Members(ch)'
      PROVE  lookup'[s] \in {None, ch}
  <2>1. Linked(c, s) /\ ~Young(s)
    BY <1>1, <1>2
  <2>2. lookup'[s] \in {None, lookup[s]}
    BY <2>1, CalmReach
  <2>3. CASE c \in Members(ch)
    BY <2>1, <2>2, <2>3 DEF OneChannel
  <2>4. ~Joinable(c)
    <3>1. Joinable(c) => got[c][s] = <<>>
      BY JoinableYoung DEF Quiet
    <3>2. Joinable(c) => \A w \in Workers : c \notin ToSet(handler[w].queue)
      BY DEF Once
    <3> QED BY <2>1, <3>1, <3>2 DEF Linked
  <2> QED BY <1>2, <2>3, <2>4 DEF Calm
<1>3. ASSUME NEW w \in Workers, handler'[w].pc = "count"
      PROVE  /\ lookup'[handler'[w].conn] \in {None, handler'[w].channelId}
             /\ \A c \in Connections, ch \in Channels :
                  got'[c][handler'[w].conn] # <<>> /\ c \in Members(ch)'
                    => ch = handler'[w].channelId
  <2> PICK g : g = handler'[w]
    OBVIOUS
  <2> PICK s : s = g.conn
    OBVIOUS
  <2>1. /\ s \in Connections /\ ~Young(s) /\ g.pc = "count"
        /\ g = handler[w] \/ (g.channelId = lookup[s] /\ lookup[s] # None)
    BY <1>3, CalmMessage DEF Eases
  <2>2. lookup'[s] \in {None, lookup[s]} /\ got' = got
    BY <2>1, CalmReach DEF Calm
  <2>3. ASSUME NEW c \in Connections, got[c][s] # <<>>
        PROVE  Linked(c, s) /\ \A ch \in Channels : c \in Members(ch)' => c \in Members(ch)
    BY <2>1, <2>3, Grown, CalmReach DEF Linked
  <2>4. CASE g = handler[w]
    BY <2>1, <2>2, <2>3, <2>4 DEF OneChannel
  <2>5. CASE g.channelId = lookup[s] /\ lookup[s] # None
    BY <2>1, <2>2, <2>3, <2>5 DEF OneChannel
  <2> QED BY <2>1, <2>4, <2>5
<1> QED BY <1>2, <1>3 DEF OneChannel

LEMMA CalmUpToDate ==
  ASSUME IInv, Jobs, Flights, Quiet, UpToDate, Calm
  PROVE  UpToDate'
<1> SUFFICES ASSUME NEW c \in Connections, NEW s \in Connections, got[c][s] # <<>>
             PROVE  /\ Reach(c)' => Behind(c, s)' \/ Level(c, s)'
                    /\ \A e \in events' :
                         Reach(c)' /\ e.kind = "message" /\ e.conn = s => Behind(c, s)'
                    /\ \A w \in Workers : Follows(handler[w], c, s)'
  <2>1. got' = got
    BY DEF Calm
  <2>2. ASSUME NEW c \in Connections, NEW s \in Connections, got[c][s] = <<>>
        PROVE  \A w \in Workers : Follows(handler[w], c, s)'
    BY <2>1, <2>2 DEF Follows
  <2> QED BY <2>1, <2>2 DEF UpToDate
<1>1. /\ ~Young(c)
      /\ socket'[c] = "open" => socket[c] = "open"
      /\ Reach(c)' => Reach(c) /\ socket[c] = "open"
  BY Grown, CalmReach DEF Reach
<1>2. (Behind(c, s)' <=> Behind(c, s)) /\ (Level(c, s)' <=> Level(c, s))
  BY DEF Calm, Behind, Level
<1>3. Reach(c)' => Behind(c, s)' \/ Level(c, s)'
  BY <1>1, <1>2 DEF UpToDate
<1>4. \A e \in events' : Reach(c)' /\ e.kind = "message" /\ e.conn = s => Behind(c, s)'
  BY <1>1, <1>2 DEF UpToDate, Calm
<1>5. ASSUME NEW w \in Workers PROVE Follows(handler[w], c, s)'
  <2> PICK g : g = handler'[w]
    OBVIOUS
  <2> SUFFICES ASSUME g.kind = "message", g.conn = s
               PROVE  /\ g.pc \in {"find", "count"} /\ Reach(c)' => Behind(c, s)
                      /\ g.pc \in Relaying /\ c \in ToSet(g.queue) /\ socket'[c] = "open"
                           => Behind(c, s)
                      /\ g.pc \in Relaying /\ c \notin ToSet(g.queue) /\ Reach(c)'
                           => Level(c, s)
    BY <1>2 DEF Follows
  <2>1. Follows(handler[w], c, s)
    BY DEF UpToDate
  <2>2. CASE g = handler[w]
    BY <1>1, <2>1, <2>2 DEF Follows
  <2>3. CASE Eases(handler[w], g) /\ handler[w].kind = "message" /\ handler[w].conn = s
    <3> PICK h : h = handler[w]
      OBVIOUS
    <3>1. /\ g.pc \in {"find", "count"} => h.pc \in {"find", "count"}
          /\ g.pc \in Relaying => h.pc \in Relaying
          /\ ToSet(g.queue) \subseteq ToSet(h.queue)
          /\ c \in ToSet(h.queue) \ ToSet(g.queue) => c = s \/ socket[c] # "open"
      BY <2>3 DEF Eases
    <3>2. c # s
      BY DEF Quiet
    <3>3. /\ h.pc \in {"find", "count"} /\ Reach(c) => Behind(c, s)
          /\ h.pc \in Relaying /\ c \in ToSet(h.queue) /\ socket[c] = "open" => Behind(c, s)
          /\ h.pc \in Relaying /\ c \notin ToSet(h.queue) /\ Reach(c) => Level(c, s)
      BY <2>1, <2>3 DEF Follows
    <3> QED BY <1>1, <3>1, <3>2, <3>3
  <2>4. CASE /\ g.pc = "find" /\ \E e \in events : e.kind = "message" /\ e.conn = s
    BY <1>1, <2>4 DEF UpToDate, Relaying, CleaningUp
  <2> QED BY <2>2, <2>3, <2>4, CalmMessage
<1> QED BY <1>3, <1>4, <1>5

\* Only one frame of s is in flight.
LEMMA OnlyOne ==
  ASSUME Alone, NEW w \in Workers, handler[w].kind = "message"
  PROVE  /\ \A v \in Workers : handler[v].kind = "message" /\ handler[v].conn = handler[w].conn
              => v = w
         /\ \A e \in events : e.kind = "message" => e.conn # handler[w].conn
BY DEF Alone, Serial

\* The relay starts along a list that holds everyone who received before.
LEMMA CountKeeps ==
  ASSUME IInv, Jobs, Alone, Flights, Quiet, Once, OneChannel, UpToDate,
         NEW w \in Workers, NEW g \in Handler, CountMessage(w), Moves(w, g),
         HasQuota(handler[w].channelId), g.pc \in {"relay", "ack"}, SameJob(g, handler[w]),
         g.queue = channel[handler[w].channelId].connections
  PROVE  OneChannel' /\ UpToDate'
<1> PICK h : h = handler[w]
  OBVIOUS
<1> PICK s : s = h.conn
  OBVIOUS
<1> PICK x : x = h.channelId
  OBVIOUS
<1>1. /\ h.pc = "count" /\ h.kind = "message" /\ s \in Connections /\ x \in Channels
      /\ g.kind = "message" /\ g.conn = s
      /\ handler'[w] = g /\ \A v \in Workers \ {w} : handler'[v] = handler[v]
      /\ UNCHANGED <<lookup, got, socket, acked, sent, events>>
      /\ ToSet(g.queue) = Members(x)
  <2>1. h.pc = "count" /\ s \in Connections /\ x \in Channels /\ h.kind = "message"
    BY Job, Running DEF CountMessage, OnChannel
  <2>2. ToSet(g.queue) = Members(x)
    BY DEF HasQuota, Members
  <2> QED BY <2>1, <2>2 DEF CountMessage, client, Moves, IInv, TypeOK, SameJob
<1>2. \A c \in Connections, ch \in Channels : c \in Members(ch)' => c \in Members(ch)
  BY ShrinkMembers
<1>3. \A c \in Connections : Reach(c)' => Reach(c)
  BY <1>1, <1>2 DEF Reach
<1>4. /\ lookup[s] \in {None, x}
      /\ \A c \in Connections, ch \in Channels :
            got[c][s] # <<>> /\ c \in Members(ch) => ch = x
  BY <1>1 DEF OneChannel
<1>5. OneChannel'
  <2>1. ASSUME NEW c \in Connections, NEW r \in Connections, NEW ch \in Channels,
               Linked(c, r)', c \in Members(ch)'
        PROVE  lookup'[r] \in {None, ch}
    <3>1. CASE Linked(c, r)
      BY <1>1, <1>2, <2>1, <3>1 DEF OneChannel
    <3>2. CASE r = s /\ c \in Members(x)
      <4>1. ch = x
        BY <1>1, <1>2, <2>1, <3>2 DEF Once
      <4> QED BY <1>1, <1>4, <3>2, <4>1
    <3>3. \/ Linked(c, r)
          \/ r = s /\ c \in Members(x)
      <4>1. CASE got'[c][r] # <<>>
        BY <1>1, <4>1 DEF Linked
      <4>2. CASE \E v \in Workers : /\ handler'[v].kind = "message" /\ handler'[v].conn = r
                                    /\ c \in ToSet(handler'[v].queue)
        <5> PICK v \in Workers : /\ handler'[v].kind = "message" /\ handler'[v].conn = r
                                 /\ c \in ToSet(handler'[v].queue)
          BY <4>2
        <5>1. CASE v = w
          BY <1>1, <5>1
        <5>2. CASE v # w
          BY <1>1, <5>2 DEF Linked
        <5> QED BY <5>1, <5>2
      <4> QED BY <2>1, <4>1, <4>2 DEF Linked
    <3> QED BY <3>1, <3>2, <3>3
  <2>2. ASSUME NEW v \in Workers, handler'[v].pc = "count"
        PROVE  /\ lookup'[handler'[v].conn] \in {None, handler'[v].channelId}
               /\ \A c \in Connections, ch \in Channels :
                    got'[c][handler'[v].conn] # <<>> /\ c \in Members(ch)'
                      => ch = handler'[v].channelId
    <3>1. v # w
      BY <1>1, <2>2
    <3>2. handler'[v] = handler[v]
      BY <1>1, <3>1
    <3> QED BY <1>1, <1>2, <2>2, <3>2 DEF OneChannel
  <2> QED BY <2>1, <2>2 DEF OneChannel
<1>6. ASSUME NEW c \in Connections, NEW r \in Connections, got[c][r] # <<>>
      PROVE  /\ Reach(c)' => Behind(c, r)' \/ Level(c, r)'
             /\ \A e \in events' :
                  Reach(c)' /\ e.kind = "message" /\ e.conn = r => Behind(c, r)'
             /\ \A v \in Workers : Follows(handler[v], c, r)'
  <2>1. (Behind(c, r)' <=> Behind(c, r)) /\ (Level(c, r)' <=> Level(c, r))
    BY <1>1 DEF Behind, Level
  <2>2. Reach(c)' => Behind(c, r)' \/ Level(c, r)'
    BY <1>3, <1>6, <2>1 DEF UpToDate
  <2>3. \A e \in events' : Reach(c)' /\ e.kind = "message" /\ e.conn = r => Behind(c, r)'
    BY <1>1, <1>3, <1>6, <2>1 DEF UpToDate
  <2>4. ASSUME NEW v \in Workers PROVE Follows(handler[v], c, r)'
    <3>1. Follows(handler[v], c, r)
      BY DEF UpToDate
    <3>2. CASE v # w
      <4>1. handler'[v] = handler[v] /\ socket' = socket /\ got' = got
        BY <1>1, <3>2
      <4> QED BY <1>3, <2>1, <3>1, <4>1 DEF Follows
    <3>3. CASE v = w /\ r = s
      <4>1. Reach(c) => Behind(c, s)
        BY <1>1, <1>6, <3>1, <3>3 DEF Follows
      <4>2. c \in ToSet(g.queue) /\ socket[c] = "open" => Reach(c)
        BY <1>1 DEF Reach
      <4>3. Reach(c) => c \in ToSet(g.queue)
        BY <1>1, <1>4, <1>6, <3>3 DEF Reach
      <4>4. handler'[v] = g /\ socket' = socket /\ got' = got
        BY <1>1, <3>3
      <4> QED BY <1>3, <2>1, <3>3, <4>1, <4>2, <4>3, <4>4 DEF Follows
    <3>4. CASE v = w /\ r # s
      BY <1>1, <3>4 DEF Follows
    <3> QED BY <3>2, <3>3, <3>4
  <2> QED BY <2>2, <2>3, <2>4
<1>7. UpToDate'
  <2>1. ASSUME NEW c \in Connections, NEW r \in Connections, got[c][r] = <<>>
        PROVE  \A v \in Workers : Follows(handler[v], c, r)'
    BY <1>1, <2>1 DEF Follows
  <2> QED BY <1>1, <1>6, <2>1 DEF UpToDate
<1> QED BY <1>5, <1>7

\* A delivery: its recipient was behind, and is level now.
LEMMA DeliverKeeps ==
  ASSUME Order, NEW w \in Workers, NEW g \in Handler, Deliver(w), Moves(w, g),
         g.pc \in Relaying, SameJob(g, handler[w]),
         Head(handler[w].queue) \in ToSet(handler[w].queue),
         ToSet(g.queue) = ToSet(handler[w].queue) \ {Head(handler[w].queue)}
  PROVE  OneChannel' /\ UpToDate' /\ FramesInOrder' /\ Quiet'
<1> PICK h : h = handler[w]
  OBVIOUS
<1> PICK s : s = h.conn
  OBVIOUS
<1> PICK p : p = Head(h.queue)
  OBVIOUS
<1> PICK n : n = h.frame
  OBVIOUS
<1>1. /\ h.pc = "relay" /\ h.kind = "message" /\ s \in Connections /\ n \in Nat
      /\ g.kind = "message" /\ g.conn = s /\ p \in Connections
      /\ handler'[w] = g /\ \A v \in Workers \ {w} : handler'[v] = handler[v]
      /\ UNCHANGED <<channel, lookup, socket, acked, sent, events>>
      /\ p # s /\ socket[p] = "open"
      /\ got' = [got EXCEPT ![p][s] = Append(@, n)]
  <2>1. h.pc = "relay" /\ h.kind = "message" /\ s \in Connections /\ n \in Nat
        /\ h.queue \in Seq(Connections) /\ h.queue # <<>>
    BY Job DEF Deliver, Sane, Order
  <2>2. p \in Connections
    BY <2>1, HeadTailProperties
  <2> QED BY <2>1, <2>2 DEF Deliver, table, Moves, IInv, TypeOK, SameJob, Order
<1>2. /\ got \in [Connections -> [Connections -> Seq(Nat)]]
      /\ got[p][s] \in Seq(Nat)
  BY <1>1 DEF Order, IInv, TypeOK
<1>3. /\ got'[p][s] = Append(got[p][s], n)
      /\ \A c, r \in Connections : c # p \/ r # s => got'[c][r] = got[c][r]
  BY <1>1, <1>2
<1>5. n = sent[s] /\ sent[s] = acked[s] + 1 /\ ~Young(s)
  BY <1>1 DEF Order, Flights, InFlight
<1>6. p \in ToSet(h.queue) /\ ToSet(g.queue) = ToSet(h.queue) \ {p}
  OBVIOUS
<1>7. h.pc \in Relaying
  BY <1>1 DEF Relaying
<1>8. got[p][s] # <<>> => Last(got[p][s]) = acked[s]
  BY <1>1, <1>6, <1>7 DEF Order, UpToDate, Follows, Behind
<1>4. /\ got'[p][s] # <<>> /\ Last(got'[p][s]) = n
      /\ \A i \in 2 .. Len(got'[p][s]) : got'[p][s][i] = got'[p][s][i - 1] + 1
  <2> PICK old : old = got[p][s]
    OBVIOUS
  <2>1. old \in Seq(Nat) /\ n \in Nat
    BY <1>1, <1>2
  <2>2. \A i \in 2 .. Len(old) : old[i] = old[i - 1] + 1
    BY <1>1 DEF Order, FramesInOrder
  <2>3. old # <<>> => n = Last(old) + 1
    BY <1>5, <1>8
  <2>4. /\ Append(old, n) # <<>> /\ Last(Append(old, n)) = n
        /\ \A i \in 2 .. Len(Append(old, n)) : Append(old, n)[i] = Append(old, n)[i - 1] + 1
    BY ONLY <2>1, <2>2, <2>3, AppendNext, Zenon
  <2>5. ASSUME NEW x, x = Append(old, n)
        PROVE  x # <<>> /\ Last(x) = n /\ \A i \in 2 .. Len(x) : x[i] = x[i - 1] + 1
    BY <2>4, <2>5
  <2> QED BY <1>3, <2>5
<1>9. /\ \A v \in Workers : handler[v].kind = "message" /\ handler[v].conn = s => v = w
      /\ \A e \in events : e.kind = "message" => e.conn # s
  BY <1>1, OnlyOne DEF Order
<1>10. FramesInOrder'
  <2> SUFFICES ASSUME NEW c \in Connections, NEW r \in Connections,
                      NEW i \in 2 .. Len(got'[c][r])
               PROVE  got'[c][r][i] = got'[c][r][i - 1] + 1
    BY DEF FramesInOrder
  <2>1. CASE c # p \/ r # s
    <3>1. got'[c][r] = got[c][r]
      BY <1>3, <2>1
    <3> QED BY <3>1 DEF Order, FramesInOrder
  <2>2. CASE c = p /\ r = s
    BY <1>4, <2>2
  <2> QED BY <2>1, <2>2
<1>11. Quiet'
  <2> SUFFICES ASSUME NEW c \in Connections, NEW r \in Connections
               PROVE  /\ got'[c][c] = <<>>
                      /\ Young(c)' => got'[c][r] = <<>> /\ got'[r][c] = <<>>
    BY DEF Quiet
  <2>1. Young(c)' <=> Young(c)
    BY <1>1 DEF Young
  <2>2. ~Young(p)
    BY <1>1 DEF Young
  <2>3. got'[c][c] = <<>>
    <3>1. c # p \/ c # s
      BY <1>1
    <3>2. got'[c][c] = got[c][c]
      BY <1>3, <3>1
    <3> QED BY <3>2 DEF Quiet, Order
  <2>4. ASSUME Young(c)' PROVE got'[c][r] = <<>> /\ got'[r][c] = <<>>
    <3>1. c # p /\ c # s /\ Young(c)
      BY <1>5, <2>1, <2>2, <2>4
    <3>2. got'[c][r] = got[c][r] /\ got'[r][c] = got[r][c]
      BY <1>3, <3>1
    <3> QED BY <3>1, <3>2 DEF Quiet, Order
  <2> QED BY <2>3, <2>4
<1>12. ASSUME NEW c \in Connections, NEW r \in Connections, Linked(c, r)'
       PROVE  Linked(c, r)
  <2>1. CASE c = p /\ r = s
    BY <1>1, <1>6, <2>1 DEF Linked
  <2>2. CASE got'[c][r] # <<>> /\ ~(c = p /\ r = s)
    BY <1>3, <2>2 DEF Linked
  <2>3. CASE \E v \in Workers : /\ handler'[v].kind = "message" /\ handler'[v].conn = r
                                /\ c \in ToSet(handler'[v].queue)
    <3> PICK v \in Workers : /\ handler'[v].kind = "message" /\ handler'[v].conn = r
                             /\ c \in ToSet(handler'[v].queue)
      BY <2>3
    <3>1. CASE v = w
      BY <1>1, <1>6, <3>1 DEF Linked
    <3>2. CASE v # w
      BY <1>1, <3>2 DEF Linked
    <3> QED BY <3>1, <3>2
  <2> QED BY <1>12, <2>1, <2>2, <2>3 DEF Linked
<1>13. OneChannel'
  <2>1. ASSUME NEW c \in Connections, NEW r \in Connections, NEW ch \in Channels,
               Linked(c, r)', c \in Members(ch)'
        PROVE  lookup'[r] \in {None, ch}
    BY <1>1, <1>12, <2>1 DEF OneChannel, Order, Members
  <2>2. ASSUME NEW v \in Workers, handler'[v].pc = "count"
        PROVE  /\ lookup'[handler'[v].conn] \in {None, handler'[v].channelId}
               /\ \A c \in Connections, ch \in Channels :
                    got'[c][handler'[v].conn] # <<>> /\ c \in Members(ch)'
                      => ch = handler'[v].channelId
    <3>1. v # w
      BY <1>1, <2>2 DEF Relaying, CleaningUp
    <3>2. handler'[v] = handler[v]
      BY <1>1, <3>1
    <3>3. handler[v].kind = "message" /\ handler[v].conn \in Connections
      BY <2>2, <3>2, Job DEF Order
    <3>4. \A c \in Connections : got'[c][handler[v].conn] = got[c][handler[v].conn]
      BY <1>3, <1>9, <3>1, <3>3
    <3>5. \A ch \in Channels : Members(ch)' = Members(ch)
      BY <1>1 DEF Members
    <3>6. /\ lookup[handler[v].conn] \in {None, handler[v].channelId}
          /\ \A c \in Connections, ch \in Channels :
               got[c][handler[v].conn] # <<>> /\ c \in Members(ch)
                 => ch = handler[v].channelId
      BY <2>2, <3>2 DEF OneChannel, Order
    <3>7. lookup' = lookup
      BY <1>1
    <3> QED BY <3>2, <3>4, <3>5, <3>6, <3>7
  <2> QED BY <2>1, <2>2 DEF OneChannel
<1>14. ASSUME NEW c \in Connections, NEW r \in Connections, got'[c][r] # <<>>
       PROVE  /\ Reach(c)' => Behind(c, r)' \/ Level(c, r)'
              /\ \A e \in events' :
                   Reach(c)' /\ e.kind = "message" /\ e.conn = r => Behind(c, r)'
              /\ \A v \in Workers : Follows(handler[v], c, r)'
  <2>0. Reach(c)' <=> Reach(c)
    BY <1>1 DEF Reach, Members
  <2>1. CASE c = p /\ r = s
    <3>1. Level(c, r)'
      BY <1>1, <1>4, <1>5, <2>1 DEF Level
    <3>2. \A e \in events' : ~(e.kind = "message" /\ e.conn = r)
      BY <1>1, <1>9, <2>1
    <3>3. ASSUME NEW v \in Workers PROVE Follows(handler[v], c, r)'
      <4>1. CASE v = w
        <5>1. c \notin ToSet(g.queue) /\ g.pc \notin {"find", "count"}
          BY <1>6, <2>1 DEF Relaying, CleaningUp
        <5>2. handler'[v] = g
          BY <1>1, <4>1
        <5> QED BY <3>1, <5>1, <5>2 DEF Follows
      <4>2. CASE v # w
        <5>1. handler'[v] = handler[v] /\ ~(handler[v].kind = "message" /\ handler[v].conn = r)
          BY <1>1, <1>9, <2>1, <4>2
        <5> QED BY <5>1 DEF Follows
      <4> QED BY <4>1, <4>2
    <3> QED BY <3>1, <3>2, <3>3
  <2>2. CASE c # p \/ r # s
    <3>1. got'[c][r] = got[c][r]
      BY <1>3, <2>2
    <3>2. (Behind(c, r)' <=> Behind(c, r)) /\ (Level(c, r)' <=> Level(c, r))
      BY <1>1, <3>1 DEF Behind, Level
    <3>3. /\ Reach(c) => Behind(c, r) \/ Level(c, r)
          /\ \A e \in events : Reach(c) /\ e.kind = "message" /\ e.conn = r => Behind(c, r)
          /\ \A v \in Workers : Follows(handler[v], c, r)
      BY <1>14, <3>1 DEF UpToDate, Order
    <3>4. ASSUME NEW v \in Workers PROVE Follows(handler[v], c, r)'
      <4>1. CASE v # w
        <5>1. handler'[v] = handler[v] /\ socket' = socket
          BY <1>1, <4>1
        <5> QED BY <2>0, <3>1, <3>2, <3>3, <5>1 DEF Follows
      <4>2. CASE v = w /\ r = s
        <5>1. /\ handler'[v] = g /\ socket' = socket
              /\ c \in ToSet(g.queue) <=> c \in ToSet(h.queue)
              /\ g.pc \notin {"find", "count"}
          BY <1>1, <1>6, <2>2, <4>2 DEF Relaying, CleaningUp
        <5>2. /\ c \in ToSet(h.queue) /\ socket[c] = "open" => Behind(c, r)
              /\ c \notin ToSet(h.queue) /\ Reach(c) => Level(c, r)
          BY <1>1, <1>7, <1>14, <3>1, <3>3, <4>2 DEF Follows
        <5> QED BY <2>0, <3>2, <5>1, <5>2 DEF Follows
      <4>3. CASE v = w /\ r # s
        BY <1>1, <4>3 DEF Follows
      <4> QED BY <4>1, <4>2, <4>3
    <3> QED BY <1>1, <2>0, <3>2, <3>3, <3>4
  <2> QED BY <2>1, <2>2
<1>15. UpToDate'
  <2>1. ASSUME NEW c \in Connections, NEW r \in Connections, got'[c][r] = <<>>
        PROVE  \A v \in Workers : Follows(handler[v], c, r)'
    BY <2>1 DEF Follows
  <2> QED BY <1>14, <2>1 DEF UpToDate
<1> QED BY <1>10, <1>11, <1>13, <1>15

\* The ack: the relay is over, so everyone has what was sent.
LEMMA AckKeeps ==
  ASSUME Order, NEW w \in Workers, Ack(w), socket[handler[w].conn] = "open"
  PROVE  OneChannel' /\ UpToDate'
<1> PICK h : h = handler[w]
  OBVIOUS
<1> PICK s : s = h.conn
  OBVIOUS
<1>1. /\ h.pc = "ack" /\ h.kind = "message" /\ s \in Connections /\ h.queue = <<>>
      /\ handler'[w] = Idle /\ \A v \in Workers \ {w} : handler'[v] = handler[v]
      /\ UNCHANGED <<channel, lookup, socket, got, sent, events>>
      /\ acked' = [acked EXCEPT ![s] = h.frame]
  <2>1. h.pc = "ack" /\ h.kind = "message" /\ s \in Connections /\ h.queue = <<>>
    BY Job DEF Ack, Order, Labelled
  <2> QED BY <2>1 DEF Ack, Done, Goto, table, Order, IInv, TypeOK
<1>2. acked'[s] = sent[s] /\ \A r \in Connections \ {s} : acked'[r] = acked[r]
  BY <1>1 DEF Order, Flights, InFlight, IInv, TypeOK
<1>3. \A v \in Workers : handler'[v].kind = "message" =>
        handler'[v] = handler[v] /\ handler[v].conn # s
  BY <1>1, OnlyOne, IdleLabelled DEF Order
<1>4. \A e \in events : e.kind = "message" => e.conn # s
  BY <1>1, OnlyOne DEF Order
<1>5. \A ch \in Channels : Members(ch)' = Members(ch)
  BY <1>1 DEF Members
<1>6. \A c \in Connections : Reach(c)' <=> Reach(c)
  BY <1>1, <1>5 DEF Reach
<1>7. OneChannel'
  <2>1. \A c, r \in Connections : Linked(c, r)' => Linked(c, r)
    BY <1>1, <1>3 DEF Linked
  <2>2. ASSUME NEW v \in Workers, handler'[v].pc = "count"
        PROVE  handler'[v] = handler[v]
    BY <1>1, <2>2, IdleLabelled
  <2>3. \A c, r \in Connections, ch \in Channels :
          Linked(c, r)' /\ c \in Members(ch)' => lookup'[r] \in {None, ch}
    BY <1>1, <1>5, <2>1 DEF Order, OneChannel
  <2>4. ASSUME NEW v \in Workers, handler'[v].pc = "count"
        PROVE  /\ lookup'[handler'[v].conn] \in {None, handler'[v].channelId}
               /\ \A c \in Connections, ch \in Channels :
                    got'[c][handler'[v].conn] # <<>> /\ c \in Members(ch)'
                      => ch = handler'[v].channelId
    BY <1>1, <1>5, <2>2, <2>4 DEF Order, OneChannel
  <2> QED BY <2>3, <2>4 DEF OneChannel
<1>8. ASSUME NEW c \in Connections, NEW r \in Connections, got[c][r] # <<>>
      PROVE  /\ Reach(c)' => Behind(c, r)' \/ Level(c, r)'
             /\ \A e \in events' :
                  Reach(c)' /\ e.kind = "message" /\ e.conn = r => Behind(c, r)'
             /\ \A v \in Workers : Follows(handler[v], c, r)'
  <2>1. CASE r = s
    <3>1. Reach(c) => Level(c, s)
      <4>1. Follows(h, c, s) /\ h.pc \in Relaying /\ c \notin ToSet(h.queue)
        BY <1>1, <2>1, EmptyList DEF Order, UpToDate, Relaying
      <4> QED BY <1>1, <1>8, <2>1, <4>1 DEF Follows
    <3>2. Reach(c)' => Behind(c, s)'
      BY <1>1, <1>2, <1>6, <3>1 DEF Level, Behind
    <3>3. \A v \in Workers : Follows(handler[v], c, s)'
      BY <1>3 DEF Follows
    <3> QED BY <1>1, <1>4, <2>1, <3>2, <3>3
  <2>2. CASE r # s
    <3>1. (Behind(c, r)' <=> Behind(c, r)) /\ (Level(c, r)' <=> Level(c, r))
      BY <1>1, <1>2, <2>2 DEF Behind, Level
    <3>2. /\ Reach(c) => Behind(c, r) \/ Level(c, r)
          /\ \A e \in events : Reach(c) /\ e.kind = "message" /\ e.conn = r => Behind(c, r)
          /\ \A v \in Workers : Follows(handler[v], c, r)
      BY <1>8 DEF Order, UpToDate
    <3>3. ASSUME NEW v \in Workers PROVE Follows(handler[v], c, r)'
      <4>1. CASE handler'[v].kind = "message"
        <5>1. handler'[v] = handler[v] /\ socket' = socket /\ got' = got
          BY <1>1, <1>3, <4>1
        <5> QED BY <1>6, <3>1, <3>2, <5>1 DEF Follows
      <4>2. CASE handler'[v].kind # "message"
        BY <4>2 DEF Follows
      <4> QED BY <4>1, <4>2
    <3> QED BY <1>1, <1>6, <3>1, <3>2, <3>3
  <2> QED BY <2>1, <2>2
<1>9. UpToDate'
  <2>1. ASSUME NEW c \in Connections, NEW r \in Connections, got'[c][r] = <<>>
        PROVE  \A v \in Workers : Follows(handler[v], c, r)'
    BY <2>1 DEF Follows
  <2> QED BY <1>1, <1>8, <2>1 DEF UpToDate
<1> QED BY <1>7, <1>9

\* The next frame: nothing is in flight, so everyone has what was sent before.
LEMMA SendKeeps ==
  ASSUME Order, NEW s \in Connections, Send(s)
  PROVE  Order'
<1>1. PICK n : n = sent[s] + 1
  OBVIOUS
<1> PICK e : e = [kind |-> "message", conn |-> s, channelId |-> None, frame |-> n]
  OBVIOUS
<1>2. /\ socket[s] = "open" /\ sent[s] = acked[s] /\ sent' = [sent EXCEPT ![s] = n]
      /\ events' = events \cup {e} /\ e.kind = "message" /\ e.conn = s /\ e.frame = n
      /\ UNCHANGED <<channel, lookup, socket, acked, got, handler>>
  BY <1>1 DEF Send, NewEvent, table
<1>3. IInv /\ IInv'
  <2>1. IInv
    BY DEF Order
  <2> QED BY <2>1, ClientStep
<1>4. sent'[s] = n /\ n = acked[s] + 1 /\ \A r \in Connections \ {s} : sent'[r] = sent[r]
  BY <1>1, <1>2, <1>3 DEF IInv, TypeOK
<1>5. sent \in [Connections -> Nat] /\ acked \in [Connections -> Nat]
  BY <1>3 DEF IInv, TypeOK
<1>6. /\ \A x \in events : x.kind = "message" => x.conn # s
      /\ \A w \in Workers : handler[w].kind = "message" => handler[w].conn # s
  BY <1>2, <1>5 DEF Order, Flights, InFlight
<1>7. Jobs' /\ Quiet' /\ FramesInOrder'
  BY <1>2 DEF Order, Jobs, Quiet, Young, FramesInOrder
<1>8. Alone'
  BY <1>2, <1>6 DEF Order, Alone
<1>9. Flights'
  <2>1. ASSUME NEW x, x.kind = "message" => x.conn \in Connections /\ x.conn # s, InFlight(x)
        PROVE  InFlight(x)'
    BY <1>2, <1>4, <2>1 DEF InFlight, Young
  <2>2. InFlight(e)'
    BY <1>2, <1>4 DEF InFlight, Young
  <2>3. ASSUME NEW x \in events PROVE InFlight(x)'
    BY <1>3, <1>6, <2>1 DEF Order, Flights, IInv, TypeOK, Event
  <2>4. ASSUME NEW w \in Workers PROVE InFlight(handler[w])'
    <3> PICK x : x = handler[w]
      OBVIOUS
    <3>1. x.kind = "message" => x.conn \in Connections /\ x.conn # s
      BY <1>3, <1>6, Grown DEF Order
    <3>2. InFlight(x)'
      BY <2>1, <3>1 DEF Order, Flights
    <3>3. handler' = handler
      BY <1>2
    <3> QED BY <3>2, <3>3 DEF InFlight, Young
  <2> QED BY <1>2, <2>2, <2>3, <2>4 DEF Flights
<1>10. Once'
  <2>1. \A c \in Connections : Joinable(c)' => Joinable(c)
    BY <1>2 DEF Joinable
  <2>2. Injective' /\ \A x \in Channels : Members(x)' = Members(x)
    BY <1>2 DEF Order, Once, Injective, Members
  <2>3. Once /\ handler \in [Workers -> Handler] /\ handler' = handler
    BY <1>2, <1>3 DEF Order, IInv, TypeOK
  <2>4. \A v \in Workers : IsInjective(handler'[v].queue)
    BY <2>3 DEF Once
  <2> QED BY <2>1, <2>2, <2>3, <2>4, OnceKept
<1>11. OneChannel'
  BY <1>2 DEF Order, OneChannel, Linked, Members
<1>12. UpToDate'
  <2> SUFFICES ASSUME NEW c \in Connections, NEW r \in Connections, got[c][r] # <<>>
               PROVE  /\ Reach(c)' => Behind(c, r)' \/ Level(c, r)'
                      /\ \A x \in events' :
                           Reach(c)' /\ x.kind = "message" /\ x.conn = r => Behind(c, r)'
                      /\ \A v \in Workers : Follows(handler[v], c, r)'
    BY <1>2 DEF UpToDate, Follows
  <2>1. (Reach(c)' <=> Reach(c)) /\ (Behind(c, r)' <=> Behind(c, r))
        /\ (r # s => (Level(c, r)' <=> Level(c, r)))
    BY <1>2, <1>4 DEF Reach, Members, Behind, Level
  <2>2. /\ Reach(c) => Behind(c, r) \/ Level(c, r)
        /\ \A x \in events : Reach(c) /\ x.kind = "message" /\ x.conn = r => Behind(c, r)
        /\ \A v \in Workers : Follows(handler[v], c, r)
    BY DEF Order, UpToDate
  <2>3. r = s => (Reach(c) => Behind(c, r))
    BY <1>2, <2>2 DEF Behind, Level
  <2>4. ASSUME NEW v \in Workers PROVE Follows(handler[v], c, r)'
    <3>1. handler' = handler /\ socket' = socket /\ got' = got
      BY <1>2
    <3>2. CASE r = s
      BY <1>6, <3>1, <3>2 DEF Follows
    <3>3. CASE r # s
      BY <2>1, <2>2, <3>1, <3>3 DEF Follows
    <3> QED BY <3>2, <3>3
  <2> QED BY <1>2, <2>1, <2>2, <2>3, <2>4
<1>13. \A r \in Connections : acked'[r] <= sent'[r]
  <2>1. acked' = acked /\ acked[s] <= sent'[s]
    BY <1>2, <1>4, <1>5
  <2> QED BY <1>4, <2>1 DEF Order
<1> QED BY <1>3, <1>7, <1>8, <1>9, <1>10, <1>11, <1>12, <1>13 DEF Order

\* Any other step that is calm.
LEMMA CalmKeeps ==
  ASSUME Order, Calm, Ages, Jobs', Alone', Flights', Once', IInv'
  PROVE  Order'
<1>1. Quiet' /\ FramesInOrder' /\ \A s \in Connections : acked'[s] <= sent'[s]
  BY DEF Order, Calm, Quiet, Ages, FramesInOrder
<1>2. \A w \in Workers : handler'[w].pc = "count" => handler'[w].kind = "message"
  <2> SUFFICES ASSUME NEW w \in Workers, handler'[w].pc = "count"
               PROVE  handler'[w].kind = "message"
    OBVIOUS
  <2>1. handler'[w].kind \in Kinds \cup {"none"}
    BY DEF IInv, TypeOK, Handler
  <2> QED BY <2>1 DEF Jobs, Labelled, Kinds, Joining, CleaningUp
<1>3. OneChannel' /\ UpToDate'
  BY <1>2, CalmOneChannel, CalmUpToDate DEF Order
<1> QED BY <1>1, <1>3 DEF Order

-----------------------------------------------------------------------------
(***************************************************************************)
(* Every step keeps the order.                                             *)
(***************************************************************************)
\* A handler step but a delivery, a relay that starts, and an ack.
LEMMA HandleCalm ==
  ASSUME Order, IInv', NEW w \in Workers, NEW g \in Handler, Moves(w, g), Outside(w, g),
         Onward(handler[w], g), got' = got, acked' = acked,
         \A c \in Connections, ch \in Channels :
            c \in Members(ch)' => c \in Members(ch) \/ Joinable(c),
         \A c \in Connections : lookup'[c] \in {None, lookup[c]} \/ Young(c),
         Once'
  PROVE  Order'
<1>1. Jobs' /\ Alone' /\ Flights' /\ Ages
  BY StepKeeps DEF Order
<1>2. \A v \in Workers : Onward(handler[v], handler'[v])
  <2>1. handler'[w] = g /\ \A v \in Workers \ {w} : handler'[v] = handler[v]
    BY DEF Moves, Order, IInv, TypeOK
  <2> QED BY <2>1 DEF Onward
<1>3. Calm
  BY <1>1, <1>2 DEF Calm, Ages, Outside
<1> QED BY <1>1, <1>3, CalmKeeps

LEMMA StepOnce ==
  ASSUME Order, NEW w \in Workers, NEW g \in Handler, Moves(w, g), Outside(w, g),
         Shifts(handler[w], g), Injective',
         \A x \in Channels : Members(x)' \subseteq Members(x)
  PROVE  Once'
<1>1. /\ handler \in [Workers -> Handler] /\ handler[w].pc # "idle"
      /\ handler'[w] = g /\ \A v \in Workers \ {w} : handler'[v] = handler[v]
  BY DEF Moves, Order, IInv, TypeOK
<1>2. \A c \in Connections : Joinable(c)' => Joinable(c)
  BY StepKeeps DEF Order
<1>3. /\ IsInjective(g.queue)
      /\ \A c \in ToSet(g.queue) :
           c \in ToSet(handler[w].queue) \/ \E ch \in Channels : c \in Members(ch)
  BY <1>1, QueueParts DEF Order
<1>4. \A v \in Workers : IsInjective(handler'[v].queue)
  BY <1>1, <1>3 DEF Order, Once
<1>5. \A v \in Workers : \A c \in ToSet(handler'[v].queue) :
         c \in ToSet(handler[v].queue) \/ \E ch \in Channels : c \in Members(ch)
  BY <1>1, <1>3
<1> QED BY <1>1, <1>2, <1>4, <1>5, OnceKept DEF Order

\* Steps that change no list but by taking someone off.
LEMMA PlainOrder ==
  ASSUME Order, IInv', NEW w \in Workers, NEW g \in Handler, Moves(w, g), Outside(w, g),
         Shifts(handler[w], g), Onward(handler[w], g),
         got' = got, acked' = acked, Injective',
         \A x \in Channels : Members(x)' \subseteq Members(x),
         \A c \in Connections : lookup'[c] \in {None, lookup[c]} \/ Young(c)
  PROVE  Order'
<1>1. Once'
  BY StepOnce
<1> QED BY <1>1, HandleCalm

LEMMA ConnectOrder ==
  ASSUME Order, IInv', NEW w \in Workers,
         CreateChannel(w) \/ JoinChannel(w) \/ PutLookup(w) \/ SchedulePost(w)
  PROVE  Order'
<1> PICK j : j = handler[w].conn
  OBVIOUS
<1>1. PICK g \in Handler : /\ Moves(w, g) /\ Onward(handler[w], g) /\ Shifts(handler[w], g)
                           /\ g = Idle \/ g.queue = handler[w].queue
  BY ConnectMoves DEF Order
<1>2. Outside(w, g)
  BY <1>1, HandleOutside DEF Order, Handle
<1>3. got' = got /\ acked' = acked
  BY DEF CreateChannel, JoinChannel, PutLookup, SchedulePost, client
<1>4. /\ handler[w].kind = "connect" /\ j \in Connections
      /\ handler[w].pc # "idle"
  BY Job DEF CreateChannel, JoinChannel, PutLookup, SchedulePost, Joining, Order
<1>5. Young(j)
  BY <1>4 DEF Order, Flights, InFlight, Young
<1>6. \A c \in Connections : lookup'[c] \in {None, lookup[c]} \/ Young(c)
  BY <1>4, <1>5 DEF CreateChannel, JoinChannel, PutLookup, SchedulePost, Order, IInv,
     TypeOK, table
<1>7. CASE CreateChannel(w) \/ (JoinChannel(w) /\ HasRoom(handler[w].channelId))
  <2>1. PICK x \in Channels :
           /\ Members(x)' \subseteq Members(x) \cup {j}
           /\ \A y \in Channels \ {x} : Members(y)' = Members(y)
           /\ Injective'
    BY <1>7, JoinMembers DEF Order
  <2>2. handler[w].pc \in Joining
    BY <1>7 DEF CreateChannel, JoinChannel, Joining
  <2>3. Joinable(j)
    BY <1>4, <2>2 DEF Joinable
  <2>4. \A c \in Connections : Joinable(c)' => Joinable(c) /\ c # j
    BY <1>1, <1>2, <2>2, StepKeeps DEF Order
  <2>5. \A v \in Workers : handler'[v].queue = handler[v].queue
    <3>1. g.queue = handler[w].queue
      <4>1. CASE g = Idle
        <5>1. handler'[w].pc = "idle"
          BY <1>1, <4>1, IdleLabelled DEF Moves, Order, IInv, TypeOK
        <5>2. \E k : Goto(w, k) /\ k.pc = "putLookup"
          <6>1. handler[w] \in Handler
            BY <1>4, Job DEF Order
          <6>2. ASSUME NEW ch, NEW k,
                       \/ k = [handler[w] EXCEPT !.channelId = ch, !.pc = "putLookup"]
                       \/ k = [handler[w] EXCEPT !.pc = "putLookup"]
                PROVE  k.pc = "putLookup"
            BY <6>1, <6>2 DEF Handler
          <6>3. CASE CreateChannel(w)
            <7>1. PICK ch \in Channels :
                    Goto(w, [handler[w] EXCEPT !.channelId = ch, !.pc = "putLookup"])
              BY <6>3 DEF CreateChannel
            <7> QED BY <6>2, <7>1
          <6>4. CASE JoinChannel(w) /\ HasRoom(handler[w].channelId)
            <7>1. Goto(w, [handler[w] EXCEPT !.pc = "putLookup"])
              BY <6>4 DEF JoinChannel
            <7> QED BY <6>2, <7>1
          <6> QED BY <1>7, <6>3, <6>4
        <5>3. PICK k : Goto(w, k) /\ k.pc = "putLookup"
          BY <5>2
        <5>4. handler'[w] = k
          BY <5>3 DEF Goto, Order, IInv, TypeOK
        <5> QED BY <5>1, <5>3, <5>4
      <4> QED BY <1>1, <4>1
    <3>2. handler'[w] = g /\ \A v \in Workers \ {w} : handler'[v] = handler[v]
      BY <1>1 DEF Moves, Order, IInv, TypeOK
    <3> QED BY <3>1, <3>2
  <2>6. Once'
    BY <1>4, <2>1, <2>3, <2>4, <2>5, OnceJoined DEF Order
  <2>7. \A c \in Connections, ch \in Channels :
            c \in Members(ch)' => c \in Members(ch) \/ Joinable(c)
    BY <2>1, <2>3
  <2> QED BY <1>1, <1>2, <1>3, <1>6, <2>6, <2>7, HandleCalm
<1>8. CASE UNCHANGED channel
  <2>1. (\A x \in Channels : Members(x)' \subseteq Members(x)) /\ Injective'
    BY <1>8, ShrinkMembers DEF Order
  <2> QED BY <1>1, <1>2, <1>3, <1>6, <2>1, PlainOrder
<1> QED BY <1>7, <1>8 DEF CreateChannel, JoinChannel, PutLookup, SchedulePost, table

LEMMA AnswerOrder ==
  ASSUME Order, IInv', NEW w \in Workers, Refuse(w) \/ PostChannelId(w) \/ Crash(w)
  PROVE  Order'
<1>1. PICK g \in Handler : Moves(w, g) /\ Onward(handler[w], g) /\ Shifts(handler[w], g)
  BY AnswerMoves DEF Order
<1>2. Outside(w, g)
  BY <1>1, HandleOutside DEF Order, Handle
<1>3. UNCHANGED <<got, acked, channel, lookup>>
  BY DEF Refuse, PostChannelId, Crash, table
<1>4. (\A x \in Channels : Members(x)' \subseteq Members(x)) /\ Injective'
  BY <1>3, ShrinkMembers DEF Order
<1> QED BY <1>1, <1>2, <1>3, <1>4, PlainOrder

LEMMA FrameOrder ==
  ASSUME Order, IInv', NEW w \in Workers, FindChannel(w) \/ CountMessage(w)
  PROVE  Order'
<1>1. UNCHANGED <<got, acked, sent, lookup>>
  BY DEF FindChannel, CountMessage, table, client
<1>2. (\A x \in Channels : Members(x)' \subseteq Members(x)) /\ Injective'
  BY ShrinkMembers DEF Order, FindChannel, table
<1>3. ASSUME NEW g \in Handler, Moves(w, g), Onward(handler[w], g), Shifts(handler[w], g)
      PROVE  Order'
  <2>1. Outside(w, g)
    BY <1>3, HandleOutside DEF Order, Handle
  <2> QED BY <1>1, <1>2, <1>3, <2>1, PlainOrder
<1>4. CASE FindChannel(w)
  BY <1>3, <1>4, FindMoves DEF Order
<1>5. CASE CountMessage(w)
  <2>1. PICK g \in Handler :
           /\ Moves(w, g) /\ Shifts(handler[w], g)
           /\ \/ /\ Onward(handler[w], g) /\ channel' = channel
                 /\ g.queue = handler[w].queue
              \/ /\ HasQuota(handler[w].channelId) /\ g.pc \in {"relay", "ack"}
                 /\ SameJob(g, handler[w])
                 /\ g.queue = channel[handler[w].channelId].connections
                 /\ channel' = [channel EXCEPT ![handler[w].channelId].messageCount = @ + 1]
    BY <1>5, CountMoves DEF Order
  <2>2. CASE Onward(handler[w], g)
    BY <1>3, <2>1, <2>2
  <2>3. CASE /\ HasQuota(handler[w].channelId) /\ g.pc \in {"relay", "ack"}
             /\ SameJob(g, handler[w])
             /\ g.queue = channel[handler[w].channelId].connections
    <3>1. OneChannel' /\ UpToDate'
      BY <1>5, <2>1, <2>3, CountKeeps DEF Order
    <3>2. Outside(w, g)
      BY <1>5, <2>1, HandleOutside DEF Order, Handle
    <3>3. Once'
      BY <1>2, <2>1, <3>2, StepOnce
    <3>4. Jobs' /\ Alone' /\ Flights' /\ Ages
      BY <2>1, <3>2, StepKeeps DEF Order
    <3>5. Quiet' /\ FramesInOrder' /\ \A s \in Connections : acked'[s] <= sent'[s]
      BY <1>1, <3>4 DEF Order, Quiet, Ages, FramesInOrder
    <3> QED BY <3>1, <3>3, <3>4, <3>5 DEF Order
  <2> QED BY <2>1, <2>2, <2>3
<1> QED BY <1>4, <1>5

LEMMA NextOrder ==
  ASSUME Order, IInv', NEW w \in Workers, SkipSender(w) \/ Deliver(w) \/ Gone(w)
  PROVE  Order'
<1>1. PICK g \in Handler :
         /\ Moves(w, g) /\ Shifts(handler[w], g)
         /\ g.pc \in Relaying /\ handler[w].pc = "relay" /\ handler[w].kind = "message"
         /\ SameJob(g, handler[w])
         /\ Head(handler[w].queue) \in ToSet(handler[w].queue)
         /\ ToSet(g.queue) = ToSet(handler[w].queue) \ {Head(handler[w].queue)}
         /\ ~Deliver(w) => Onward(handler[w], g)
  BY NextOnward DEF Order
<1>2. Outside(w, g)
  BY <1>1, HandleOutside DEF Order, Handle
<1>3. UNCHANGED <<acked, sent, channel, lookup>>
  BY DEF SkipSender, Deliver, Gone, table, client
<1>4. (\A x \in Channels : Members(x)' \subseteq Members(x)) /\ Injective'
  BY <1>3, ShrinkMembers DEF Order
<1>5. CASE Deliver(w)
  <2>1. OneChannel' /\ UpToDate' /\ FramesInOrder' /\ Quiet'
    BY <1>1, <1>5, DeliverKeeps
  <2>2. Once'
    BY <1>1, <1>2, <1>4, StepOnce
  <2>3. Jobs' /\ Alone' /\ Flights'
    BY <1>1, <1>2, StepKeeps DEF Order
  <2>4. \A s \in Connections : acked'[s] <= sent'[s]
    BY <1>3 DEF Order
  <2> QED BY <2>1, <2>2, <2>3, <2>4 DEF Order
<1>6. CASE ~Deliver(w)
  <2>1. got' = got
    BY <1>6 DEF SkipSender, Gone, client
  <2> QED BY <1>1, <1>2, <1>3, <1>4, <1>6, <2>1, PlainOrder
<1> QED BY <1>5, <1>6

LEMMA AckOrder ==
  ASSUME Order, IInv', NEW w \in Workers, Ack(w)
  PROVE  Order'
<1>1. PICK g \in Handler : Moves(w, g) /\ Onward(handler[w], g) /\ Shifts(handler[w], g)
  BY AckMoves DEF Order
<1>2. Outside(w, g)
  BY <1>1, HandleOutside DEF Order, Handle
<1>3. UNCHANGED <<got, sent, channel, lookup>>
  BY DEF Ack, table
<1>4. (\A x \in Channels : Members(x)' \subseteq Members(x)) /\ Injective'
  BY <1>3, ShrinkMembers DEF Order
<1>5. CASE socket[handler[w].conn] = "open"
  <2>1. OneChannel' /\ UpToDate'
    BY <1>5, AckKeeps
  <2>2. Once'
    BY <1>1, <1>2, <1>4, StepOnce
  <2>3. Jobs' /\ Alone' /\ Flights' /\ Ages
    BY <1>1, <1>2, StepKeeps DEF Order
  <2>4. Quiet' /\ FramesInOrder'
    BY <1>3, <2>3 DEF Order, Quiet, Ages, FramesInOrder
  <2>5. \A s \in Connections : acked'[s] <= sent'[s]
    <3>1. handler[w].kind = "message" /\ handler[w].conn \in Connections
      BY Job DEF Ack, Order
    <3>2. /\ handler[w].frame = sent[handler[w].conn]
          /\ acked' = [acked EXCEPT ![handler[w].conn] = handler[w].frame]
      BY <1>5, <3>1 DEF Ack, Order, Flights, InFlight
    <3>3. sent \in [Connections -> Nat] /\ acked \in [Connections -> Nat]
      BY DEF Order, IInv, TypeOK
    <3> QED BY <1>3, <3>1, <3>2, <3>3 DEF Order
  <2> QED BY <2>1, <2>2, <2>3, <2>4, <2>5 DEF Order
<1>6. CASE socket[handler[w].conn] # "open"
  <2>1. acked' = acked
    BY <1>6 DEF Ack
  <2> QED BY <1>1, <1>2, <1>3, <1>4, <2>1, PlainOrder
<1> QED BY <1>5, <1>6

LEMMA CleanUpOrder ==
  ASSUME Order, IInv', NEW w \in Workers,
         GetLookup(w) \/ DropLookup(w) \/ GetChannel(w) \/ DropIndex(w)
  PROVE  Order'
<1>1. PICK g \in Handler : Moves(w, g) /\ Onward(handler[w], g) /\ Shifts(handler[w], g)
  BY CleanUpMoves DEF Order
<1>2. Outside(w, g)
  BY <1>1, HandleOutside DEF Order, Handle
<1>3. UNCHANGED <<got, acked>>
  BY DEF GetLookup, DropLookup, GetChannel, DropIndex, client
<1>4. (\A x \in Channels : Members(x)' \subseteq Members(x)) /\ Injective'
  BY ShrinkMembers DEF Order, GetLookup, DropLookup, GetChannel, table
<1>5. \A c \in Connections : lookup'[c] \in {None, lookup[c]}
  BY DEF GetLookup, DropLookup, GetChannel, DropIndex, table, Order, IInv, TypeOK
<1> QED BY <1>1, <1>2, <1>3, <1>4, <1>5, PlainOrder

\* An event becomes an invocation.
LEMMA StartOrder ==
  ASSUME Order, IInv', NEW w \in Workers, NEW e \in events, Start(w, e)
  PROVE  Order'
<1> PICK g : g = handler'[w]
  OBVIOUS
<1>1. /\ e.kind \in Kinds /\ e.conn \in Connections
      /\ handler \in [Workers -> Handler] /\ handler' \in [Workers -> Handler]
  BY DEF Order, IInv, TypeOK, Event
<1>2. /\ g.kind = e.kind /\ g.conn = e.conn /\ g.frame = e.frame /\ g.pc = FirstCall(e)
      /\ g.queue = <<>>
      /\ e.kind = "disconnect" => g.leaving = e.conn
      /\ \A v \in Workers \ {w} : handler'[v] = handler[v]
      /\ events' = events \ {e} /\ handler[w].pc = "idle"
      /\ UNCHANGED <<channel, lookup, socket, got, sent, acked>>
  <2> PICK l : l = IF e.kind = "disconnect" THEN e.conn ELSE None
    OBVIOUS
  <2> PICK k : k = [Idle EXCEPT !.kind = e.kind, !.conn = e.conn, !.frame = e.frame,
                                !.channelId = e.channelId, !.pc = FirstCall(e), !.leaving = l]
    OBVIOUS
  <2>1. /\ k.kind = e.kind /\ k.conn = e.conn /\ k.frame = e.frame /\ k.pc = FirstCall(e)
        /\ k.queue = <<>> /\ k.leaving = l
    BY DEF Idle
  <2>2. handler' = [handler EXCEPT ![w] = k]
    BY DEF Start, Goto
  <2>3. handler'[w] = k /\ \A v \in Workers \ {w} : handler'[v] = handler[v]
    BY <1>1, <2>2
  <2> QED BY <2>1, <2>3 DEF Start, table, client
<1>3. /\ handler[w].kind = "none" /\ handler[w].queue \in Seq(Connections)
      /\ handler[w].pc \notin Joining
  BY <1>1, <1>2 DEF Order, Jobs, Labelled, Joining, Relaying, CleaningUp, Handler, Kinds
<1>4. /\ g.kind = "connect" => g.pc \in Joining
      /\ g.kind = "post" => g.pc = "post"
      /\ g.kind = "message" => g.pc = "find"
      /\ g.kind = "disconnect" => g.pc = "getLookup" /\ g.leaving = g.conn
      /\ g.pc \in Joining => g.kind = "connect"
      /\ g.pc # "ack"
  BY <1>1, <1>2 DEF FirstCall, Joining, Kinds
<1>5. Jobs'
  <2>1. Labelled(g)
    BY <1>1, <1>2, <1>4 DEF Labelled, CleaningUp, Kinds
  <2>2. ASSUME NEW v \in Workers PROVE Labelled(handler[v])'
    <3>1. Labelled(handler[v])
      BY DEF Order, Jobs
    <3>2. handler'[v] = IF v = w THEN g ELSE handler[v]
      BY <1>2
    <3> QED BY <2>1, <3>1, <3>2 DEF Labelled
  <2> QED BY <2>2 DEF Jobs
<1>6. Alone'
  <2>1. \A v \in Workers \ {w} :
          g.kind \in Serial /\ g.kind = handler[v].kind => g.conn # handler[v].conn
    <3>1. Alone
      BY DEF Order
    <3> QED BY <1>2, <3>1 DEF Alone
  <2>2. \A f \in events' : g.kind \in Serial /\ g.kind = f.kind => g.conn # f.conn
    <3> SUFFICES ASSUME NEW f \in events', g.kind \in Serial, g.kind = f.kind, g.conn = f.conn
                 PROVE  FALSE
      OBVIOUS
    <3>1. f \in events /\ f # e
      BY <1>2
    <3>2. e.kind \in Serial /\ e.kind = f.kind /\ e.conn = f.conn
      BY <1>2
    <3> QED BY <3>1, <3>2 DEF Order, Alone
  <2> QED BY <1>2, <2>1, <2>2 DEF Order, Alone
<1>7. Flights' /\ Ages
  <2>1. ASSUME NEW x, InFlight(x) PROVE InFlight(x)'
    BY <1>2, <2>1 DEF InFlight, Young
  <2>2. InFlight(g)
    <3>1. InFlight(e)
      BY DEF Order, Flights
    <3> QED BY <1>2, <3>1 DEF InFlight
  <2>3. ASSUME NEW f \in events' PROVE InFlight(f)'
    BY <1>2, <2>1 DEF Order, Flights
  <2>4. ASSUME NEW v \in Workers PROVE InFlight(handler[v])'
    <3> PICK x : x = handler'[v]
      OBVIOUS
    <3>1. InFlight(x)
      BY <1>2, <2>2 DEF Order, Flights
    <3>2. InFlight(x)'
      BY <2>1, <3>1
    <3> QED BY <3>2 DEF InFlight, Young
  <2> QED BY <1>2, <2>3, <2>4 DEF Flights, Ages, Young
<1>8. \A c \in Connections : Joinable(c)' => Joinable(c)
  <2> SUFFICES ASSUME NEW c \in Connections, Joinable(c)' PROVE Joinable(c)
    OBVIOUS
  <2>1. CASE \E v \in Workers : handler'[v].pc \in Joining /\ handler'[v].conn = c
    <3> PICK v \in Workers : handler'[v].pc \in Joining /\ handler'[v].conn = c
      BY <2>1
    <3>1. CASE v = w
      BY <1>2, <1>4, <3>1 DEF Joinable
    <3>2. CASE v # w
      BY <1>2, <3>2 DEF Joinable
    <3> QED BY <3>1, <3>2
  <2>2. CASE socket'[c] = "new" \/ \E f \in events' : f.kind = "connect" /\ f.conn = c
    BY <1>2, <2>2 DEF Joinable
  <2> QED BY <2>1, <2>2 DEF Joinable
<1>9. Injective' /\ \A x \in Channels : Members(x)' = Members(x)
  BY <1>2 DEF Order, Once, Injective, Members
<1>10. Once'
  <2>1. \A v \in Workers : IsInjective(handler'[v].queue)
    BY <1>2, EmptyList DEF Order, Once
  <2>2. \A v \in Workers : \A c \in ToSet(handler'[v].queue) : c \in ToSet(handler[v].queue)
    BY <1>2, EmptyList
  <2> QED BY <1>1, <1>8, <1>9, <2>1, <2>2, OnceKept DEF Order
<1>11. Calm
  <2>1. Onward(handler[w], g)
    BY <1>2, <1>4 DEF Onward
  <2>2. \A v \in Workers : Onward(handler[v], handler'[v])
    BY <1>2, <2>1 DEF Onward
  <2> QED BY <1>2, <1>9, <2>2 DEF Calm, Order, IInv, TypeOK
<1> QED BY <1>5, <1>6, <1>7, <1>10, <1>11, CalmKeeps

\* A connection opens, is registered, or closes; an item expires.
LEMMA RestOrder ==
  ASSUME Order, IInv', NEW c,
         \/ c \in Connections /\ (Open(c) \/ Register(c) \/ Close(c) \/ ExpireLookup(c))
         \/ \E ch \in Channels : ExpireChannel(ch)
  PROVE  Order'
<1>1. /\ socket \in [Connections -> Sockets] /\ handler \in [Workers -> Handler]
      /\ UNCHANGED <<got, sent, acked, handler>>
      /\ \A x \in Connections : lookup'[x] \in {None, lookup[x]}
  BY DEF Open, Register, Close, ExpireChannel, ExpireLookup, client, table, Order, IInv, TypeOK
<1>2. (\A x \in Channels : Members(x)' \subseteq Members(x)) /\ Injective'
  <2>1. UNCHANGED channel \/ \E ch \in Channels : ExpireChannel(ch)
    BY DEF Open, Register, Close, ExpireLookup, table
  <2> QED BY <2>1, ShrinkMembers DEF Order
<1>3. /\ \A x \in Connections \ {c} : socket'[x] = socket[x]
      /\ \/ socket'[c] = socket[c]
         \/ socket[c] = "new" /\ socket'[c] = "connecting"
         \/ socket[c] = "accepted" /\ socket'[c] = "open"
         \/ socket[c] = "open" /\ socket'[c] = "closed"
  BY <1>1 DEF Open, Register, Close, ExpireChannel, ExpireLookup, client
<1>4. /\ events \subseteq events'
      /\ \A e \in events' \ events : e.kind \in {"connect", "disconnect"}
      /\ \A e \in events' \ events : e.kind = "connect" =>
           e.conn = c /\ socket[c] = "new" /\ socket'[c] = "connecting"
      /\ \A e, f \in events' \ events : e = f
  <2>1. CASE c \in Connections /\ Open(c)
    <3>1. PICK x : NewEvent("connect", c, x, 0)
      BY <2>1 DEF Open
    <3> PICK e : e = [kind |-> "connect", conn |-> c, channelId |-> x, frame |-> 0]
      OBVIOUS
    <3>2. events' = events \cup {e} /\ e.kind = "connect" /\ e.conn = c
      BY <3>1 DEF NewEvent
    <3>3. socket[c] = "new" /\ socket'[c] = "connecting"
      BY <1>1, <2>1 DEF Open
    <3> QED BY <3>2, <3>3
  <2>2. CASE Close(c)
    <3> PICK e : e = [kind |-> "disconnect", conn |-> c, channelId |-> None, frame |-> 0]
      OBVIOUS
    <3>1. events' = events \cup {e} /\ e.kind = "disconnect"
      BY <2>2 DEF Close, NewEvent
    <3> QED BY <3>1
  <2>3. CASE Register(c) \/ ExpireLookup(c) \/ \E ch \in Channels : ExpireChannel(ch)
    BY <2>3 DEF Register, ExpireChannel, ExpireLookup, client
  <2> QED BY <2>1, <2>2, <2>3
<1>5. Ages
  BY <1>1, <1>3 DEF Ages, Young
<1>6. Jobs'
  BY <1>1 DEF Order, Jobs
<1>8. Alone'
  <2>1. ASSUME NEW e \in events' \ events, e.kind = "connect"
        PROVE  /\ \A f \in events : f.kind = "connect" => f.conn # e.conn
               /\ \A w \in Workers : handler[w].kind = "connect" => handler[w].conn # e.conn
    BY <1>4, <2>1 DEF Order, Flights, InFlight
  <2>2. \A e, f \in events' : e.kind \in Serial /\ e.kind = f.kind /\ e.conn = f.conn => e = f
    BY <1>4, <2>1 DEF Order, Alone, Serial
  <2>3. \A w \in Workers, e \in events' :
          e.kind \in Serial /\ e.kind = handler[w].kind => e.conn # handler[w].conn
    BY <1>4, <2>1 DEF Order, Alone, Serial
  <2> QED BY <1>1, <2>2, <2>3 DEF Order, Alone
<1>9. Flights'
  <2>1. ASSUME NEW x, x.kind \in Serial => x.conn \in Connections, InFlight(x)
        PROVE  InFlight(x)'
    <3>1. CASE x.kind = "connect"
      <4>1. socket'[x.conn] = "connecting"
        BY <1>3, <2>1, <3>1 DEF InFlight, Serial
      <4> QED BY <3>1, <4>1 DEF InFlight
    <3>2. CASE x.kind = "message"
      BY <1>1, <1>5, <2>1, <3>2 DEF InFlight, Ages, Serial
    <3>3. CASE x.kind \notin Serial
      BY <3>3 DEF InFlight, Serial
    <3> QED BY <3>1, <3>2, <3>3 DEF Serial
  <2>2. ASSUME NEW e \in events' PROVE InFlight(e)'
    <3>1. CASE e \in events
      BY <2>1, <3>1 DEF Order, Flights, IInv, TypeOK, Event
    <3>2. CASE e \notin events
      BY <1>4, <3>2 DEF InFlight
    <3> QED BY <3>1, <3>2
  <2>3. ASSUME NEW w \in Workers PROVE InFlight(handler[w])'
    <3> PICK x : x = handler[w]
      OBVIOUS
    <3>1. x.kind \in Serial => x.conn \in Connections
      <4>1. x.pc = "idle" => x.kind \notin Serial
        BY DEF Order, Jobs, Labelled, Serial, Joining, Relaying, CleaningUp
      <4> QED BY <4>1, Job DEF Order
    <3>2. InFlight(x)'
      BY <2>1, <3>1 DEF Order, Flights
    <3> QED BY <1>1, <3>2 DEF InFlight, Young
  <2> QED BY <2>2, <2>3 DEF Flights
<1>10. \A x \in Connections : Joinable(x)' => Joinable(x)
  BY <1>1, <1>3, <1>4 DEF Joinable
<1>11. Once'
  <2>1. \A v \in Workers : IsInjective(handler'[v].queue)
    BY <1>1 DEF Order, Once
  <2>2. \A v \in Workers : \A x \in ToSet(handler'[v].queue) : x \in ToSet(handler[v].queue)
    BY <1>1
  <2> QED BY <1>1, <1>2, <1>10, <2>1, <2>2, OnceKept DEF Order
<1>12. Calm
  <2>1. \A v \in Workers : Onward(handler[v], handler'[v])
    BY <1>1 DEF Onward
  <2> QED BY <1>1, <1>2, <1>4, <1>5, <2>1 DEF Calm, Ages
<1> QED BY <1>5, <1>6, <1>8, <1>9, <1>11, <1>12, CalmKeeps

-----------------------------------------------------------------------------
\* A handler step keeps the order.
LEMMA HandleOrder ==
  ASSUME Order, IInv', NEW w \in Workers, Handle(w)
  PROVE  Order'
<1>1. CASE CreateChannel(w) \/ JoinChannel(w) \/ PutLookup(w) \/ SchedulePost(w)
  BY <1>1, ConnectOrder
<1>2. CASE Refuse(w) \/ PostChannelId(w)
  BY <1>2, AnswerOrder
<1>3. CASE FindChannel(w) \/ CountMessage(w)
  BY <1>3, FrameOrder
<1>4. CASE SkipSender(w) \/ Deliver(w) \/ Gone(w)
  BY <1>4, NextOrder
<1>5. CASE Ack(w)
  BY <1>5, AckOrder
<1>6. CASE GetLookup(w) \/ DropLookup(w) \/ GetChannel(w) \/ DropIndex(w)
  BY <1>6, CleanUpOrder
<1> QED BY <1>1, <1>2, <1>3, <1>4, <1>5, <1>6 DEF Handle

LEMMA OrderStarts == Init => Order
<1> SUFFICES ASSUME Init PROVE Order
  OBVIOUS
<1>1. IInv
  BY Inductive
<1>2. \A w \in Workers : handler[w] = Idle
  BY DEF Init
<1>3. /\ events = {} /\ \A ch \in Channels : channel[ch] = None
      /\ \A c \in Connections : /\ socket[c] = "new" /\ sent[c] = 0 /\ acked[c] = 0
                                /\ \A s \in Connections : got[c][s] = <<>>
  BY DEF Init
<1>4. Jobs /\ Alone /\ Flights
  BY <1>2, <1>3, IdleLabelled DEF Jobs, Alone, Flights, Serial, InFlight
<1>5. Quiet /\ FramesInOrder
  <2>1. Len(<<>>) = 0
    BY EmptySeq
  <2>2. \A i \in 2 .. 0 : FALSE
    OBVIOUS
  <2> QED BY <1>3, <2>1, <2>2 DEF Quiet, FramesInOrder
<1>6. Once
  BY <1>2, <1>3, IdleLabelled, EmptyList DEF Once, Members
<1>7. OneChannel /\ UpToDate
  BY <1>2, <1>3, IdleLabelled DEF OneChannel, UpToDate, Linked, Follows, Members
<1>8. \A s \in Connections : acked[s] <= sent[s]
  BY <1>3
<1> QED BY <1>1, <1>4, <1>5, <1>6, <1>7, <1>8 DEF Order

\* The inductive invariant.
LEMMA OrderInductive ==
  /\ Init => Order
  /\ Order /\ [Next]_vars => Order'
<1>1. ASSUME Order, [Next]_vars PROVE Order'
  <2>1. IInv'
    BY <1>1, Inductive DEF Order
  <2>2. CASE UNCHANGED vars
    BY <1>1, <2>1, <2>2 DEF vars, Order, Jobs, Alone, Flights, InFlight, Young, Quiet, Once,
       Joinable, Members, OneChannel, Linked, UpToDate, Follows, Behind, Level, Reach,
       FramesInOrder
  <2>3. CASE Next
    <3>1. ASSUME NEW c \in Connections, Send(c) PROVE Order'
      BY <1>1, <3>1, SendKeeps
    <3>2. ASSUME NEW w \in Workers, NEW e \in events, Start(w, e) PROVE Order'
      BY <1>1, <2>1, <3>2, StartOrder
    <3>3. ASSUME NEW w \in Workers, Handle(w) \/ Crash(w) PROVE Order'
      BY <1>1, <2>1, <3>3, HandleOrder, AnswerOrder
    <3>4. ASSUME NEW c \in Connections, Open(c) \/ Register(c) \/ Close(c) \/ ExpireLookup(c)
          PROVE  Order'
      BY <1>1, <2>1, <3>4, RestOrder
    <3>5. ASSUME NEW ch \in Channels, ExpireChannel(ch) PROVE Order'
      BY <1>1, <2>1, <3>5, RestOrder
    <3> QED BY <2>3, <3>1, <3>2, <3>3, <3>4, <3>5 DEF Next
  <2> QED BY <1>1, <2>2, <2>3
<1> QED BY <1>1, OrderStarts

\* "Ack the sender after the relay so the client sends one frame at a time,
\* preserving order": however many invocations run at the same time, fail or clean
\* up, a recipient gets the frames of a sender in order, each once, with no gap.
THEOREM FramesStayInOrder == Spec => []FramesInOrder
<1>1. Order => FramesInOrder
  BY DEF Order
<1> QED BY <1>1, OrderInductive, PTL DEF Spec

\* An acknowledged frame reached everyone who was receiving from its sender and is
\* still connected and on the list.
THEOREM AckedReached == Spec => []AckedWasRelayed
<1>1. Order => AckedWasRelayed
  <2> SUFFICES ASSUME Order, NEW c \in Connections, NEW s \in Connections,
                      got[c][s] # <<>>, socket[c] = "open",
                      lookup[c] # None, c \in Members(lookup[c])
               PROVE  Last(got[c][s]) >= acked[s]
    BY DEF AckedWasRelayed
  <2>1. Reach(c)
    BY DEF Reach, Order, IInv, TypeOK
  <2>2. Last(got[c][s]) = acked[s] \/ Last(got[c][s]) = sent[s]
    BY <2>1 DEF Order, UpToDate, Behind, Level
  <2>3. acked[s] \in Nat /\ sent[s] \in Nat /\ acked[s] <= sent[s]
    BY DEF Order, IInv, TypeOK
  <2> QED BY <2>2, <2>3
<1> QED BY <1>1, OrderInductive, PTL DEF Spec
=============================================================================
