------------------------ MODULE PairingChannelProofs ------------------------
(***************************************************************************)
(* Pairing, with any number of things that go wrong: frames stay in order, *)
(* a page that goes on because its message was sent is right, and a        *)
(* pairing that was declined does not go through.                          *)
(*                                                                         *)
(* The argument is about what a connection has in flight.  It sends a      *)
(* frame only when the last one was acknowledged, and when it has given up *)
(* waiting it never sends again.  So at most one of its frames is at the   *)
(* relay, at most one ack is on its way, and an ack that is waited for is  *)
(* that of the last frame.  What a page has yet to deal with then is a row *)
(* of frames with rising numbers and no gap, up to what its peer sent      *)
(* last; and nothing follows a close, neither what a page would have to    *)
(* drop nor an answer to a request that came after a decline.              *)
(***************************************************************************)
EXTENDS PairingChannel, SequenceTheorems, TLAPS

Elements(s) == {s[i] : i \in DOMAIN s}

Ack == [what |-> "ack", n |-> 0]
Gone == [what |-> "gone", n |-> 0]

(* What either side says. *)
Says(p) == IF p = "auth" THEN {"metadata", "authorize", "cancel", "decline"}
                         ELSE {"request", "got it"}
Frames(p) == Says(p) \union {"handshake", "close", "alert"}

Outgoing(p) == {Send(m) : m \in Says(p)} \union {Close}
Incoming(p) == [do : {"recv"}, what : Frames(Peer(p)), n : Nat \ {0}]
Arriving(p) == [what : Frames(Peer(p)), n : Nat \ {0}]
Frame == [from : Side, n : Nat \ {0}, what : What, there : BOOLEAN]

(***************************************************************************)
(* The invariant, part by part: types, with who says what.                 *)
(***************************************************************************)
Typed ==
    /\ page \in [Side -> Page]
    /\ flow \in [Side -> {"connect", "probe", "request", "code", "send", "idle"}]
    /\ conn \in [Side -> Channel]
    /\ tasks \in [Side -> Seq(Task)] /\ run \in [Side -> Seq(What)]
    /\ wire \in [Side -> Seq(Event)]
    /\ air \subseteq Frame
    /\ relayed \subseteq {"request", "authorize"}
    /\ declined \in BOOLEAN
    /\ faults \in 0..MaxFaults

Spoken(p, ts, r, w) ==
    /\ Elements(ts) \subseteq Outgoing(p) \union Incoming(p)
    /\ Elements(r) \subseteq Frames(p)
    /\ Elements(w) \subseteq Arriving(p) \union {Ack, Gone}

Live(c) == c.state \in {"handshake", "connected"}
Alive(p) == Live(conn[p])

(* Where a page is before it has a channel. *)
Starting(p, step, c, ts, r, w) ==
    /\ c.state = "none" => c = NoChannel /\ ts = <<>> /\ r = <<>> /\ w = <<>>
    /\ p = "auth" =>
          /\ c.state # "hello" /\ step \notin {"probe", "request"}
          /\ step = "connect" => c.state = "none"
    /\ p = "supp" =>
          /\ step # "code"
          /\ step = "connect" => c.state \in {"none", "hello"}
          /\ c.state = "hello" => ts = <<>> /\ r \in {<<>>, <<"handshake">>}

(* Whoever waits for an ack has sent a frame of the task it is at. *)
Running(c, ts, r) ==
    r # <<>> =>
        /\ Live(c) \/ c.state = "hello"
        /\ ~c.sendClosed
        /\ Live(c) =>
              /\ ts # <<>>
              /\ Head(ts).do # "recv" => r = <<Head(ts).what>>
              /\ Head(ts).do = "recv" /\ r # <<"alert">> =>
                    /\ Elements(r) \subseteq {"handshake"}
                    /\ Head(ts).what = "handshake" /\ Head(ts).n = c.got + 1

Sound(p, step, c, ts, r, w) ==
    Spoken(p, ts, r, w) /\ Starting(p, step, c, ts, r, w) /\ Running(c, ts, r)

Shape ==
    /\ Typed
    /\ \A p \in Side : Sound(p, flow[p], conn[p], tasks[p], run[p], wire[p])
    /\ \A f \in air : f.what \in Frames(f.from) /\ conn[f.from].state # "none"

-----------------------------------------------------------------------------
(***************************************************************************)
(* Lists.                                                                  *)
(***************************************************************************)
LEMMA NoElements == Elements(<<>>) = {}
BY DEF Elements

LEMMA OneElement == ASSUME NEW e PROVE Elements(<<e>>) = {e}
BY DEF Elements

LEMMA HeadTail ==
  ASSUME NEW S, NEW s \in Seq(S), s # <<>>
  PROVE  /\ Head(s) \in S /\ Tail(s) \in Seq(S)
         /\ Elements(s) = Elements(Tail(s)) \union {Head(s)}
<1>1. /\ Head(s) = s[1] /\ Head(s) \in S /\ Tail(s) \in Seq(S)
      /\ Len(Tail(s)) = Len(s) - 1
      /\ \A i \in 1 .. Len(Tail(s)) : Tail(s)[i] = s[i + 1]
      /\ Len(s) \in Nat \ {0} /\ DOMAIN s = 1 .. Len(s)
      /\ DOMAIN Tail(s) = 1 .. Len(Tail(s))
  BY HeadTailProperties, LenProperties, EmptySeq
<1>2. ASSUME NEW x \in Elements(Tail(s)) PROVE x \in Elements(s)
  <2> PICK i \in 1 .. Len(Tail(s)) : x = Tail(s)[i]
    BY <1>1 DEF Elements
  <2>1. i + 1 \in DOMAIN s /\ x = s[i + 1]
    BY <1>1
  <2> QED BY <2>1 DEF Elements
<1>3. ASSUME NEW x \in Elements(s), x # Head(s) PROVE x \in Elements(Tail(s))
  <2> PICK i \in 1 .. Len(s) : x = s[i]
    BY <1>1 DEF Elements
  <2>1. i # 1
    BY <1>1, <1>3
  <2>2. i - 1 \in DOMAIN Tail(s) /\ Tail(s)[i - 1] = s[i]
    BY <1>1, <2>1
  <2> QED BY <2>2 DEF Elements
<1>4. Head(s) \in Elements(s)
  BY <1>1 DEF Elements
<1> QED BY <1>1, <1>2, <1>3, <1>4

LEMMA Joint ==
  ASSUME NEW S, NEW s \in Seq(S), NEW t \in Seq(S)
  PROVE  s \o t \in Seq(S) /\ Elements(s \o t) = Elements(s) \union Elements(t)
<1>1. /\ s \o t \in Seq(S) /\ Len(s \o t) = Len(s) + Len(t)
      /\ \A i \in 1 .. Len(s) + Len(t) :
            (s \o t)[i] = IF i <= Len(s) THEN s[i] ELSE t[i - Len(s)]
      /\ Len(s) \in Nat /\ Len(t) \in Nat
      /\ DOMAIN s = 1 .. Len(s) /\ DOMAIN t = 1 .. Len(t)
      /\ DOMAIN (s \o t) = 1 .. Len(s \o t)
  BY ConcatProperties, LenProperties
<1>2. ASSUME NEW x \in Elements(s) PROVE x \in Elements(s \o t)
  <2> PICK i \in 1 .. Len(s) : x = s[i]
    BY <1>1 DEF Elements
  <2>1. i \in DOMAIN (s \o t) /\ (s \o t)[i] = x
    BY <1>1
  <2> QED BY <2>1 DEF Elements
<1>3. ASSUME NEW x \in Elements(t) PROVE x \in Elements(s \o t)
  <2> PICK i \in 1 .. Len(t) : x = t[i]
    BY <1>1 DEF Elements
  <2>1. i + Len(s) \in DOMAIN (s \o t) /\ (s \o t)[i + Len(s)] = x
    BY <1>1
  <2> QED BY <2>1 DEF Elements
<1>4. ASSUME NEW x \in Elements(s \o t) PROVE x \in Elements(s) \union Elements(t)
  <2> PICK i \in 1 .. Len(s) + Len(t) : x = (s \o t)[i]
    BY <1>1 DEF Elements
  <2>1. CASE i <= Len(s)
    <3>1. i \in DOMAIN s /\ x = s[i]
      BY <1>1, <2>1
    <3> QED BY <3>1 DEF Elements
  <2>2. CASE ~(i <= Len(s))
    <3>1. i - Len(s) \in DOMAIN t /\ x = t[i - Len(s)]
      BY <1>1, <2>2
    <3> QED BY <3>1 DEF Elements
  <2> QED BY <2>1, <2>2
<1> QED BY <1>1, <1>2, <1>3, <1>4

LEMMA HeadTailConcat ==
  ASSUME NEW S, NEW s \in Seq(S), NEW t \in Seq(S), s # <<>>
  PROVE  s \o t # <<>> /\ Head(s \o t) = Head(s)
<1>1. /\ s \o t \in Seq(S) /\ Len(s \o t) = Len(s) + Len(t)
      /\ \A i \in 1 .. Len(s) + Len(t) :
            (s \o t)[i] = IF i <= Len(s) THEN s[i] ELSE t[i - Len(s)]
      /\ Len(s) \in Nat \ {0} /\ Len(t) \in Nat
  BY ConcatProperties, LenProperties, EmptySeq
<1>2. s \o t # <<>>
  BY ConcatEqualIffEmpty
<1>3. (s \o t)[1] = s[1]
  BY <1>1
<1> QED BY <1>1, <1>2, <1>3, HeadTailProperties

LEMMA Added ==
  ASSUME NEW S, NEW s \in Seq(S), NEW e \in S
  PROVE  /\ Append(s, e) \in Seq(S) /\ Append(s, e) # <<>>
         /\ Elements(Append(s, e)) = Elements(s) \union {e}
         /\ Append(s, e) = s \o <<e>>
<1>1. <<e>> \in Seq(S)
  OBVIOUS
<1>3. Append(s, e) = s \o <<e>>
  BY AppendIsConcat
<1>2. Append(s, e) # <<>>
  BY AppendProperties
<1>4. Append(s, e) \in Seq(S)
  BY AppendProperties
<1>5. Elements(s \o <<e>>) = Elements(s) \union Elements(<<e>>)
  BY <1>1, Joint
<1> QED BY <1>2, <1>3, <1>4, <1>5, OneElement

-----------------------------------------------------------------------------
(***************************************************************************)
(* The steps, by what happens to the task at the head of the queue.        *)
(***************************************************************************)
Acknowledged(p) == run[p] # <<>> /\ Hears(p, "ack") /\ Heard(p)
Taken(p) == run[p] = <<>> /\ UNCHANGED wire
InVain(p) == run[p] # <<>> /\ UNCHANGED wire

Receiving(p) == tasks[p] # <<>> /\ First(p).do = "recv"
Sending(p) == tasks[p] # <<>> /\ First(p).do \in {"send", "close"}

(* A message, or a handshake frame that needed or got its answer. *)
Receives(p) ==
    /\ Receiving(p) /\ Alive(p) /\ EndReceived(p)
    /\ First(p).what \in Message \union {"handshake"} /\ First(p).n = conn[p].got + 1
    /\ Taken(p) \/ Acknowledged(p)
    /\ UNCHANGED <<flow, air>>

(* The other side's close, or an answer that comes after one's own. *)
Closes(p) ==
    /\ Receiving(p) /\ Taken(p) /\ conn[p].state # "failed" /\ EndClosed(p)
    /\ \/ conn[p].peerClosed
       \/ First(p).what = "close"
       \/ /\ First(p).what = "handshake" /\ First(p).n = conn[p].got + 1
          /\ Flight(p, First(p).n) # <<>> /\ conn[p].sendClosed
    /\ UNCHANGED <<flow, air>>

(* What is not understood; the alert that says so may have been sent. *)
FailsAt(p) ==
    /\ Receiving(p) /\ EndFailed(p)
    /\ Taken(p) \/ InVain(p) \/ Acknowledged(p)
    /\ UNCHANGED <<flow, air>>

(* Nothing is sent any more. *)
Refuses(p) ==
    /\ Sending(p)
    /\ \/ Taken(p) /\ Unsendable(p) /\ EndRefused(p, conn[p])
       \/ InVain(p) /\ EndRefused(p, [conn[p] EXCEPT !.state = "failed"])
    /\ UNCHANGED air

Sends(p) ==
    /\ tasks[p] # <<>> /\ First(p).do = "send" /\ Alive(p)
    /\ Acknowledged(p) /\ EndSent(p) /\ UNCHANGED air

Finishes(p) ==
    /\ tasks[p] # <<>> /\ First(p).do = "close" /\ Alive(p)
    /\ Acknowledged(p) /\ EndClosing(p) /\ UNCHANGED <<flow, air>>

(* What a task sends first. *)
Opening(p, frames) ==
    \/ /\ Receiving(p) /\ First(p).what = "handshake" /\ First(p).n = conn[p].got + 1
       /\ frames = Flight(p, First(p).n) /\ frames # <<>>
    \/ Receiving(p) /\ frames = <<"alert">> /\ ~Understood(p) /\ ~conn[p].peerClosed
    \/ Sending(p) /\ frames = <<First(p).what>>

Begins(p, frames) ==
    /\ tasks[p] # <<>> /\ Alive(p) /\ ~conn[p].sendClosed
    /\ \/ Taken(p) /\ Opening(p, frames)
       \/ Acknowledged(p) /\ Len(run[p]) > 1 /\ frames = Tail(run[p])
    /\ Begin(p, frames)

(* An ack that nobody waits for. *)
Drops(p) ==
    /\ run[p] = <<>> /\ Hears(p, "ack") /\ Heard(p)
    /\ UNCHANGED <<page, flow, conn, tasks, run, air>>

Joins ==
    /\ conn["supp"].state = "hello" /\ Acknowledged("supp")
    /\ Joined

(* The ClientHello was not acknowledged in time. *)
GivesUp ==
    /\ conn["supp"].state = "hello" /\ InVain("supp")
    /\ Show("supp", "error") /\ flow' = [flow EXCEPT !["supp"] = "idle"]
    /\ run' = [run EXCEPT !["supp"] = <<>>]
    /\ UNCHANGED <<conn, tasks, air>>

Ends(p) == Receives(p) \/ Closes(p) \/ FailsAt(p) \/ Refuses(p) \/ Sends(p) \/ Finishes(p)

Works(p) ==
    /\ Ends(p) \/ (\E frames : Begins(p, frames)) \/ Drops(p)
    /\ UNCHANGED <<relayed, declined>>

Waits4Hello == (Joins \/ GivesUp) /\ UNCHANGED <<relayed, declined>>

LEMMA Working ==
  ASSUME Shape, NEW p \in Side,
         Receive(p) \/ SendOrClose(p) \/ HearAck(p) \/ AckTimeout(p)
  PROVE  Works(p) \/ Waits4Hello
<1>1. /\ tasks[p] \in Seq(Task) /\ run[p] \in Seq(What) /\ conn[p] \in Channel
      /\ Running(conn[p], tasks[p], run[p])
      /\ Starting(p, flow[p], conn[p], tasks[p], run[p], wire[p])
  BY DEF Shape, Typed, Sound
<1>2. ASSUME tasks[p] # <<>> PROVE Alive(p) \/ conn[p].state = "failed"
  <2>1. conn[p].state # "none" /\ conn[p].state # "hello"
    BY <1>1, <1>2 DEF Starting, Side
  <2> QED BY <1>1, <2>1 DEF Alive, Live, Channel
<1>3. ASSUME tasks[p] # <<>> PROVE First(p).do \in {"recv", "send", "close"}
  <2>1. Head(tasks[p]) \in Task
    BY <1>1, <1>3, HeadTail
  <2> QED BY <2>1 DEF First, Task
<1>4. CASE ReceiveHandshake(p)
  <2>1. Receiving(p) /\ Taken(p) /\ Alive(p) /\ First(p).n = conn[p].got + 1
        /\ First(p).what = "handshake" /\ UNCHANGED <<relayed, declined>>
    BY <1>2, <1>4 DEF ReceiveHandshake, Understood, Ready, Receiving, Taken
  <2>2. CASE Flight(p, First(p).n) = <<>> /\ EndReceived(p) /\ UNCHANGED <<air, flow>>
    BY <2>1, <2>2 DEF Works, Ends, Receives
  <2>3. CASE Flight(p, First(p).n) # <<>> /\ conn[p].sendClosed /\ EndClosed(p)
             /\ UNCHANGED <<air, flow>>
    BY <2>1, <2>3 DEF Works, Ends, Closes, Alive, Live
  <2>4. CASE Flight(p, First(p).n) # <<>> /\ ~conn[p].sendClosed /\ Begin(p, Flight(p, First(p).n))
    <3>1. Begins(p, Flight(p, First(p).n))
      BY <2>1, <2>4 DEF Begins, Opening, Receiving
    <3> QED BY <2>1, <3>1 DEF Works
  <2> QED BY <1>4, <2>2, <2>3, <2>4 DEF ReceiveHandshake
<1>5. CASE ReceiveMessage(p)
  BY <1>2, <1>5 DEF ReceiveMessage, Understood, Ready, Receiving, Taken, Works, Ends, Receives
<1>6. CASE ReceiveClose(p)
  BY <1>2, <1>6 DEF ReceiveClose, Understood, Ready, Receiving, Taken, Works, Ends, Closes
<1>7. CASE ReceiveBad(p)
  <2>1. Receiving(p) /\ Taken(p) /\ UNCHANGED <<relayed, declined>>
    BY <1>7 DEF ReceiveBad, Ready, Receiving, Taken
  <2>2. CASE EndFailed(p) /\ UNCHANGED <<air, flow>>
    BY <2>1, <2>2 DEF Works, Ends, FailsAt
  <2>3. CASE conn[p].state # "failed" /\ ~conn[p].sendClosed /\ Begin(p, <<"alert">>)
    <3>1. Begins(p, <<"alert">>)
      BY <1>2, <1>7, <2>1, <2>3 DEF ReceiveBad, Begins, Opening, Receiving
    <3> QED BY <2>1, <3>1 DEF Works
  <2> QED BY <1>7, <2>2, <2>3 DEF ReceiveBad
<1>8. CASE SendOrClose(p)
  <2>1. Sending(p) /\ Taken(p) /\ UNCHANGED <<relayed, declined>>
    BY <1>8 DEF SendOrClose, Ready, Sending, Taken
  <2>2. CASE Unsendable(p) /\ EndRefused(p, conn[p]) /\ UNCHANGED air
    BY <2>1, <2>2 DEF Works, Ends, Refuses
  <2>3. CASE ~Unsendable(p) /\ Begin(p, <<First(p).what>>)
    <3>1. Begins(p, <<First(p).what>>)
      BY <1>2, <2>1, <2>3 DEF Begins, Opening, Sending, Unsendable
    <3> QED BY <2>1, <3>1 DEF Works
  <2> QED BY <1>8, <2>2, <2>3 DEF SendOrClose
<1>9. CASE HearAck(p)
  <2>1. Hears(p, "ack") /\ Heard(p) /\ UNCHANGED <<relayed, declined>>
    BY <1>9 DEF HearAck
  <2>2. CASE run[p] = <<>> /\ UNCHANGED <<page, flow, conn, tasks, run, air>>
    BY <2>1, <2>2 DEF Works, Drops
  <2>3. CASE Len(run[p]) > 1 /\ Begin(p, Tail(run[p]))
    <3>1. run[p] # <<>>
      BY <2>3
    <3>2. Alive(p) /\ tasks[p] # <<>> /\ ~conn[p].sendClosed
      <4>1. conn[p].state # "hello"
        <5>1. ASSUME run[p] = <<"handshake">> PROVE FALSE
          BY <2>3, <5>1
        <5> QED BY <1>1, <3>1, <5>1 DEF Starting, Side
      <4> QED BY <1>1, <3>1, <4>1 DEF Running, Alive, Live, Channel
    <3>3. Begins(p, Tail(run[p]))
      BY <2>1, <2>3, <3>1, <3>2 DEF Begins, Acknowledged
    <3> QED BY <2>1, <3>3 DEF Works
  <2>4. CASE Len(run[p]) = 1 /\ conn[p].state = "hello" /\ Joined
    <3>1. run[p] # <<>>
      <4>1. Len(run[p]) = 1 /\ run[p] \in Seq(What)
        BY <1>1, <2>4
      <4>2. Len(run[p]) = 0 <=> run[p] = <<>>
        BY <4>1, EmptySeq
      <4> QED BY <4>1, <4>2
    <3>2. p = "supp"
      BY <1>1, <2>4 DEF Starting, Side
    <3> QED BY <2>1, <2>4, <3>1, <3>2 DEF Waits4Hello, Joins, Acknowledged
  <2>5. CASE Len(run[p]) = 1 /\ conn[p].state # "hello" /\ Accomplished(p) /\ UNCHANGED air
    <3>1. run[p] # <<>>
      BY <2>5
    <3>2. Acknowledged(p) /\ Alive(p) /\ tasks[p] # <<>>
      BY <1>1, <2>1, <2>5, <3>1 DEF Running, Acknowledged, Alive, Live, Channel
    <3>3. CASE First(p).do = "send"
      BY <2>1, <2>5, <3>2, <3>3 DEF Accomplished, Works, Ends, Sends
    <3>4. CASE First(p).do = "close"
      BY <2>1, <2>5, <3>2, <3>4 DEF Accomplished, Works, Ends, Finishes
    <3>5. CASE First(p).do = "recv" /\ run[p] = <<"alert">>
      BY <2>1, <2>5, <3>2, <3>5 DEF Accomplished, Works, Ends, FailsAt, Receiving
    <3>6. CASE First(p).do = "recv" /\ run[p] # <<"alert">>
      BY <1>1, <2>1, <2>5, <3>1, <3>2, <3>6 DEF Accomplished, Works, Ends, Receives, Receiving, Running, First, Alive
    <3> QED BY <1>3, <3>2, <3>3, <3>4, <3>5, <3>6
  <2> QED BY <1>9, <2>2, <2>3, <2>4, <2>5 DEF HearAck
<1>10. CASE AckTimeout(p)
  <2>1. InVain(p) /\ UNCHANGED <<air, relayed, declined>>
    BY <1>10 DEF AckTimeout, InVain
  <2>2. CASE conn[p].state = "hello"
    <3>1. p = "supp"
      BY <1>1, <2>2 DEF Starting, Side
    <3> QED BY <1>10, <2>1, <2>2, <3>1 DEF AckTimeout, Waits4Hello, GivesUp
  <2>3. CASE conn[p].state # "hello"
    <3>1. tasks[p] # <<>>
      BY <1>1, <2>1, <2>3 DEF Running, InVain, Live, Channel
    <3>2. CASE First(p).do = "recv"
      BY <1>10, <2>1, <2>3, <3>1, <3>2 DEF AckTimeout, Works, Ends, FailsAt, Receiving
    <3>3. CASE First(p).do # "recv"
      BY <1>3, <1>10, <2>1, <2>3, <3>1, <3>3 DEF AckTimeout, Works, Ends, Refuses, Sending
    <3> QED BY <3>2, <3>3
  <2> QED BY <2>2, <2>3
<1> QED BY <1>4, <1>5, <1>6, <1>7, <1>8, <1>9, <1>10 DEF Receive

-----------------------------------------------------------------------------
(***************************************************************************)
(* Types, and where everybody is.                                          *)
(***************************************************************************)
(* A step of one side: it may send one frame.                              *)
Moves(p, step, c, ts, r, w) ==
    /\ flow' = [flow EXCEPT ![p] = step] /\ conn' = [conn EXCEPT ![p] = c]
    /\ tasks' = [tasks EXCEPT ![p] = ts] /\ run' = [run EXCEPT ![p] = r]
    /\ wire' = [wire EXCEPT ![p] = w]
    /\ step \in {"connect", "probe", "request", "code", "send", "idle"}
    /\ c \in Channel /\ ts \in Seq(Task) /\ r \in Seq(What) /\ w \in Seq(Event)
    /\ \A f \in air' :
          \/ f \in air
          \/ /\ f \in Frame /\ f.what \in Frames(f.from)
             /\ f.from = p \/ \E g \in air : g.from = f.from
    /\ c.state = "none" => conn[p].state = "none" /\ \A f \in air' : f.from = p => f \in air
    /\ page' \in [Side -> Page] /\ relayed' \subseteq {"request", "authorize"}
    /\ declined' \in BOOLEAN /\ faults' \in 0..MaxFaults

LEMMA SideStep ==
  ASSUME Shape, NEW p \in Side, NEW step, NEW c, NEW ts, NEW r, NEW w,
         Moves(p, step, c, ts, r, w), Sound(p, step, c, ts, r, w)
  PROVE  Shape'
<1>1. Typed'
  BY DEF Shape, Typed, Moves
<1>2. ASSUME NEW q \in Side
      PROVE  Sound(q, flow'[q], conn'[q], tasks'[q], run'[q], wire'[q])
  <2>1. CASE q = p
    BY <2>1 DEF Shape, Typed, Moves
  <2>2. CASE q # p
    <3>1. flow'[q] = flow[q] /\ conn'[q] = conn[q] /\ tasks'[q] = tasks[q]
          /\ run'[q] = run[q] /\ wire'[q] = wire[q]
      BY <2>2 DEF Shape, Typed, Moves
    <3> QED BY <3>1 DEF Shape
  <2> QED BY <2>1, <2>2
<1>3. ASSUME NEW f \in air'
      PROVE  f.what \in Frames(f.from) /\ conn'[f.from].state # "none"
  <2>1. f.from \in Side
    BY <1>1, <1>3 DEF Typed, Frame
  <2>2. conn'[f.from] = IF f.from = p THEN c ELSE conn[f.from]
    BY <2>1 DEF Shape, Typed, Moves
  <2>3. CASE f \in air
    BY <2>2, <2>3 DEF Shape, Moves
  <2>4. CASE f \notin air
    <3>1. /\ f.what \in Frames(f.from)
          /\ f.from = p \/ \E g \in air : g.from = f.from
          /\ c.state = "none" => f.from # p
      BY <1>3, <2>4 DEF Moves
    <3>2. CASE f.from = p
      BY <2>2, <3>1, <3>2
    <3>3. CASE f.from # p
      <4>1. conn[f.from].state # "none"
        BY <3>1, <3>3 DEF Shape
      <4> QED BY <2>2, <3>1, <3>3, <4>1
    <3> QED BY <3>2, <3>3
  <2> QED BY <2>3, <2>4
<1> QED BY <1>1, <1>2, <1>3 DEF Shape

(* What a side is before a step.                                           *)
LEMMA SideShape ==
  ASSUME Shape, NEW p \in Side
  PROVE  /\ page[p] \in Page
         /\ flow[p] \in {"connect", "probe", "request", "code", "send", "idle"}
         /\ conn[p] \in Channel /\ tasks[p] \in Seq(Task)
         /\ run[p] \in Seq(What) /\ wire[p] \in Seq(Event)
         /\ Sound(p, flow[p], conn[p], tasks[p], run[p], wire[p])
         /\ faults \in 0..MaxFaults /\ declined \in BOOLEAN
         /\ relayed \subseteq {"request", "authorize"}
BY DEF Shape, Typed

LEMMA Unchanged ==
  ASSUME Shape, NEW p \in Side
  PROVE  /\ UNCHANGED flow => flow' = [flow EXCEPT ![p] = flow[p]]
         /\ UNCHANGED conn => conn' = [conn EXCEPT ![p] = conn[p]]
         /\ UNCHANGED tasks => tasks' = [tasks EXCEPT ![p] = tasks[p]]
         /\ UNCHANGED run => run' = [run EXCEPT ![p] = run[p]]
         /\ UNCHANGED wire => wire' = [wire EXCEPT ![p] = wire[p]]
         /\ UNCHANGED page => page' \in [Side -> Page]
BY DEF Shape, Typed

LEMMA ShowTyped ==
  ASSUME Shape, NEW p \in Side, NEW step \in Page, Show(p, step)
  PROVE  /\ page' \in [Side -> Page]
         /\ page'[p] = IF page[p] = "left" THEN "left" ELSE step
         /\ \A q \in Side : q # p => page'[q] = page[q]
BY DEF Shape, Typed, Show

LEMMA FailsTyped == ASSUME Shape, Fails PROVE faults' \in 0..MaxFaults
BY FaultsAssumption DEF Shape, Typed, Fails

(* The page puts some of these tasks into the queue, or nothing.           *)
Queues(p, those) ==
    /\ \E ts \in Seq(Task), closes \in BOOLEAN :
          /\ Elements(ts) \subseteq those
          /\ tasks' = [tasks EXCEPT ![p] = @ \o ts]
          /\ conn' = [conn EXCEPT ![p].selfClosed = closes]
          /\ ts # <<>> => conn[p].state \notin {"none", "hello"}
          /\ conn[p].state = "none" => ~closes
          /\ conn[p].selfClosed \/ Close \in Elements(ts) => closes
    /\ UNCHANGED <<run, wire, air>>

LEMMA OutgoingTyped ==
  /\ \A p \in Side : Close \in Outgoing(p) /\ Outgoing(p) \subseteq Task
  /\ Send("request") \in Outgoing("supp") /\ Send("got it") \in Outgoing("supp")
  /\ {Send("authorize"), Send("metadata"), Send("cancel"), Send("decline")} \subseteq Outgoing("auth")
<1>1. ASSUME NEW p \in Side PROVE Close \in Outgoing(p) /\ Outgoing(p) \subseteq Task
  <2>1. Close \in Task
    BY DEF Close, Task, What
  <2>2. ASSUME NEW m \in Says(p) PROVE Send(m) \in Task
    BY <2>2 DEF Send, Task, What, Says, Message
  <2> QED BY <2>1, <2>2 DEF Outgoing
<1> QED BY <1>1 DEF Outgoing, Says

LEMMA QueuesShape ==
  ASSUME Shape, NEW p \in Side, NEW those \in SUBSET Outgoing(p), Queues(p, those), NEW step,
         flow' = [flow EXCEPT ![p] = step], page' \in [Side -> Page],
         \/ step = flow[p]
         \/ step \in {"probe", "request"} /\ p = "supp"
         \/ step = "code" /\ p = "auth"
         \/ step \in {"send", "idle"},
         UNCHANGED relayed, declined' \in BOOLEAN, faults' \in 0..MaxFaults
  PROVE  Shape'
<1> PICK ts \in Seq(Task), closes \in BOOLEAN :
      /\ Elements(ts) \subseteq Outgoing(p)
      /\ tasks' = [tasks EXCEPT ![p] = @ \o ts]
      /\ conn' = [conn EXCEPT ![p].selfClosed = closes]
      /\ ts # <<>> => conn[p].state \notin {"none", "hello"}
      /\ conn[p].state = "none" => ~closes
      /\ conn[p].selfClosed \/ Close \in Elements(ts) => closes
  BY DEF Queues
<1> PICK c : c = [conn[p] EXCEPT !.selfClosed = closes]
  OBVIOUS
<1> PICK old : old = tasks[p]
  OBVIOUS
<1> PICK new : new = old \o ts
  OBVIOUS
<1>1. /\ conn[p] \in Channel /\ old \in Seq(Task) /\ run[p] \in Seq(What)
      /\ wire[p] \in Seq(Event)
      /\ Sound(p, flow[p], conn[p], old, run[p], wire[p])
      /\ relayed \subseteq {"request", "authorize"}
      /\ flow[p] \in {"connect", "probe", "request", "code", "send", "idle"}
  BY SideShape
<1>2. /\ c \in Channel /\ c.state = conn[p].state /\ c.sendClosed = conn[p].sendClosed
      /\ c.got = conn[p].got /\ (~closes /\ conn[p] = NoChannel => c = NoChannel)
  BY <1>1 DEF Channel, NoChannel
<1>3. /\ new \in Seq(Task) /\ Elements(new) = Elements(old) \union Elements(ts)
      /\ ts = <<>> => new = old
  BY <1>1, Joint, ConcatEmptySeq
<1>4. old # <<>> => new # <<>> /\ Head(new) = Head(old)
  BY <1>1, HeadTailConcat
<1>5. Spoken(p, new, run[p], wire[p])
  BY <1>1, <1>3 DEF Sound, Spoken
<1>6. Starting(p, step, c, new, run[p], wire[p])
  BY <1>1, <1>2, <1>3 DEF Sound, Starting, Usable, NoChannel
<1>7. Running(c, new, run[p])
  BY <1>1, <1>2, <1>4 DEF Sound, Running, Live
<1>8. /\ conn' = [conn EXCEPT ![p] = c] /\ tasks' = [tasks EXCEPT ![p] = new]
      /\ run' = [run EXCEPT ![p] = run[p]] /\ wire' = [wire EXCEPT ![p] = wire[p]]
      /\ air' = air
  BY Unchanged DEF Queues
<1>9. step \in {"connect", "probe", "request", "code", "send", "idle"}
  BY <1>1
<1>10. Sound(p, step, c, new, run[p], wire[p])
  BY <1>5, <1>6, <1>7 DEF Sound
<1>11. Moves(p, step, c, new, run[p], wire[p])
  BY <1>1, <1>2, <1>3, <1>8, <1>9 DEF Moves
<1> QED BY <1>10, <1>11, SideStep

Listens(p) == UNCHANGED wire \/ (wire[p] # <<>> /\ Heard(p))

LEMMA WireShape ==
  ASSUME Shape, NEW p \in Side, Listens(p)
  PROVE  \E w \in Seq(Event) :
            wire' = [wire EXCEPT ![p] = w] /\ Elements(w) \subseteq Elements(wire[p])
<1>1. wire[p] \in Seq(Event)
  BY SideShape
<1>2. CASE UNCHANGED wire
  BY <1>1, <1>2, Unchanged
<1>3. CASE wire[p] # <<>> /\ Heard(p)
  <2>1. /\ Tail(wire[p]) \in Seq(Event)
        /\ Elements(wire[p]) = Elements(Tail(wire[p])) \union {Head(wire[p])}
    BY <1>1, <1>3, HeadTail
  <2> QED BY <1>3, <2>1 DEF Heard
<1> QED BY <1>2, <1>3 DEF Listens

LEMMA Listening ==
  ASSUME NEW p, Taken(p) \/ InVain(p) \/ Acknowledged(p) \/ (Hears(p, "ack") /\ Heard(p))
  PROVE  Listens(p)
BY DEF Listens, Taken, InVain, Acknowledged, Hears

(* A task is over.                                                         *)
LEMMA OverShape ==
  ASSUME Shape, NEW p \in Side, NEW c \in Channel, NEW more \in Seq(Task), NEW next \in Page,
         NEW step, Over(p, c, more, next), Listens(p), tasks[p] # <<>>,
         Elements(more) \subseteq Outgoing(p),
         c.state \in {"handshake", "connected", "failed"},
         flow' = [flow EXCEPT ![p] = step], step \in {flow[p], "idle"},
         UNCHANGED <<air, relayed, declined>>, faults' \in 0..MaxFaults
  PROVE  Shape'
<1>1. /\ conn[p] \in Channel /\ tasks[p] \in Seq(Task) /\ run[p] \in Seq(What)
      /\ Sound(p, flow[p], conn[p], tasks[p], run[p], wire[p])
      /\ relayed \subseteq {"request", "authorize"} /\ declined \in BOOLEAN
      /\ flow[p] \in {"connect", "probe", "request", "code", "send", "idle"}
  BY SideShape
<1> PICK w \in Seq(Event) :
      wire' = [wire EXCEPT ![p] = w] /\ Elements(w) \subseteq Elements(wire[p])
  BY WireShape
<1> PICK rest : rest = Tail(tasks[p])
  OBVIOUS
<1> PICK new : new = rest \o more
  OBVIOUS
<1>2. rest \in Seq(Task) /\ Elements(rest) \subseteq Elements(tasks[p])
  BY <1>1, HeadTail
<1>3. new \in Seq(Task) /\ Elements(new) = Elements(rest) \union Elements(more)
  <2>1. /\ rest \o more \in Seq(Task)
        /\ Elements(rest \o more) = Elements(rest) \union Elements(more)
    BY ONLY <1>2, more \in Seq(Task), Joint
  <2> QED BY <2>1
<1>4. /\ conn' = [conn EXCEPT ![p] = c] /\ tasks' = [tasks EXCEPT ![p] = new]
      /\ run' = [run EXCEPT ![p] = <<>>] /\ page' \in [Side -> Page]
  BY ShowTyped DEF Over
<1>5. conn[p].state \notin {"none", "hello"}
  BY <1>1 DEF Sound, Starting, Side
<1>6. Spoken(p, new, <<>>, w)
  BY <1>1, <1>2, <1>3, NoElements DEF Sound, Spoken
<1>7. Starting(p, step, c, new, <<>>, w)
  BY <1>1, <1>5 DEF Sound, Starting
<1>8. Sound(p, step, c, new, <<>>, w)
  BY <1>6, <1>7 DEF Sound, Running
<1>9. Moves(p, step, c, new, <<>>, w)
  BY <1>1, <1>3, <1>4 DEF Moves
<1> QED BY <1>8, <1>9, SideStep

(* What the messages of a task lead to.                                    *)
LEMMA ReactionTyped ==
  ASSUME Shape, NEW p \in Side, NEW m \in Frames(Peer(p)), m \in Message
  PROVE  /\ Reaction(p, m) \in Seq(Task) /\ Elements(Reaction(p, m)) \subseteq Outgoing(p)
         /\ Queued(p, Reaction(p, m)) \in Seq(Task)
         /\ Elements(Queued(p, Reaction(p, m))) \subseteq Outgoing(p)
         /\ OnMessage(p, m) \in Page
<1>1. page[p] \in Page /\ conn[p].heard \in BOOLEAN
  BY SideShape DEF Channel
<1>2. \A q \in Side : Close \in Outgoing(q) /\ Outgoing(q) \subseteq Task
  BY OutgoingTyped
<1>3. p = "auth" => m \in {"request", "got it"}
  BY DEF Frames, Says, Peer, Message
<1>4. p = "supp" => m \in {"metadata", "authorize", "cancel", "decline"}
  BY DEF Frames, Says, Peer, Message
<1>5. OnMessage(p, m) \in Page
  BY <1>1 DEF OnMessage, Page
<1>6. Reaction(p, m) \in {<<>>, <<Close>>}
        \union (IF p = "auth" THEN {<<Send("metadata")>>} ELSE {<<Close, Send("got it")>>})
  BY <1>1, <1>3, <1>4 DEF Reaction, Side
<1>7. /\ Send("metadata") \in Outgoing("auth") /\ Send("got it") \in Outgoing("supp")
  BY OutgoingTyped
<1>8. Reaction(p, m) \in Seq(Task) /\ Elements(Reaction(p, m)) \subseteq Outgoing(p)
  <2>1. ASSUME NEW t \in Outgoing(p)
        PROVE  <<t>> \in Seq(Task) /\ Elements(<<t>>) \subseteq Outgoing(p)
    <3>1. t \in Task
      BY <1>2
    <3> QED BY <2>1, <3>1, OneElement
  <2>2. ASSUME NEW t \in Outgoing(p), NEW u \in Outgoing(p)
        PROVE  <<t, u>> \in Seq(Task) /\ Elements(<<t, u>>) \subseteq Outgoing(p)
    <3>1. t \in Task /\ u \in Task
      BY <1>2
    <3>2. <<t, u>> \in Seq(Task)
      BY <3>1
    <3>3. Elements(<<t, u>>) = {t, u}
      BY DEF Elements
    <3> QED BY <3>2, <3>3
  <2>3. <<>> \in Seq(Task) /\ Elements(<<>>) \subseteq Outgoing(p)
    BY NoElements
  <2>4. Close \in Outgoing(p)
    BY <1>2
  <2>5. CASE Reaction(p, m) \in {<<>>, <<Close>>}
    BY <2>1, <2>3, <2>4, <2>5
  <2>6. CASE p = "auth" /\ Reaction(p, m) = <<Send("metadata")>>
    BY <1>7, <2>1, <2>6
  <2>7. CASE p = "supp" /\ Reaction(p, m) = <<Close, Send("got it")>>
    BY <1>7, <2>2, <2>4, <2>7
  <2> QED BY <1>6, <2>5, <2>6, <2>7 DEF Side
<1>9. Queued(p, Reaction(p, m)) \in {<<>>, Reaction(p, m)}
  BY DEF Queued
<1>10. <<>> \in Seq(Task) /\ Elements(<<>>) \subseteq Outgoing(p)
  BY NoElements
<1>11. CASE Queued(p, Reaction(p, m)) = <<>>
  BY <1>5, <1>8, <1>10, <1>11
<1>12. CASE Queued(p, Reaction(p, m)) = Reaction(p, m)
  BY <1>5, <1>8, <1>12
<1> QED BY <1>9, <1>11, <1>12

(* The task at the head of the queue.                                      *)
LEMMA FirstTyped ==
  ASSUME Shape, NEW p \in Side, tasks[p] # <<>>
  PROVE  /\ First(p) \in Task /\ First(p) \in Outgoing(p) \union Incoming(p)
         /\ First(p).do = "recv" => First(p) \in Incoming(p)
         /\ First(p).do = "send" => First(p).what \in Says(p) /\ First(p) = Send(First(p).what)
         /\ First(p).do = "close" => First(p) = Close
         /\ conn[p].state \in {"handshake", "connected", "failed"}
<1>1. /\ tasks[p] \in Seq(Task) /\ Spoken(p, tasks[p], run[p], wire[p])
      /\ conn[p] \in Channel
      /\ Starting(p, flow[p], conn[p], tasks[p], run[p], wire[p])
  BY SideShape DEF Sound
<1>2. First(p) \in Task /\ First(p) \in Elements(tasks[p])
  BY <1>1, HeadTail DEF First
<1>3. First(p) \in Outgoing(p) \union Incoming(p)
  BY <1>1, <1>2 DEF Spoken
<1>4. conn[p].state \in {"handshake", "connected", "failed"}
  BY <1>1 DEF Starting, Channel, Side
<1>5. First(p).do = "recv" => First(p) \in Incoming(p)
  BY <1>3 DEF Outgoing, Close, Send
<1>6. First(p).do = "send" => First(p).what \in Says(p) /\ First(p) = Send(First(p).what)
  BY <1>3 DEF Outgoing, Incoming, Close, Send
<1>7. First(p).do = "close" => First(p) = Close
  BY <1>3 DEF Outgoing, Incoming, Send
<1> QED BY <1>2, <1>3, <1>4, <1>5, <1>6, <1>7

(* What is shown and what the channel becomes when a task ends.            *)
Shows(p, next) ==
    \/ next \in {page[p], "error"}
    \/ /\ Sends(p)
       /\ \/ First(p).what = "request" /\ next = "waiting"
          \/ First(p).what = "authorize" /\ next = "complete"
    \/ /\ Receives(p) /\ conn[p].heard
       /\ \/ First(p).what \in {"request", "metadata"} /\ next = "confirming"
          \/ First(p).what = "authorize" /\ next = "complete"

Becomes(p, c) ==
    /\ c.state = "failed" \/ (Taken(p) /\ Alive(p)) \/ Acknowledged(p)
    /\ c.state \in {conn[p].state, "failed"} \/ (c.state = "connected" /\ c.got = 3)
    /\ c.state \in {"handshake", "connected", "failed"}
    /\ conn[p].state = "failed" => c.state = "failed"
    /\ c.sent = conn[p].sent
    /\ c.got \in {conn[p].got, conn[p].got + 1}
    /\ Sends(p) \/ run[p] \in {<<>>, <<"close">>} \/ c.state = "failed" \/ c.got = conn[p].got + 1
    /\ c.heard = conn[p].heard \/ (Sends(p) /\ First(p).what = "request")
    /\ c.sendClosed = conn[p].sendClosed \/ (Finishes(p) /\ c.sendClosed)
    /\ run[p] = <<"close">> => c.sendClosed \/ c.state = "failed"
    /\ \/ c.peerClosed = conn[p].peerClosed
       \/ Closes(p) /\ (conn[p].selfClosed => c.socket = "shut")
    /\ conn[p].selfClosed => c.selfClosed
    /\ c.socket = conn[p].socket \/ (c.socket = "shut" /\ (Closes(p) \/ conn[p].peerClosed))

Answering(p, c, more) ==
    /\ Elements(more) \subseteq {Send("metadata"), Send("got it"), Close}
    /\ Elements(more) \subseteq Outgoing(p)
    /\ more # <<>> => Receives(p) /\ conn[p].heard /\ Usable(conn[p])
    /\ Close \in Elements(more) => c.selfClosed

Ending(p, c, more, next, step) ==
    /\ Over(p, c, more, next) /\ flow' = [flow EXCEPT ![p] = step]
    /\ Shows(p, next) /\ Becomes(p, c) /\ Answering(p, c, more)

LEMMA EndsAs ==
  ASSUME Shape, NEW p \in Side, Ends(p)
  PROVE  \E c \in Channel, more \in Seq(Task), next \in Page, step \in {flow[p], "idle"} :
            Ending(p, c, more, next, step)
<1>1. /\ page[p] \in Page /\ flow[p] \in {flow[p], "idle"}
      /\ UNCHANGED flow => flow' = [flow EXCEPT ![p] = flow[p]]
      /\ conn[p] \in Channel /\ <<>> \in Seq(Task) /\ Elements(<<>>) = {}
      /\ Running(conn[p], tasks[p], run[p])
  BY SideShape, Unchanged, NoElements DEF Sound
<1>2. /\ tasks[p] # <<>>
      /\ conn[p].state \in {"handshake", "connected", "failed"}
      /\ First(p) \in Task
      /\ First(p).do = "recv" => First(p) \in Incoming(p)
      /\ First(p).do = "send" => First(p).what \in Says(p)
      /\ First(p).do = "close" => First(p) = Close
  <2>1. tasks[p] # <<>>
    BY DEF Ends, Receives, Closes, FailsAt, Refuses, Sends, Finishes, Receiving, Sending
  <2> QED BY <2>1, FirstTyped
<1>3. {"error", "waiting", "complete", page[p]} \subseteq Page
  BY <1>1 DEF Page
<1>4. /\ OnError(p) \in Page /\ OnClose(p) \in Page
      /\ {OnError(p), OnClose(p)} \subseteq {page[p], "error"}
  BY <1>3 DEF OnError, OnClose
<1>5. ASSUME NEW c PROVE Answering(p, c, <<>>)
  BY <1>1 DEF Answering
<1>6. conn[p].state # "failed" => Alive(p)
  BY <1>2 DEF Alive, Live
<1>7. ASSUME Acknowledged(p) \/ InVain(p)
      PROVE  /\ run[p] # <<>> /\ Alive(p)
             /\ run[p] = <<"close">> => First(p).do = "close"
             /\ First(p).do = "close" => run[p] = <<"close">>
  <2>1. run[p] # <<>> /\ Alive(p)
    BY <1>1, <1>2, <1>7 DEF Acknowledged, InVain, Running, Alive
  <2>2. Elements(<<"close">>) = {"close"} /\ <<"close">> # <<"alert">>
    <3>1. <<"close">>[1] = "close" /\ <<"alert">>[1] = "alert"
      OBVIOUS
    <3> QED BY <3>1, OneElement
  <2>3. CASE First(p).do = "recv"
    BY <1>1, <2>1, <2>2, <2>3 DEF Running, Alive, First
  <2>4. CASE First(p).do # "recv"
    <3>1. run[p] = <<First(p).what>>
      BY <1>1, <2>1, <2>4 DEF Running, Alive, First
    <3>2. First(p).do = "close" => First(p).what = "close"
      BY <1>2 DEF Close
    <3>3. First(p).do = "send" => First(p).what # "close"
      BY <1>2 DEF Says
    <3>4. run[p] = <<"close">> => First(p).what = "close"
      <4>1. <<First(p).what>>[1] = First(p).what /\ <<"close">>[1] = "close"
        OBVIOUS
      <4> QED BY <3>1, <4>1
    <3>5. First(p).do \in {"send", "close"}
      BY <1>2, <2>4 DEF Task
    <3> QED BY <2>1, <3>1, <3>2, <3>3, <3>4, <3>5
  <2> QED BY <2>1, <2>3, <2>4
<1>8. Taken(p) => run[p] = <<>> /\ run[p] # <<"close">>
  <2>1. <<>> # <<"close">>
    OBVIOUS
  <2> QED BY <2>1 DEF Taken
<1>9. CASE Receives(p)
  <2> PICK t : t = First(p)
    OBVIOUS
  <2>1. /\ t.do = "recv" /\ EndReceived(p) /\ UNCHANGED flow /\ Alive(p)
        /\ t.what \in Message \union {"handshake"} /\ t \in Task /\ t \in Incoming(p)
        /\ t.n = conn[p].got + 1 /\ conn[p].state # "failed"
        /\ (Taken(p) /\ Alive(p)) \/ Acknowledged(p)
        /\ run[p] # <<"close">>
    BY <1>2, <1>7, <1>8, <1>9 DEF Receives, Receiving, Alive, Live
  <2>2. t.n \in Nat /\ t.what \in Frames(Peer(p))
    BY <2>1 DEF Incoming
  <2>3. CASE t.what = "handshake"
    <3> PICK c : c = IF t.n = 3 THEN [conn[p] EXCEPT !.got = t.n, !.state = "connected"]
                                ELSE [conn[p] EXCEPT !.got = t.n]
      OBVIOUS
    <3>1. /\ c \in Channel /\ c.got = t.n
          /\ c.state = conn[p].state \/ (c.state = "connected" /\ t.n = 3)
          /\ c.sent = conn[p].sent /\ c.sendClosed = conn[p].sendClosed
          /\ c.selfClosed = conn[p].selfClosed /\ c.heard = conn[p].heard
          /\ c.peerClosed = conn[p].peerClosed /\ c.socket = conn[p].socket
      BY <1>1, <1>2, <2>2 DEF Channel
    <3>2. Over(p, c, <<>>, page[p])
      BY <2>1, <2>3 DEF EndReceived
    <3>3. Becomes(p, c)
      BY <1>2, <2>1, <3>1 DEF Becomes
    <3>4. Ending(p, c, <<>>, page[p], flow[p])
      BY <1>1, <1>5, <2>1, <3>2, <3>3 DEF Ending, Shows
    <3> QED BY <1>1, <3>1, <3>4
  <2>4. CASE t.what # "handshake"
    <3> PICK more : more = Reaction(p, t.what)
      OBVIOUS
    <3> PICK queue : queue = Queued(p, more)
      OBVIOUS
    <3> PICK closes : closes = (more # <<>> /\ Head(more) = Close)
      OBVIOUS
    <3> PICK b \in BOOLEAN :
          b = (conn[p].selfClosed \/ (closes /\ Usable([conn[p] EXCEPT !.got = t.n])))
      BY <1>1 DEF Channel
    <3> PICK c : c = [conn[p] EXCEPT !.got = t.n, !.selfClosed = b]
      OBVIOUS
    <3>1. /\ c \in Channel /\ c.got = t.n /\ c.state = conn[p].state
          /\ c.sent = conn[p].sent /\ c.sendClosed = conn[p].sendClosed
          /\ c.selfClosed = b /\ c.heard = conn[p].heard
          /\ c.peerClosed = conn[p].peerClosed /\ c.socket = conn[p].socket
      BY <1>1, <2>2 DEF Channel
    <3>2. Over(p, c, queue, OnMessage(p, t.what))
      BY <2>1, <2>4 DEF EndReceived
    <3>3. /\ more \in Seq(Task) /\ Elements(more) \subseteq Outgoing(p)
          /\ queue \in Seq(Task) /\ Elements(queue) \subseteq Outgoing(p)
          /\ OnMessage(p, t.what) \in Page
      BY <2>1, <2>2, <2>4, ReactionTyped
    <3>4. queue = IF Usable(conn[p]) THEN more ELSE <<>>
      BY DEF Queued
    <3>5. /\ Close \in Elements(more) => closes
          /\ Elements(more) \subseteq {Send("metadata"), Send("got it"), Close}
      <4>1. more \in {<<>>, <<Close>>, <<Send("metadata")>>, <<Close, Send("got it")>>}
        BY DEF Reaction
      <4>2. Send("metadata") # Close
        BY DEF Send, Close
      <4>3. CASE more = <<>>
        BY <4>3, NoElements
      <4>4. CASE more = <<Close>>
        <5>1. Head(<<Close>>) = Close /\ <<Close>> # <<>>
          OBVIOUS
        <5>2. Elements(more) = {Close} /\ Head(more) = Close /\ more # <<>>
          BY ONLY <4>4, <5>1, OneElement
        <5> QED BY <5>2
      <4>5. CASE more = <<Send("metadata")>>
        <5>1. Elements(more) = {Send("metadata")}
          BY <4>5, OneElement
        <5> QED BY <4>2, <5>1
      <4>6. CASE more = <<Close, Send("got it")>>
        <5>1. ASSUME NEW x, NEW y
              PROVE  /\ Head(<<x, y>>) = x /\ <<x, y>> # <<>>
                     /\ Elements(<<x, y>>) = {x, y}
          BY DEF Elements
        <5> PICK m : m = Send("got it")
          OBVIOUS
        <5> PICK z : z = Close
          OBVIOUS
        <5>2. Head(more) = z /\ more # <<>> /\ Elements(more) = {z, m}
          BY ONLY <4>6, <5>1, m = Send("got it"), z = Close
        <5> QED BY <5>2
      <4> QED BY <4>1, <4>3, <4>4, <4>5, <4>6
    <3>6. Close \in Elements(queue) => b
      <4> PICK d : d = [conn[p] EXCEPT !.got = t.n]
        OBVIOUS
      <4>1. conn[p] \in Channel
        BY <1>1
      <4>2. d.state = conn[p].state /\ d.socket = conn[p].socket
        BY ONLY <4>1, d = [conn[p] EXCEPT !.got = t.n] DEF Channel
      <4>3. Usable(d) <=> Usable(conn[p])
        <5> PICK x, y, u, v : x = d.state /\ y = conn[p].state /\ u = d.socket /\ v = conn[p].socket
          OBVIOUS
        <5>1. x = y /\ u = v
          BY <4>2
        <5>2. /\ Usable(d) <=> (x \in {"handshake", "connected", "failed"} /\ u # "shut")
              /\ Usable(conn[p]) <=> (y \in {"handshake", "connected", "failed"} /\ v # "shut")
          BY ONLY x = d.state, y = conn[p].state, u = d.socket, v = conn[p].socket DEF Usable
        <5> QED BY ONLY <5>1, <5>2
      <4> QED BY <1>1, <3>4, <3>5, <4>3
    <3>7. queue # <<>> => conn[p].heard /\ Usable(conn[p])
      BY <3>4 DEF Reaction
    <3>8. Answering(p, c, queue)
      <4>1. Elements(queue) \subseteq {Send("metadata"), Send("got it"), Close}
        BY <1>1, <3>4, <3>5
      <4> QED BY <1>9, <3>1, <3>3, <3>6, <3>7, <4>1 DEF Answering
    <3>9. Shows(p, OnMessage(p, t.what))
      BY <1>9 DEF OnMessage, Shows
    <3>10. Becomes(p, c)
      BY <1>2, <2>1, <3>1 DEF Becomes
    <3>11. Ending(p, c, queue, OnMessage(p, t.what), flow[p])
      BY <1>1, <2>1, <3>2, <3>8, <3>9, <3>10 DEF Ending
    <3> QED BY <1>1, <3>1, <3>3, <3>11
  <2> QED BY <2>3, <2>4
<1>10. CASE Closes(p)
  <2> PICK d : d = [conn[p] EXCEPT !.peerClosed = TRUE]
    OBVIOUS
  <2> PICK c : c = IF d.selfClosed THEN Shut(d) ELSE d
    OBVIOUS
  <2>1. /\ c \in Channel /\ c.state = conn[p].state /\ c.got = conn[p].got
        /\ c.sent = conn[p].sent /\ c.sendClosed = conn[p].sendClosed
        /\ c.selfClosed = conn[p].selfClosed /\ c.heard = conn[p].heard
        /\ c.socket = IF conn[p].selfClosed THEN "shut" ELSE conn[p].socket
    BY <1>1 DEF Channel, Shut
  <2>2. /\ Over(p, c, <<>>, OnClose(p)) /\ UNCHANGED flow
        /\ Taken(p) /\ conn[p].state # "failed"
    BY <1>10 DEF Closes, EndClosed
  <2>3. Becomes(p, c)
    BY <1>2, <1>6, <1>8, <1>10, <2>1, <2>2 DEF Becomes
  <2>4. Ending(p, c, <<>>, OnClose(p), flow[p])
    BY <1>1, <1>4, <1>5, <2>2, <2>3 DEF Ending, Shows
  <2> QED BY <1>1, <1>4, <2>1, <2>4
<1>11. CASE FailsAt(p)
  <2> PICK c : c = [conn[p] EXCEPT !.state = "failed"]
    OBVIOUS
  <2>1. /\ c \in Channel /\ c.state = "failed" /\ c.got = conn[p].got
        /\ c.sent = conn[p].sent /\ c.sendClosed = conn[p].sendClosed
        /\ c.selfClosed = conn[p].selfClosed /\ c.heard = conn[p].heard
        /\ c.peerClosed = conn[p].peerClosed /\ c.socket = conn[p].socket
    BY <1>1 DEF Channel
  <2>2. Over(p, c, <<>>, OnError(p)) /\ UNCHANGED flow
    BY <1>11 DEF FailsAt, EndFailed
  <2>3. Becomes(p, c)
    BY <2>1 DEF Becomes
  <2>4. Ending(p, c, <<>>, OnError(p), flow[p])
    BY <1>1, <1>4, <1>5, <2>2, <2>3 DEF Ending, Shows
  <2> QED BY <1>1, <1>4, <2>1, <2>4
<1>12. CASE Refuses(p)
  <2> PICK c : /\ \/ c = conn[p] /\ Taken(p)
                  \/ c = [conn[p] EXCEPT !.state = "failed"]
               /\ EndRefused(p, c)
    BY <1>12 DEF Refuses
  <2>1. /\ c \in Channel /\ c.got = conn[p].got
        /\ c.state = "failed" \/ (c.state = conn[p].state /\ Taken(p))
        /\ c.sent = conn[p].sent /\ c.sendClosed = conn[p].sendClosed
        /\ c.selfClosed = conn[p].selfClosed /\ c.heard = conn[p].heard
        /\ c.peerClosed = conn[p].peerClosed /\ c.socket = conn[p].socket
    BY <1>1, <1>2 DEF Channel
  <2> PICK m : m = First(p).what
    OBVIOUS
  <2> PICK next : next = IF Waits(p, m) THEN "error" ELSE page[p]
    OBVIOUS
  <2> PICK step : step = IF Waits(p, m) THEN "idle" ELSE flow[p]
    OBVIOUS
  <2>2. Over(p, c, <<>>, next) /\ flow' = [flow EXCEPT ![p] = step]
    BY DEF EndRefused
  <2>3. next \in Page /\ Shows(p, next)
    BY <1>3 DEF Shows
  <2>4. Becomes(p, c)
    BY <1>2, <1>6, <1>8, <2>1 DEF Becomes
  <2>5. Ending(p, c, <<>>, next, step)
    BY <1>5, <2>2, <2>3, <2>4 DEF Ending
  <2> QED BY <1>1, <2>1, <2>3, <2>5
<1>13. CASE Sends(p)
  <2> PICK m : m = First(p).what
    OBVIOUS
  <2> PICK c : c = IF m = "request" THEN [conn[p] EXCEPT !.heard = TRUE] ELSE conn[p]
    OBVIOUS
  <2> PICK next : next = CASE m = "request" -> "waiting" [] m = "authorize" -> "complete"
                           [] OTHER -> page[p]
    OBVIOUS
  <2> PICK step : step = IF Waits(p, m) THEN "idle" ELSE flow[p]
    OBVIOUS
  <2>1. /\ c \in Channel /\ c.state = conn[p].state /\ c.got = conn[p].got
        /\ c.sent = conn[p].sent /\ c.sendClosed = conn[p].sendClosed
        /\ c.selfClosed = conn[p].selfClosed /\ (c.heard = conn[p].heard \/ m = "request")
        /\ c.peerClosed = conn[p].peerClosed /\ c.socket = conn[p].socket
    BY <1>1 DEF Channel
  <2>2. Over(p, c, <<>>, next) /\ flow' = [flow EXCEPT ![p] = step]
    BY <1>13 DEF Sends, EndSent
  <2>3. next \in Page /\ Shows(p, next)
    BY <1>3, <1>13 DEF Shows
  <2>4. Becomes(p, c)
    <3>1. Acknowledged(p) /\ run[p] # <<"close">> /\ conn[p].state # "failed"
      BY <1>7, <1>13 DEF Sends, Alive, Live
    <3> QED BY <1>2, <1>13, <2>1, <3>1 DEF Becomes
  <2>5. Ending(p, c, <<>>, next, step)
    BY <1>5, <2>2, <2>3, <2>4 DEF Ending
  <2> QED BY <1>1, <2>1, <2>3, <2>5
<1>14. CASE Finishes(p)
  <2> PICK d : d = [conn[p] EXCEPT !.sendClosed = TRUE]
    OBVIOUS
  <2> PICK c : c = IF d.peerClosed THEN Shut(d) ELSE d
    OBVIOUS
  <2>1. /\ c \in Channel /\ c.state = conn[p].state /\ c.got = conn[p].got
        /\ c.sent = conn[p].sent /\ c.sendClosed
        /\ c.selfClosed = conn[p].selfClosed /\ c.heard = conn[p].heard
        /\ c.peerClosed = conn[p].peerClosed
        /\ c.socket = IF conn[p].peerClosed THEN "shut" ELSE conn[p].socket
    BY <1>1 DEF Channel, Shut
  <2>2. Over(p, c, <<>>, page[p]) /\ UNCHANGED flow
    BY <1>14 DEF Finishes, EndClosing
  <2>3. Becomes(p, c)
    <3>1. Acknowledged(p) /\ run[p] = <<"close">> /\ conn[p].state # "failed"
      BY <1>7, <1>14 DEF Finishes, Alive, Live
    <3> QED BY <1>2, <1>14, <2>1, <3>1 DEF Becomes
  <2>4. Ending(p, c, <<>>, page[p], flow[p])
    BY <1>1, <1>5, <2>2, <2>3 DEF Ending, Shows
  <2> QED BY <1>1, <2>1, <2>4
<1> QED BY <1>9, <1>10, <1>11, <1>12, <1>13, <1>14 DEF Ends

LEMMA EndsShape ==
  ASSUME Shape, NEW p \in Side, Ends(p), UNCHANGED <<relayed, declined>>,
         faults' \in 0..MaxFaults
  PROVE  Shape'
<1>1. tasks[p] # <<>> /\ UNCHANGED air
  BY DEF Ends, Receives, Closes, FailsAt, Refuses, Sends, Finishes, Receiving, Sending
<1>2. Listens(p)
  <2>1. Taken(p) \/ InVain(p) \/ Acknowledged(p)
    BY DEF Ends, Receives, Closes, FailsAt, Refuses, Sends, Finishes
  <2> QED BY <2>1, Listening
<1>3. PICK c \in Channel, more \in Seq(Task), next \in Page, step \in {flow[p], "idle"} :
            Ending(p, c, more, next, step)
  BY EndsAs
<1>4. /\ Over(p, c, more, next) /\ flow' = [flow EXCEPT ![p] = step]
      /\ c.state \in {"handshake", "connected", "failed"}
      /\ Elements(more) \subseteq Outgoing(p)
  BY <1>3 DEF Ending, Becomes, Answering
<1> QED BY <1>1, <1>2, <1>4, OverShape

(* What a handshake message is answered with.                              *)
LEMMA FlightTyped ==
  ASSUME NEW p \in Side, NEW n
  PROVE  /\ Flight(p, n) \in Seq(What) /\ Elements(Flight(p, n)) \subseteq {"handshake"}
         /\ Flight(p, n) # <<>> =>
               /\ Flight(p, n)[1] = "handshake"
               /\ n \in {1, 3} /\ (p = "auth" => n = 1)
<1>1. Flight(p, n) \in {<<>>, <<"handshake">>, <<"handshake", "handshake", "handshake">>}
  BY DEF Flight
<1>2. "handshake" \in What
  BY DEF What
<1>3. CASE Flight(p, n) = <<>>
  BY <1>3, NoElements
<1>4. CASE Flight(p, n) = <<"handshake">>
  <2>1. <<"handshake">> \in Seq(What) /\ Elements(<<"handshake">>) = {"handshake"}
    BY <1>2, OneElement
  <2> QED BY <1>4, <2>1 DEF Flight
<1>5. CASE Flight(p, n) = <<"handshake", "handshake", "handshake">>
  <2>1. ASSUME NEW w \in What PROVE <<w, w, w>> \in Seq(What) /\ Elements(<<w, w, w>>) \subseteq {w}
    BY DEF Elements
  <2>2. /\ <<"handshake", "handshake", "handshake">> \in Seq(What)
        /\ Elements(<<"handshake", "handshake", "handshake">>) \subseteq {"handshake"}
    BY <1>2, <2>1
  <2> QED BY <1>5, <2>2 DEF Flight
<1> QED BY <1>1, <1>3, <1>4, <1>5

(* What a task sends.                                                      *)
LEMMA BeginsTyped ==
  ASSUME Shape, NEW p \in Side, NEW frames, Begins(p, frames)
  PROVE  /\ frames \in Seq(What) /\ frames # <<>> /\ Elements(frames) \subseteq Frames(p)
         /\ frames[1] = Head(frames) /\ frames[1] \in Frames(p)
         /\ Head(tasks[p]).do # "recv" => frames = <<Head(tasks[p]).what>>
         /\ Head(tasks[p]).do = "recv" /\ frames # <<"alert">> =>
               /\ Elements(frames) \subseteq {"handshake"}
               /\ Head(tasks[p]).what = "handshake" /\ Head(tasks[p]).n = conn[p].got + 1
<1>1. /\ tasks[p] # <<>> /\ run[p] \in Seq(What)
      /\ Running(conn[p], tasks[p], run[p]) /\ Spoken(p, tasks[p], run[p], wire[p])
  BY SideShape DEF Begins, Sound
<1>2. /\ First(p) \in Task /\ First(p) = Head(tasks[p])
      /\ First(p).do = "send" => First(p).what \in Says(p)
      /\ First(p).do = "close" => First(p).what = "close"
  BY <1>1, FirstTyped DEF First, Close
<1>3. Frames(p) \subseteq What /\ {"handshake", "alert", "close"} \subseteq Frames(p)
  BY DEF Frames, What, Says, Message, Side
<1>4. ASSUME frames \in Seq(What), frames # <<>>, Elements(frames) \subseteq Frames(p)
      PROVE  frames[1] = Head(frames) /\ frames[1] \in Frames(p)
  <2>1. Head(frames) \in Elements(frames) /\ Head(frames) = frames[1]
    BY <1>4, HeadTail, HeadTailProperties
  <2> QED BY <1>4, <2>1
<1>5. ASSUME NEW w \in Frames(p), frames = <<w>>
      PROVE  frames \in Seq(What) /\ frames # <<>> /\ Elements(frames) \subseteq Frames(p)
  <2>1. w \in What
    BY <1>3
  <2>2. <<w>> \in Seq(What) /\ <<w>> # <<>>
    BY <2>1
  <2> QED BY <1>5, <2>2, OneElement
<1>6. CASE /\ Receiving(p) /\ First(p).what = "handshake" /\ First(p).n = conn[p].got + 1
           /\ frames = Flight(p, First(p).n) /\ frames # <<>>
  <2>1. /\ frames \in Seq(What) /\ Elements(frames) \subseteq {"handshake"}
    BY <1>6, FlightTyped
  <2> QED BY <1>2, <1>3, <1>4, <1>6, <2>1 DEF Receiving
<1>7. CASE Receiving(p) /\ frames = <<"alert">>
  <2>1. /\ frames \in Seq(What) /\ frames # <<>> /\ Elements(frames) \subseteq Frames(p)
    BY <1>3, <1>5, <1>7
  <2> QED BY <1>2, <1>4, <1>7, <2>1 DEF Receiving
<1>8. CASE Sending(p) /\ frames = <<First(p).what>>
  <2>1. First(p).what \in Frames(p)
    BY <1>2, <1>3, <1>8 DEF Sending, Frames
  <2>2. /\ frames \in Seq(What) /\ frames # <<>> /\ Elements(frames) \subseteq Frames(p)
    BY <1>5, <1>8, <2>1
  <2> QED BY <1>2, <1>4, <1>8, <2>2 DEF Sending
<1>9. CASE Acknowledged(p) /\ Len(run[p]) > 1 /\ frames = Tail(run[p])
  <2>1. run[p] # <<>>
    BY <1>9 DEF Acknowledged
  <2>2. /\ frames \in Seq(What) /\ Elements(frames) \subseteq Elements(run[p])
        /\ Len(frames) = Len(run[p]) - 1
    BY <1>1, <1>9, <2>1, HeadTail, HeadTailProperties
  <2>3. frames # <<>>
    <3>1. Len(frames) # 0
      BY <1>1, <1>9, <2>2, LenProperties
    <3> QED BY <2>2, <3>1, EmptySeq
  <2>4. ASSUME NEW w PROVE run[p] # <<w>>
    <3>1. Len(<<w>>) = 1
      OBVIOUS
    <3> QED BY <1>9, <3>1
  <2>5. Alive(p)
    BY DEF Begins
  <2>6. Elements(frames) \subseteq Frames(p)
    BY <1>1, <2>2 DEF Spoken
  <2>7. Head(tasks[p]).do = "recv" /\ run[p] # <<"alert">>
    BY <1>1, <2>1, <2>4, <2>5 DEF Running, Alive
  <2>8. /\ Elements(frames) \subseteq {"handshake"}
        /\ Head(tasks[p]).what = "handshake" /\ Head(tasks[p]).n = conn[p].got + 1
    BY <1>1, <2>1, <2>2, <2>5, <2>7 DEF Running, Alive
  <2> QED BY <1>4, <2>2, <2>3, <2>6, <2>7, <2>8
<1> QED BY <1>6, <1>7, <1>8, <1>9 DEF Begins, Opening

LEMMA BeginsShape ==
  ASSUME Shape, NEW p \in Side, NEW frames, Begins(p, frames), UNCHANGED <<relayed, declined>>,
         faults' \in 0..MaxFaults
  PROVE  Shape'
<1>1. /\ conn[p] \in Channel /\ tasks[p] \in Seq(Task) /\ run[p] \in Seq(What)
      /\ Sound(p, flow[p], conn[p], tasks[p], run[p], wire[p])
      /\ relayed \subseteq {"request", "authorize"} /\ declined \in BOOLEAN
      /\ flow[p] \in {"connect", "probe", "request", "code", "send", "idle"}
  BY SideShape
<1>2. /\ frames \in Seq(What) /\ frames # <<>> /\ Elements(frames) \subseteq Frames(p)
      /\ frames[1] \in Frames(p)
      /\ Head(tasks[p]).do # "recv" => frames = <<Head(tasks[p]).what>>
      /\ Head(tasks[p]).do = "recv" /\ frames # <<"alert">> =>
               /\ Elements(frames) \subseteq {"handshake"}
               /\ Head(tasks[p]).what = "handshake" /\ Head(tasks[p]).n = conn[p].got + 1
  BY BeginsTyped
<1>3. Listens(p)
  <2>1. Taken(p) \/ InVain(p) \/ Acknowledged(p)
    BY DEF Begins
  <2> QED BY <2>1, Listening
<1> PICK w \in Seq(Event) :
      wire' = [wire EXCEPT ![p] = w] /\ Elements(w) \subseteq Elements(wire[p])
  BY <1>3, WireShape
<1> PICK c : c = [conn[p] EXCEPT !.sent = @ + 1]
  OBVIOUS
<1>4. /\ c \in Channel /\ c.state = conn[p].state /\ c.sendClosed = conn[p].sendClosed
      /\ c.got = conn[p].got
  <2>1. conn[p].sent + 1 \in Nat
    BY <1>1 DEF Channel
  <2> QED BY <1>1, <2>1 DEF Channel
<1>5. /\ Live(c) /\ ~c.sendClosed /\ tasks[p] # <<>>
  BY <1>4 DEF Begins, Alive, Live
<1>6. /\ conn' = [conn EXCEPT ![p] = c] /\ tasks' = [tasks EXCEPT ![p] = tasks[p]]
      /\ run' = [run EXCEPT ![p] = frames] /\ flow' = [flow EXCEPT ![p] = flow[p]]
      /\ page' \in [Side -> Page]
  BY Unchanged DEF Begins, Begin
<1>7. Spoken(p, tasks[p], frames, w)
  BY <1>1, <1>2 DEF Sound, Spoken
<1>8. Starting(p, flow[p], c, tasks[p], frames, w)
  BY <1>1, <1>4, <1>5 DEF Sound, Starting, Live
<1>9. Running(c, tasks[p], frames)
  BY <1>2, <1>4, <1>5 DEF Running
<1>10. \A f \in air' : f \in air \/ (f \in Frame /\ f.from = p /\ f.what \in Frames(p))
  <2> PICK f : f = [from |-> p, n |-> conn[p].sent + 1, what |-> frames[1], there |-> FALSE]
    OBVIOUS
  <2>1. f \in Frame /\ f.from = p /\ f.what \in Frames(p)
    <3>1. conn[p].sent + 1 \in Nat \ {0}
      BY <1>1 DEF Channel
    <3>2. frames[1] \in What
      BY <1>2 DEF Frames, What, Says, Message
    <3> QED BY <1>2, <3>1, <3>2 DEF Frame
  <2>2. air' \subseteq air \union {f}
    BY DEF Begins, Begin, Transmit
  <2> QED BY <2>1, <2>2
<1>11. Sound(p, flow[p], c, tasks[p], frames, w)
  BY <1>7, <1>8, <1>9 DEF Sound
<1>12. Moves(p, flow[p], c, tasks[p], frames, w)
  <2>1. c.state # "none"
    BY <1>5 DEF Live
  <2> QED BY <1>1, <1>2, <1>4, <1>6, <1>10, <2>1 DEF Moves
<1> QED BY <1>11, <1>12, SideStep

LEMMA WorksShape ==
  ASSUME Shape, NEW p \in Side, Works(p) \/ Waits4Hello, faults' \in 0..MaxFaults
  PROVE  Shape'
<1>1. CASE Works(p) /\ ~Drops(p)
  <2>1. UNCHANGED <<relayed, declined>>
    BY <1>1 DEF Works
  <2>2. CASE Ends(p)
    BY <2>1, <2>2, EndsShape
  <2>3. CASE \E frames : Begins(p, frames)
    BY <2>1, <2>3, BeginsShape
  <2> QED BY <1>1, <2>2, <2>3 DEF Works
<1>2. CASE Works(p) /\ Drops(p)
  <2>1. /\ page[p] \in Page /\ conn[p] \in Channel /\ tasks[p] \in Seq(Task)
        /\ run[p] \in Seq(What) /\ wire[p] \in Seq(Event)
        /\ Sound(p, flow[p], conn[p], tasks[p], run[p], wire[p])
        /\ relayed' \subseteq {"request", "authorize"} /\ declined' \in BOOLEAN
        /\ flow[p] \in {"connect", "probe", "request", "code", "send", "idle"}
    BY <1>2, SideShape DEF Works
  <2>2. Listens(p)
    BY <1>2, Listening DEF Drops
  <2> PICK w \in Seq(Event) :
        wire' = [wire EXCEPT ![p] = w] /\ Elements(w) \subseteq Elements(wire[p])
    BY <2>2, WireShape
  <2>3. wire[p] # <<>> /\ conn[p].state # "none"
    <3>1. wire[p] # <<>>
      BY <1>2 DEF Drops, Hears
    <3> QED BY <2>1, <3>1 DEF Sound, Starting
  <2>4. /\ flow' = [flow EXCEPT ![p] = flow[p]] /\ conn' = [conn EXCEPT ![p] = conn[p]]
        /\ tasks' = [tasks EXCEPT ![p] = tasks[p]] /\ run' = [run EXCEPT ![p] = run[p]]
        /\ page' \in [Side -> Page] /\ air' = air
    BY <1>2, Unchanged DEF Drops
  <2>5. Moves(p, flow[p], conn[p], tasks[p], run[p], w)
    BY <2>1, <2>4 DEF Moves
  <2>6. Sound(p, flow[p], conn[p], tasks[p], run[p], w)
    BY <2>1, <2>3 DEF Sound, Spoken, Starting
  <2> QED BY <2>5, <2>6, SideStep
<1>3. CASE Waits4Hello
  <2> PICK s \in Side : s = "supp"
    BY DEF Side
  <2>1. /\ conn[s] \in Channel /\ tasks[s] \in Seq(Task) /\ <<>> \in Seq(What)
        /\ Sound(s, flow[s], conn[s], tasks[s], run[s], wire[s])
        /\ relayed' \subseteq {"request", "authorize"} /\ declined' \in BOOLEAN
        /\ conn[s].state = "hello" /\ tasks[s] = <<>> /\ air' = air
        /\ run' = [run EXCEPT ![s] = <<>>] /\ tasks' = [tasks EXCEPT ![s] = <<>>]
    BY <1>3, SideShape, Unchanged DEF Waits4Hello, Joins, GivesUp, Joined, Sound, Starting
  <2>2. Listens(s)
    BY <1>3, Listening DEF Waits4Hello, Joins, GivesUp
  <2> PICK w \in Seq(Event) :
        wire' = [wire EXCEPT ![s] = w] /\ Elements(w) \subseteq Elements(wire[s])
    BY <2>2, WireShape
  <2>3. CASE Joins
    <3> PICK c : c = [conn[s] EXCEPT !.state = "handshake"]
      OBVIOUS
    <3>1. c \in Channel /\ c.state = "handshake"
      BY <2>1 DEF Channel
    <3>2. /\ conn' = [conn EXCEPT ![s] = c] /\ flow' = [flow EXCEPT ![s] = "probe"]
          /\ page' \in [Side -> Page]
      BY <2>3, Unchanged DEF Joins, Joined
    <3>3. Sound(s, "probe", c, <<>>, <<>>, w)
      BY <2>1, <3>1, NoElements DEF Sound, Spoken, Starting, Running
    <3>4. Moves(s, "probe", c, <<>>, <<>>, w)
      BY <2>1, <3>1, <3>2 DEF Moves
    <3> QED BY <3>3, <3>4, SideStep
  <2>4. CASE GivesUp
    <3>1. "error" \in Page
      BY DEF Page
    <3>2. /\ conn' = [conn EXCEPT ![s] = conn[s]] /\ flow' = [flow EXCEPT ![s] = "idle"]
          /\ page' \in [Side -> Page]
      BY <2>4, <3>1, Unchanged, ShowTyped DEF GivesUp
    <3>3. Sound(s, "idle", conn[s], <<>>, <<>>, w)
      BY <2>1, NoElements DEF Sound, Spoken, Starting, Running
    <3>4. Moves(s, "idle", conn[s], <<>>, <<>>, w)
      BY <2>1, <3>2 DEF Moves
    <3> QED BY <3>3, <3>4, SideStep
  <2> QED BY <1>3, <2>3, <2>4 DEF Waits4Hello
<1> QED BY <1>1, <1>2, <1>3

(* A step of the page, by what it queues.                                  *)
LEMMA Queueing ==
  ASSUME Shape, NEW p \in Side, NEW ts \in Seq(Task), NEW closes \in BOOLEAN,
         NEW those, Elements(ts) \subseteq those,
         tasks' = [tasks EXCEPT ![p] = @ \o ts],
         conn' = [conn EXCEPT ![p].selfClosed = closes],
         ts # <<>> => conn[p].state \notin {"none", "hello"},
         conn[p].state = "none" => ~closes,
         conn[p].selfClosed \/ Close \in Elements(ts) => closes,
         UNCHANGED <<run, wire, air>>
  PROVE  Queues(p, those)
BY DEF Queues

LEMMA QueuesNothing ==
  ASSUME Shape, NEW p \in Side, UNCHANGED <<conn, tasks, run, wire, air>>
  PROVE  Queues(p, {})
<1>1. /\ conn \in [Side -> Channel] /\ tasks[p] \in Seq(Task)
      /\ conn[p].state = "none" => conn[p] = NoChannel
      /\ tasks \in [Side -> Seq(Task)]
  BY SideShape DEF Shape, Typed, Sound, Starting
<1> PICK b \in BOOLEAN : b = conn[p].selfClosed
  BY <1>1 DEF Channel
<1>2. <<>> \in Seq(Task) /\ Elements(<<>>) = {} /\ tasks[p] \o <<>> = tasks[p]
  BY <1>1, NoElements, ConcatEmptySeq
<1>3. tasks' = [tasks EXCEPT ![p] = @ \o <<>>]
  BY <1>1, <1>2
<1>4. conn' = [conn EXCEPT ![p].selfClosed = b]
  BY <1>1 DEF Channel
<1>5. conn[p].state = "none" => ~b
  BY <1>1 DEF NoChannel
<1> QED BY <1>2, <1>3, <1>4, <1>5, Queueing

LEMMA QueuesOne ==
  ASSUME Shape, NEW p \in Side, NEW t \in Outgoing(p), t # Close,
         tasks' = [tasks EXCEPT ![p] = Append(@, t)],
         conn[p].state \notin {"none", "hello"}, UNCHANGED <<conn, run, wire, air>>
  PROVE  Queues(p, {t})
<1>1. /\ conn \in [Side -> Channel] /\ tasks[p] \in Seq(Task) /\ t \in Task
      /\ tasks \in [Side -> Seq(Task)]
  BY SideShape, OutgoingTyped DEF Shape, Typed
<1> PICK b \in BOOLEAN : b = conn[p].selfClosed
  BY <1>1 DEF Channel
<1>2. <<t>> \in Seq(Task) /\ Elements(<<t>>) = {t} /\ tasks[p] \o <<t>> = Append(tasks[p], t)
  BY <1>1, OneElement, Added
<1>3. tasks' = [tasks EXCEPT ![p] = @ \o <<t>>]
  BY <1>1, <1>2
<1>4. conn' = [conn EXCEPT ![p].selfClosed = b]
  BY <1>1 DEF Channel
<1>5. Elements(<<t>>) \subseteq {t} /\ Close \notin Elements(<<t>>)
  BY <1>2
<1> QED BY <1>2, <1>3, <1>4, <1>5, Queueing

(* The end of a channel: the close, then the messages that are refused     *)
(* after it.                                                               *)
LEMMA QueuesClose ==
  ASSUME Shape, NEW p \in Side, NEW sends \in Seq(Task), Elements(sends) \subseteq Outgoing(p),
         conn' = [conn EXCEPT ![p].selfClosed = @ \/ Usable(conn[p])],
         tasks' = [tasks EXCEPT ![p] = @ \o Queued(p, <<Close>> \o sends)],
         UNCHANGED <<run, wire, air>>
  PROVE  Queues(p, IF Usable(conn[p]) THEN Elements(sends) \union {Close} ELSE {})
<1>1. /\ conn[p] \in Channel
      /\ conn[p].state = "none" => conn[p] = NoChannel
      /\ Close \in Task /\ Close \in Outgoing(p)
  BY SideShape, OutgoingTyped DEF Sound, Starting
<1> PICK b \in BOOLEAN : b = (conn[p].selfClosed \/ Usable(conn[p]))
  BY <1>1 DEF Channel
<1> PICK all : all = <<Close>> \o sends
  OBVIOUS
<1> PICK ts : ts = Queued(p, all)
  OBVIOUS
<1>2. <<Close>> \in Seq(Task) /\ Elements(<<Close>>) = {Close}
  BY <1>1, OneElement
<1>3. all \in Seq(Task) /\ Elements(all) = Elements(sends) \union {Close}
  <2> PICK last : last = <<Close>>
    OBVIOUS
  <2>1. last \in Seq(Task) /\ Elements(last) = {Close} /\ all = last \o sends
    BY <1>2
  <2> QED BY ONLY <2>1, sends \in Seq(Task), Joint
<1>4. ts = IF Usable(conn[p]) THEN all ELSE <<>>
  BY DEF Queued
<1>5. <<>> \in Seq(Task) /\ Elements(<<>>) = {}
  BY NoElements
<1>6. CASE Usable(conn[p])
  <2>1. /\ ts = all /\ b /\ conn[p].state \notin {"none", "hello"}
    BY <1>4, <1>6 DEF Usable
  <2>2. ts \in Seq(Task) /\ Elements(ts) = Elements(sends) \union {Close}
    BY <1>3, <2>1
  <2>3. /\ tasks' = [tasks EXCEPT ![p] = @ \o ts]
        /\ conn' = [conn EXCEPT ![p].selfClosed = b]
    OBVIOUS
  <2>4. Queues(p, Elements(sends) \union {Close})
    BY <2>1, <2>2, <2>3, Queueing
  <2> QED BY <1>6, <2>4
<1>7. CASE ~Usable(conn[p])
  <2>1. /\ ts = <<>> /\ b = conn[p].selfClosed
        /\ conn[p].state = "none" => ~b
    BY <1>1, <1>4, <1>7 DEF NoChannel, Channel
  <2>2. ts \in Seq(Task) /\ Elements(ts) = {}
    BY <1>5, <2>1
  <2>3. /\ tasks' = [tasks EXCEPT ![p] = @ \o ts]
        /\ conn' = [conn EXCEPT ![p].selfClosed = b]
    OBVIOUS
  <2>4. Queues(p, {})
    BY <2>1, <2>2, <2>3, Queueing
  <2> QED BY <1>7, <2>4
<1> QED BY <1>6, <1>7

(* What the page itself does, and its user.                                *)
PageStep ==
    \/ \E p \in Side : ConnectFails(p) \/ Leave(p)
    \/ Probe \/ Request \/ GetCode \/ Approve \/ Decline

(* When it says something, and when it goes on to wait for something.      *)
Minds(p, step, those) ==
    /\ p = "auth" /\ page["auth"] # "confirming" =>
          /\ page'["auth"] \in {page["auth"], "error", "left"}
          /\ flow["auth"] # "code" => those \subseteq {Close} /\ step \in {flow["auth"], "idle"}
    /\ p = "supp" =>
          /\ \/ those = {} \/ conn["supp"].state = "connected"
             \/ those \subseteq {Close} /\ flow["supp"] = "idle" /\ Usable(conn["supp"])
          /\ \/ step \in {flow["supp"], "request"} \/ ~Usable(conn["supp"])
             \/ conn["supp"].state \in {"connected", "failed"}

Pages(p, step, those) ==
    /\ Queues(p, those) /\ Minds(p, step, those)
    /\ flow' = [flow EXCEPT ![p] = step] /\ page' \in [Side -> Page]
    /\ \A q \in Side : q # p => page'[q] = page[q]
    /\ \/ step \in {flow[p], "send", "idle"}
       \/ step \in {"probe", "request"} /\ p = "supp"
       \/ step = "code" /\ p = "auth"
    /\ UNCHANGED relayed /\ declined' \in BOOLEAN /\ faults' \in 0..MaxFaults

LEMMA PageActs ==
  ASSUME Shape, PageStep
  PROVE  \E p \in Side : \E step : \E those \in SUBSET Outgoing(p) : Pages(p, step, those)
<1> PICK a \in Side, s \in Side : a = "auth" /\ s = "supp"
  BY DEF Side
<1>1. {"error", "authorizing", "left"} \subseteq Page
  BY DEF Page
<1>2. /\ faults \in 0..MaxFaults /\ declined \in BOOLEAN
      /\ page \in [Side -> Page] /\ flow \in [Side -> {"connect", "probe", "request", "code", "send", "idle"}]
      /\ \A p \in Side : Starting(p, flow[p], conn[p], tasks[p], run[p], wire[p])
      /\ \A p \in Side : page[p] \in Page /\ {} \in SUBSET Outgoing(p)
  BY SideShape DEF Shape, Typed, Sound
<1>3. ASSUME NEW p \in Side, Show(p, "error")
      PROVE  /\ page' \in [Side -> Page] /\ page'[p] \in {"error", "left"}
             /\ \A q \in Side : q # p => page'[q] = page[q]
  BY <1>1, <1>3, ShowTyped
<1>4. CASE \E p \in Side : ConnectFails(p)
  <2> PICK p \in Side : ConnectFails(p)
    BY <1>4
  <2>1. Show(p, "error") /\ flow' = [flow EXCEPT ![p] = "idle"] /\ ~Usable(conn[p])
        /\ UNCHANGED <<conn, tasks, run, wire, air, relayed, declined, faults>>
    BY DEF ConnectFails, Usable
  <2>2. Queues(p, {})
    BY <2>1, QueuesNothing
  <2>3. Minds(p, "idle", {})
    BY <1>3, <2>1 DEF Minds
  <2> QED BY <1>2, <1>3, <2>1, <2>2, <2>3 DEF Pages
<1>5. CASE \E p \in Side : Leave(p)
  <2> PICK p \in Side : Leave(p)
    BY <1>5
  <2>1. <<>> \in Seq(Task) /\ Elements(<<>>) = {} /\ <<Close>> \o <<>> = <<Close>>
    BY NoElements
  <2>2. /\ page' = [page EXCEPT ![p] = "left"] /\ faults' \in 0..MaxFaults
        /\ flow' = [flow EXCEPT ![p] = flow[p]] /\ flow[p] = "idle"
        /\ UNCHANGED <<run, wire, air, relayed>> /\ declined' \in BOOLEAN
    BY <1>2, FailsTyped DEF Leave
  <2>3. /\ conn' = [conn EXCEPT ![p].selfClosed = @ \/ Usable(conn[p])]
        /\ tasks' = [tasks EXCEPT ![p] = @ \o Queued(p, <<Close>> \o <<>>)]
    BY <2>1 DEF Leave
  <2> PICK those : those = IF Usable(conn[p]) THEN Elements(<<>>) \union {Close} ELSE {}
    OBVIOUS
  <2>4. Queues(p, those)
    BY <2>1, <2>2, <2>3, QueuesClose
  <2>5. those \in SUBSET Outgoing(p) /\ those \subseteq {Close} /\ (those = {} \/ Usable(conn[p]))
    BY <2>1, OutgoingTyped
  <2>6. page' \in [Side -> Page] /\ page'[p] = "left" /\ \A q \in Side : q # p => page'[q] = page[q]
    BY <1>1, <1>2, <2>2
  <2>7. Minds(p, flow[p], those)
    BY <2>2, <2>5, <2>6 DEF Minds
  <2> QED BY <2>2, <2>4, <2>5, <2>6, <2>7 DEF Pages
<1>6. CASE Probe
  <2> PICK step : step = IF Usable(conn[s]) THEN "request" ELSE "idle"
    OBVIOUS
  <2>1. /\ flow' = [flow EXCEPT ![s] = step] /\ (UNCHANGED page \/ Show(s, "error"))
        /\ UNCHANGED <<conn, tasks, run, wire, air, relayed, declined, faults>>
    BY <1>6 DEF Probe
  <2>2. Queues(s, {})
    BY <2>1, QueuesNothing
  <2>3. Minds(s, step, {})
    BY DEF Minds
  <2>4. page' \in [Side -> Page] /\ \A q \in Side : q # s => page'[q] = page[q]
    BY <1>2, <1>3, <2>1
  <2>5. step \in {"request", "idle"} /\ {} \in SUBSET Outgoing(s)
    BY <1>2
  <2> QED BY <1>2, <2>1, <2>2, <2>3, <2>4, <2>5 DEF Pages
<1>7. CASE Request
  <2>1. UNCHANGED <<conn, run, wire, air, relayed, declined, faults>>
    BY <1>7 DEF Request
  <2>2. CASE /\ conn[s].state = "connected"
             /\ tasks' = [tasks EXCEPT ![s] = Append(@, Send("request"))]
             /\ flow' = [flow EXCEPT ![s] = "send"]
             /\ UNCHANGED page
    <3>1. Send("request") \in Outgoing(s) /\ Send("request") # Close
      BY OutgoingTyped DEF Send, Close
    <3>2. Queues(s, {Send("request")})
      BY <2>1, <2>2, <3>1, QueuesOne
    <3>3. Minds(s, "send", {Send("request")})
      BY <2>2 DEF Minds
    <3>4. {Send("request")} \in SUBSET Outgoing(s)
      BY <3>1
    <3> QED BY <1>2, <2>1, <2>2, <3>2, <3>3, <3>4 DEF Pages
  <2>3. CASE /\ conn[s].state = "failed"
             /\ Show(s, "error") /\ flow' = [flow EXCEPT ![s] = "idle"] /\ UNCHANGED tasks
    <3>1. Queues(s, {})
      BY <2>1, <2>3, QueuesNothing
    <3>2. Minds(s, "idle", {})
      BY <2>3 DEF Minds
    <3> QED BY <1>2, <1>3, <2>1, <2>3, <3>1, <3>2 DEF Pages
  <2> QED BY <1>7, <2>2, <2>3 DEF Request
<1>8. CASE GetCode
  <2>1. UNCHANGED <<conn, run, wire, air, relayed, declined, faults>> /\ flow[a] = "code"
    BY <1>8 DEF GetCode
  <2>2. CASE /\ Usable(conn[a])
             /\ tasks' = [tasks EXCEPT ![a] = Append(@, Send("authorize"))]
             /\ flow' = [flow EXCEPT ![a] = "send"]
             /\ UNCHANGED page
    <3>1. Send("authorize") \in Outgoing(a) /\ Send("authorize") # Close
      BY OutgoingTyped DEF Send, Close
    <3>2. conn[a].state \notin {"none", "hello"}
      BY <2>2 DEF Usable
    <3>3. Queues(a, {Send("authorize")})
      BY <2>1, <2>2, <3>1, <3>2, QueuesOne
    <3>4. Minds(a, "send", {Send("authorize")})
      BY <2>1, <2>2 DEF Minds
    <3>5. {Send("authorize")} \in SUBSET Outgoing(a)
      BY <3>1
    <3> QED BY <1>2, <2>1, <2>2, <3>3, <3>4, <3>5 DEF Pages
  <2>3. CASE /\ Show(a, "error") /\ flow' = [flow EXCEPT ![a] = "idle"] /\ UNCHANGED tasks
    <3>1. Queues(a, {})
      BY <2>1, <2>3, QueuesNothing
    <3>2. Minds(a, "idle", {})
      BY <1>3, <2>1, <2>3 DEF Minds
    <3> QED BY <1>2, <1>3, <2>1, <2>3, <3>1, <3>2 DEF Pages
  <2> QED BY <1>8, <2>2, <2>3 DEF GetCode
<1>9. CASE Approve
  <2>1. /\ page[a] = "confirming" /\ page' = [page EXCEPT ![a] = "authorizing"]
        /\ flow' = [flow EXCEPT ![a] = "code"]
        /\ UNCHANGED <<conn, tasks, run, wire, air, relayed, declined, faults>>
    BY <1>9 DEF Approve
  <2>2. Queues(a, {})
    BY <2>1, QueuesNothing
  <2>3. Minds(a, "code", {})
    BY <2>1 DEF Minds
  <2>4. page' \in [Side -> Page] /\ \A q \in Side : q # a => page'[q] = page[q]
    BY <1>1, <1>2, <2>1
  <2> QED BY <1>2, <2>1, <2>2, <2>3, <2>4 DEF Pages
<1>10. CASE Decline
  <2>1. /\ UNCHANGED <<run, wire, air, relayed, faults>> /\ declined' \in BOOLEAN
        /\ flow' = [flow EXCEPT ![a] = flow[a]]
    BY <1>2, <1>10 DEF Decline
  <2>2. PICK sends : /\ CloseWith(sends)
                     /\ \/ sends = <<>>
                        \/ sends = <<Send("cancel"), Send("decline")>> /\ page[a] = "confirming"
    BY <1>10 DEF Decline
  <2>3. /\ sends \in Seq(Task) /\ Elements(sends) \subseteq Outgoing(a)
        /\ Elements(sends) = {} \/ page[a] = "confirming"
    <3>1. <<>> \in Seq(Task) /\ Elements(<<>>) = {}
      BY NoElements
    <3>2. Outgoing(a) \subseteq Task /\ Send("cancel") \in Outgoing(a) /\ Send("decline") \in Outgoing(a)
      BY OutgoingTyped
    <3>3. ASSUME NEW t \in Outgoing(a), NEW u \in Outgoing(a)
          PROVE  <<t, u>> \in Seq(Task) /\ Elements(<<t, u>>) \subseteq Outgoing(a)
      <4>1. t \in Task /\ u \in Task
        BY <3>2
      <4>2. <<t, u>> \in Seq(Task)
        BY <4>1
      <4>3. Elements(<<t, u>>) = {t, u}
        BY DEF Elements
      <4> QED BY <4>2, <4>3
    <3> QED BY <2>2, <3>1, <3>2, <3>3
  <2>4. Show(a, "error")
    BY <2>2 DEF CloseWith
  <2> PICK those : those = IF Usable(conn[a]) THEN Elements(sends) \union {Close} ELSE {}
    OBVIOUS
  <2>5. Queues(a, those)
    BY <2>1, <2>2, <2>3, QueuesClose DEF CloseWith
  <2>6. those \in SUBSET Outgoing(a) /\ (those \subseteq {Close} \/ page[a] = "confirming")
    BY <2>3, OutgoingTyped
  <2>7. Minds(a, flow[a], those)
    BY <1>3, <2>4, <2>6 DEF Minds
  <2> QED BY <1>2, <1>3, <2>1, <2>4, <2>5, <2>6, <2>7 DEF Pages
<1> QED BY <1>4, <1>5, <1>6, <1>7, <1>8, <1>9, <1>10 DEF PageStep

LEMMA PageShape ==
  ASSUME Shape, PageStep
  PROVE  Shape'
<1> PICK p \in Side : \E step : \E those \in SUBSET Outgoing(p) : Pages(p, step, those)
  BY PageActs
<1> PICK step : \E those \in SUBSET Outgoing(p) : Pages(p, step, those)
  OBVIOUS
<1> PICK those \in SUBSET Outgoing(p) : Pages(p, step, those)
  OBVIOUS
<1> QED BY QueuesShape DEF Pages

(* Channels that begin and end.                                            *)
LEMMA OpenShape ==
  ASSUME Shape, CreateChannel \/ JoinChannel
  PROVE  Shape'
<1> PICK a \in Side, s \in Side : a = "auth" /\ s = "supp"
  BY DEF Side
<1>1. /\ faults \in 0..MaxFaults /\ declined \in BOOLEAN /\ relayed \subseteq {"request", "authorize"}
      /\ \A p \in Side : Sound(p, flow[p], conn[p], tasks[p], run[p], wire[p])
      /\ \A p \in Side : wire[p] \in Seq(Event) /\ tasks[p] \in Seq(Task)
      /\ <<>> \in Seq(What)
  BY SideShape
<1>2. CASE CreateChannel
  <2> PICK c : c = [NoChannel EXCEPT !.state = "handshake", !.socket = "open", !.heard = TRUE]
    OBVIOUS
  <2>1. c \in Channel /\ c.state = "handshake"
    BY DEF Channel, NoChannel
  <2>2. conn[a].state = "none" /\ tasks[a] = <<>> /\ run[a] = <<>> /\ wire[a] = <<>>
    BY <1>1, <1>2 DEF CreateChannel, Sound, Starting
  <2>3. "showing-qr" \in Page
    BY DEF Page
  <2>4. /\ conn' = [conn EXCEPT ![a] = c] /\ flow' = [flow EXCEPT ![a] = "idle"]
        /\ tasks' = [tasks EXCEPT ![a] = tasks[a]] /\ run' = [run EXCEPT ![a] = <<>>]
        /\ wire' = [wire EXCEPT ![a] = wire[a]] /\ page' \in [Side -> Page]
        /\ UNCHANGED <<air, relayed, declined, faults>>
    BY <1>2, <2>2, <2>3, Unchanged, ShowTyped DEF CreateChannel
  <2>5. Sound(a, "idle", c, tasks[a], <<>>, wire[a])
    BY <1>1, <2>1, <2>2 DEF Sound, Starting, Running, Spoken
  <2>6. Moves(a, "idle", c, tasks[a], <<>>, wire[a])
    BY <1>1, <2>1, <2>4 DEF Moves
  <2> QED BY <2>5, <2>6, SideStep
<1>3. CASE JoinChannel
  <2> PICK c : c = [NoChannel EXCEPT !.state = "hello", !.socket = "open", !.sent = 1]
    OBVIOUS
  <2> PICK r : r = <<"handshake">>
    OBVIOUS
  <2> PICK f : f = [from |-> s, n |-> 1, what |-> "handshake", there |-> FALSE]
    OBVIOUS
  <2>1. c \in Channel /\ c.state = "hello" /\ ~c.sendClosed
    BY DEF Channel, NoChannel
  <2>2. conn[s].state = "none" /\ tasks[s] = <<>> /\ wire[s] = <<>> /\ flow[s] = "connect"
    BY <1>1, <1>3 DEF JoinChannel, Sound, Starting
  <2>3. r \in Seq(What) /\ Elements(r) = {"handshake"}
    <3>1. "handshake" \in What
      BY DEF What
    <3> QED BY <3>1, OneElement
  <2>4. f \in Frame /\ f.from = s /\ f.what \in Frames(s)
    BY DEF Frame, Frames, What
  <2>5. /\ conn' = [conn EXCEPT ![s] = c] /\ flow' = [flow EXCEPT ![s] = "connect"]
        /\ tasks' = [tasks EXCEPT ![s] = tasks[s]] /\ run' = [run EXCEPT ![s] = r]
        /\ wire' = [wire EXCEPT ![s] = wire[s]] /\ page' \in [Side -> Page]
        /\ air' = air \union {f} /\ UNCHANGED <<relayed, declined, faults>>
    BY <1>3, <2>2, Unchanged DEF JoinChannel
  <2>6. Sound(s, "connect", c, tasks[s], r, wire[s])
    <3>1. Spoken(s, tasks[s], r, wire[s])
      BY <1>1, <2>3 DEF Sound, Spoken, Frames
    <3>2. Starting(s, "connect", c, tasks[s], r, wire[s])
      BY <2>1, <2>2 DEF Starting
    <3>3. Running(c, tasks[s], r)
      BY <2>1 DEF Running, Live
    <3> QED BY <3>1, <3>2, <3>3 DEF Sound
  <2>7. Moves(s, "connect", c, tasks[s], r, wire[s])
    <3>1. \A g \in air' : g \in air \/ (g \in Frame /\ g.from = s /\ g.what \in Frames(g.from))
      BY <2>4, <2>5
    <3> QED BY <1>1, <2>1, <2>3, <2>5, <3>1 DEF Moves
  <2> QED BY <2>6, <2>7, SideStep
<1> QED BY <1>2, <1>3

LEMMA VanishShape ==
  ASSUME Shape, NEW p \in Side, Vanish(p)
  PROVE  Shape'
<1>1. /\ faults' \in 0..MaxFaults /\ declined \in BOOLEAN /\ relayed \subseteq {"request", "authorize"}
      /\ conn[p] \in Channel /\ page \in [Side -> Page]
      /\ <<>> \in Seq(What) /\ <<>> \in Seq(Task) /\ <<>> \in Seq(Event)
  BY SideShape, FailsTyped DEF Shape, Typed, Vanish
<1> PICK c : c = [conn[p] EXCEPT !.state = "failed", !.socket = "shut"]
  OBVIOUS
<1>2. c \in Channel /\ c.state = "failed"
  BY <1>1 DEF Channel
<1>3. /\ conn' = [conn EXCEPT ![p] = c] /\ flow' = [flow EXCEPT ![p] = "idle"]
      /\ tasks' = [tasks EXCEPT ![p] = <<>>] /\ run' = [run EXCEPT ![p] = <<>>]
      /\ wire' = [wire EXCEPT ![p] = <<>>] /\ UNCHANGED <<air, relayed, declined>>
  BY DEF Vanish
<1>4. page' \in [Side -> Page]
  BY <1>1 DEF Vanish, Page
<1>5. Sound(p, "idle", c, <<>>, <<>>, <<>>)
  BY <1>2, NoElements DEF Sound, Spoken, Starting, Running
<1>6. Moves(p, "idle", c, <<>>, <<>>, <<>>)
  BY <1>1, <1>2, <1>3, <1>4 DEF Moves
<1> QED BY <1>5, <1>6, SideStep

LEMMA EventAdded ==
  ASSUME NEW s \in Seq(Event), NEW e \in Event
  PROVE  Append(s, e) \in Seq(Event) /\ Elements(Append(s, e)) = Elements(s) \union {e}
<1> PICK S : S = Event
  OBVIOUS
<1>1. s \in Seq(S) /\ e \in S
  OBVIOUS
<1>2. /\ Append(s, e) \in Seq(S) /\ Elements(Append(s, e)) = Elements(s) \union {e}
      /\ Append(s, e) = s \o <<e>>
  BY ONLY <1>1, Added
<1> QED BY <1>2

(* What the socket brings.                                                 *)
LEMMA SocketShape ==
  ASSUME Shape, NEW p \in Side,
         \/ HearFrame(p) \/ HearGone(p)
         \/ SocketCloses(p) /\ faults' \in 0..MaxFaults
  PROVE  Shape'
<1>1. /\ faults \in 0..MaxFaults /\ declined \in BOOLEAN /\ relayed \subseteq {"request", "authorize"}
      /\ conn[p] \in Channel /\ page[p] \in Page
      /\ run[p] \in Seq(What) /\ tasks[p] \in Seq(Task) /\ wire[p] \in Seq(Event)
      /\ Sound(p, flow[p], conn[p], tasks[p], run[p], wire[p])
      /\ flow[p] \in {"connect", "probe", "request", "code", "send", "idle"}
  BY SideShape
<1>2. CASE HearFrame(p)
  <2>1. wire[p] # <<>> /\ Heard(p) /\ Head(wire[p]).what \in What
    BY <1>2 DEF HearFrame
  <2>2. PICK w \in Seq(Event) :
          wire' = [wire EXCEPT ![p] = w] /\ Elements(w) \subseteq Elements(wire[p])
    BY <2>1, WireShape DEF Listens
  <2>3. Head(wire[p]) \in Arriving(p)
    <3>1. Head(wire[p]) \in Elements(wire[p])
      BY <1>1, <2>1, HeadTail
    <3>2. "ack" \notin What /\ "gone" \notin What
      BY DEF What, Message
    <3> QED BY <1>1, <2>1, <3>1, <3>2 DEF Sound, Spoken, Ack, Gone
  <2> PICK t : t = [do |-> "recv", what |-> Head(wire[p]).what, n |-> Head(wire[p]).n]
    OBVIOUS
  <2>4. t \in Incoming(p) /\ t \in Task
    BY <2>1, <2>3 DEF Arriving, Incoming, Task
  <2> PICK ts : ts = IF Usable(conn[p]) THEN Append(tasks[p], t) ELSE tasks[p]
    OBVIOUS
  <2>5. /\ ts \in Seq(Task) /\ Elements(ts) \subseteq Elements(tasks[p]) \union {t}
        /\ tasks[p] # <<>> => ts # <<>> /\ Head(ts) = Head(tasks[p])
        /\ ~Usable(conn[p]) => ts = tasks[p]
    <3>1. t \in Task /\ tasks[p] \in Seq(Task)
      BY <1>1, <2>4
    <3>2. <<t>> \in Seq(Task)
      BY <3>1
    <3>3. /\ Append(tasks[p], t) \in Seq(Task) /\ Append(tasks[p], t) = tasks[p] \o <<t>>
          /\ Elements(Append(tasks[p], t)) = Elements(tasks[p]) \union {t}
      BY ONLY <3>1, Added
    <3>4. tasks[p] # <<>> => Append(tasks[p], t) # <<>> /\ Head(Append(tasks[p], t)) = Head(tasks[p])
      BY ONLY <3>1, <3>2, <3>3, HeadTailConcat
    <3> QED BY <3>1, <3>3, <3>4
  <2>6. /\ flow' = [flow EXCEPT ![p] = flow[p]] /\ conn' = [conn EXCEPT ![p] = conn[p]]
        /\ tasks' = [tasks EXCEPT ![p] = ts] /\ run' = [run EXCEPT ![p] = run[p]]
        /\ page' \in [Side -> Page] /\ UNCHANGED <<air, relayed, declined, faults>>
    BY <1>2, Unchanged DEF HearFrame
  <2>7. Sound(p, flow[p], conn[p], ts, run[p], w)
    <3>1. Spoken(p, ts, run[p], w)
      BY <1>1, <2>2, <2>4, <2>5 DEF Sound, Spoken
    <3>2. Starting(p, flow[p], conn[p], ts, run[p], w)
      BY <1>1, <2>1, <2>5 DEF Sound, Starting, Usable
    <3>3. Running(conn[p], ts, run[p])
      BY <1>1, <2>5 DEF Sound, Running
    <3> QED BY <3>1, <3>2, <3>3 DEF Sound
  <2>8. Moves(p, flow[p], conn[p], ts, run[p], w)
    BY <1>1, <2>2, <2>5, <2>6 DEF Moves
  <2> QED BY <2>7, <2>8, SideStep
<1>3. CASE HearGone(p)
  <2>1. wire[p] # <<>> /\ Heard(p)
    BY <1>3 DEF HearGone, Hears
  <2>2. PICK w \in Seq(Event) :
          wire' = [wire EXCEPT ![p] = w] /\ Elements(w) \subseteq Elements(wire[p])
    BY <2>1, WireShape DEF Listens
  <2> PICK c : c = Shut(conn[p])
    OBVIOUS
  <2>3. /\ c \in Channel /\ c.state = conn[p].state /\ c.sendClosed = conn[p].sendClosed
        /\ c.got = conn[p].got
    BY <1>1 DEF Shut, Channel
  <2>4. conn[p].state # "none"
    BY <1>1, <2>1 DEF Sound, Starting
  <2>5. {"error", page[p]} \subseteq Page
    BY <1>1 DEF Page
  <2>6. /\ flow' = [flow EXCEPT ![p] = flow[p]] /\ conn' = [conn EXCEPT ![p] = c]
        /\ tasks' = [tasks EXCEPT ![p] = tasks[p]] /\ run' = [run EXCEPT ![p] = run[p]]
        /\ UNCHANGED <<air, relayed, declined, faults>>
    BY <1>3, Unchanged DEF HearGone
  <2>7. page' \in [Side -> Page]
    BY <1>3, <2>5, ShowTyped DEF HearGone, OnError
  <2>8. Sound(p, flow[p], c, tasks[p], run[p], w)
    BY <1>1, <2>2, <2>3, <2>4 DEF Sound, Spoken, Starting, Running, Live
  <2>9. Moves(p, flow[p], c, tasks[p], run[p], w)
    BY <1>1, <2>2, <2>3, <2>4, <2>6, <2>7 DEF Moves
  <2> QED BY <2>8, <2>9, SideStep
<1>4. CASE SocketCloses(p) /\ faults' \in 0..MaxFaults
  <2> PICK c : c = [conn[p] EXCEPT !.socket = "lost"]
    OBVIOUS
  <2>1. /\ c \in Channel /\ c.state = conn[p].state /\ c.sendClosed = conn[p].sendClosed
        /\ c.got = conn[p].got
    BY <1>1 DEF Channel
  <2>2. conn[p].state # "none"
    BY <1>1, <1>4 DEF SocketCloses, Sound, Starting, NoChannel
  <2>3. Gone \in Event /\ Gone = [what |-> "gone", n |-> 0]
    BY DEF Event, Gone
  <2> PICK w : w = Append(wire[p], Gone)
    OBVIOUS
  <2>4. w \in Seq(Event) /\ Elements(w) = Elements(wire[p]) \union {Gone}
    <3>1. wire[p] \in Seq(Event) /\ Gone \in Event
      BY <1>1, <2>3
    <3> QED BY <3>1, EventAdded
  <2>5. /\ flow' = [flow EXCEPT ![p] = flow[p]] /\ conn' = [conn EXCEPT ![p] = c]
        /\ tasks' = [tasks EXCEPT ![p] = tasks[p]] /\ run' = [run EXCEPT ![p] = run[p]]
        /\ wire' = [wire EXCEPT ![p] = w] /\ page' \in [Side -> Page]
        /\ UNCHANGED <<air, relayed, declined>>
    BY <1>4, <2>3, Unchanged DEF SocketCloses
  <2>6. Sound(p, flow[p], c, tasks[p], run[p], w)
    BY <1>1, <2>1, <2>2, <2>4 DEF Sound, Spoken, Starting, Running, Live
  <2>7. Moves(p, flow[p], c, tasks[p], run[p], w)
    BY <1>1, <1>4, <2>1, <2>2, <2>4, <2>5 DEF Moves
  <2> QED BY <2>6, <2>7, SideStep
<1> QED BY <1>2, <1>3, <1>4

(* The relay.                                                              *)
LEMMA RelayShape ==
  ASSUME Shape, NEW f \in air, RelayFrame(f) \/ PostAck(f) \/ RelayDies(f)
  PROVE  Shape'
<1>1. /\ f \in Frame /\ f.from \in Side /\ f.what \in Frames(f.from)
      /\ faults' \in 0..MaxFaults /\ declined \in BOOLEAN /\ relayed' \subseteq {"request", "authorize"}
      /\ \A p \in Side : /\ conn[p] \in Channel /\ page[p] \in Page
                         /\ run[p] \in Seq(What) /\ tasks[p] \in Seq(Task) /\ wire[p] \in Seq(Event)
                         /\ Sound(p, flow[p], conn[p], tasks[p], run[p], wire[p])
                         /\ flow[p] \in {"connect", "probe", "request", "code", "send", "idle"}
  BY SideShape, FailsTyped DEF Shape, Typed, Frame, RelayFrame, PostAck, RelayDies
<1> PICK q \in Side : q = Peer(f.from)
  BY <1>1 DEF Peer, Side
<1>2. f.from = Peer(q) /\ q # f.from
  BY <1>1 DEF Peer, Side
<1> PICK e : e = [what |-> f.what, n |-> f.n]
  OBVIOUS
<1> PICK g : g = [f EXCEPT !.there = TRUE]
  OBVIOUS
<1>3. /\ e \in Arriving(q) /\ e \in Event /\ Ack \in Event
      /\ g \in Frame /\ g.from = f.from /\ g.what = f.what
  BY <1>1, <1>2 DEF Arriving, Event, Frame, Ack
<1>4. ASSUME NEW p \in Side, NEW x \in Event, x \in Arriving(p) \union {Ack}, Post(p, x),
             UNCHANGED <<page, flow, conn, tasks, run, declined>>,
             \A h \in air' : h \in air \/ (h = g /\ g.from # p)
      PROVE  Shape'
  <2> PICK w : w = IF conn[p].socket = "open" THEN Append(wire[p], x) ELSE wire[p]
    OBVIOUS
  <2>1. /\ w \in Seq(Event) /\ Elements(w) \subseteq Elements(wire[p]) \union {x}
        /\ conn[p].state = "none" => w = wire[p]
    <3>1. conn[p].state = "none" => conn[p].socket # "open"
      BY <1>1 DEF Sound, Starting, NoChannel
    <3>2. wire[p] \in Seq(Event) /\ x \in Event
      BY <1>1, <1>4
    <3>3. /\ Append(wire[p], x) \in Seq(Event)
          /\ Elements(Append(wire[p], x)) = Elements(wire[p]) \union {x}
      BY <3>2, EventAdded
    <3> QED BY <3>1, <3>2, <3>3
  <2>2. /\ flow' = [flow EXCEPT ![p] = flow[p]] /\ conn' = [conn EXCEPT ![p] = conn[p]]
        /\ tasks' = [tasks EXCEPT ![p] = tasks[p]] /\ run' = [run EXCEPT ![p] = run[p]]
        /\ wire' = [wire EXCEPT ![p] = w] /\ page' \in [Side -> Page]
    BY <1>4, Unchanged DEF Post
  <2>3. Sound(p, flow[p], conn[p], tasks[p], run[p], w)
    BY <1>1, <1>4, <2>1 DEF Sound, Spoken, Starting
  <2>4. \A h \in air' : h \in air \/ (h \in Frame /\ h.what \in Frames(h.from)
                                       /\ h.from # p /\ \E k \in air : k.from = h.from)
    BY <1>1, <1>3, <1>4
  <2>5. Moves(p, flow[p], conn[p], tasks[p], run[p], w)
    BY <1>1, <1>4, <2>1, <2>2, <2>4 DEF Moves
  <2> QED BY <2>3, <2>5, SideStep
<1>5. CASE RelayFrame(f)
  <2>1. /\ Post(q, e) /\ UNCHANGED <<page, flow, conn, tasks, run, declined>>
        /\ air' = (air \ {f}) \union {g}
    BY <1>5 DEF RelayFrame
  <2> QED BY <1>2, <1>3, <1>4, <2>1
<1>6. CASE PostAck(f)
  <2>1. /\ Post(f.from, Ack) /\ UNCHANGED <<page, flow, conn, tasks, run, declined>>
        /\ air' = air \ {f}
    BY <1>6 DEF PostAck, Ack
  <2> QED BY <1>1, <1>3, <1>4, <2>1
<1>7. CASE RelayDies(f)
  <2>1. /\ air' = air \ {f} /\ UNCHANGED <<page, flow, conn, tasks, run, wire, declined>>
    BY <1>7 DEF RelayDies
  <2>2. Moves(q, flow[q], conn[q], tasks[q], run[q], wire[q])
    <3>1. /\ flow' = [flow EXCEPT ![q] = flow[q]] /\ conn' = [conn EXCEPT ![q] = conn[q]]
          /\ tasks' = [tasks EXCEPT ![q] = tasks[q]] /\ run' = [run EXCEPT ![q] = run[q]]
          /\ wire' = [wire EXCEPT ![q] = wire[q]] /\ page' \in [Side -> Page]
      BY <2>1, Unchanged
    <3> QED BY <1>1, <2>1, <3>1 DEF Moves
  <2> QED BY <1>1, <2>2, SideStep
<1> QED BY <1>5, <1>6, <1>7

LEMMA InitShape == Init => Shape
<1> SUFFICES ASSUME Init PROVE Shape
  OBVIOUS
<1>1. /\ NoChannel \in Channel /\ NoChannel.state = "none"
      /\ <<>> \in Seq(Task) /\ <<>> \in Seq(What) /\ <<>> \in Seq(Event)
  BY DEF NoChannel, Channel
<1>2. Typed
  <2>1. page \in [Side -> Page]
    BY DEF Init, Page, Side
  <2>2. tasks \in [Side -> Seq(Task)] /\ run \in [Side -> Seq(What)] /\ wire \in [Side -> Seq(Event)]
    BY <1>1 DEF Init
  <2>3. conn \in [Side -> Channel]
    BY <1>1 DEF Init
  <2>4. flow \in [Side -> {"connect", "probe", "request", "code", "send", "idle"}]
    BY DEF Init
  <2>5. faults \in 0..MaxFaults
    BY FaultsAssumption DEF Init
  <2>6. air \subseteq Frame /\ relayed \subseteq {"request", "authorize"} /\ declined \in BOOLEAN
    BY DEF Init
  <2> QED BY <2>1, <2>2, <2>3, <2>4, <2>5, <2>6 DEF Typed
<1>3. ASSUME NEW p \in Side
      PROVE  Sound(p, flow[p], conn[p], tasks[p], run[p], wire[p])
  <2>1. /\ flow[p] = "connect" /\ conn[p] = NoChannel
        /\ tasks[p] = <<>> /\ run[p] = <<>> /\ wire[p] = <<>>
    BY DEF Init
  <2>2. Spoken(p, <<>>, <<>>, <<>>)
    BY NoElements DEF Spoken
  <2>3. Starting(p, "connect", NoChannel, <<>>, <<>>, <<>>)
    BY <1>1 DEF Starting
  <2>4. Running(NoChannel, <<>>, <<>>)
    BY DEF Running
  <2> QED BY <2>1, <2>2, <2>3, <2>4 DEF Sound
<1> QED BY <1>2, <1>3 DEF Shape, Init

(* The steps, by who takes them.                                           *)
LEMMA NextShape == Shape /\ [Next]_vars => Shape'
<1> SUFFICES ASSUME Shape, [Next]_vars PROVE Shape'
  OBVIOUS
<1>1. faults \in 0..MaxFaults
  BY DEF Shape, Typed
<1>2. CASE UNCHANGED vars
  BY <1>2 DEF vars, Shape, Typed, Spoken, Sound, Starting, Running, Live
<1>3. CASE Open
  <2>1. CASE CreateChannel \/ JoinChannel
    BY <2>1, OpenShape
  <2>2. CASE \E p \in Side : ConnectFails(p)
    BY <2>2, PageShape DEF PageStep
  <2> QED BY <1>3, <2>1, <2>2 DEF Open
<1>4. CASE Probe \/ Request \/ GetCode
  BY <1>4, PageShape DEF PageStep
<1>5. CASE User
  <2>1. CASE Approve \/ Decline \/ \E p \in Side : Leave(p)
    BY <2>1, PageShape DEF PageStep
  <2>2. CASE \E p \in Side : Vanish(p)
    BY <2>2, VanishShape
  <2> QED BY <1>5, <2>1, <2>2 DEF User
<1>6. CASE \E p \in Side : Work(p) \/ AckTimeout(p)
  <2> PICK p \in Side : Work(p) \/ AckTimeout(p)
    BY <1>6
  <2>1. CASE Receive(p) \/ SendOrClose(p) \/ HearAck(p) \/ AckTimeout(p)
    <3>1. Works(p) \/ Waits4Hello
      BY <2>1, Working
    <3>2. faults' \in 0..MaxFaults
      <4>1. CASE AckTimeout(p)
        BY <1>1, <4>1, FailsTyped DEF AckTimeout
      <4>2. CASE Receive(p) \/ SendOrClose(p) \/ HearAck(p)
        BY <1>1, <4>2 DEF Receive, ReceiveHandshake, ReceiveMessage, ReceiveClose, ReceiveBad,
                          SendOrClose, HearAck
      <4> QED BY <2>1, <4>1, <4>2
    <3> QED BY <3>1, <3>2, WorksShape
  <2>2. CASE HearFrame(p) \/ HearGone(p)
    BY <2>2, SocketShape
  <2> QED BY <2>1, <2>2 DEF Work
<1>7. CASE \E p \in Side : NetworkBreaks(p) \/ GatewayCloses(p)
  <2> PICK p \in Side : NetworkBreaks(p) \/ GatewayCloses(p)
    BY <1>7
  <2>1. SocketCloses(p) /\ faults' \in 0..MaxFaults
    BY <1>1, FailsTyped DEF NetworkBreaks, GatewayCloses
  <2> QED BY <2>1, SocketShape
<1>8. CASE Relay
  BY <1>8, RelayShape DEF Relay
<1> QED BY <1>2, <1>3, <1>4, <1>5, <1>6, <1>7, <1>8 DEF Next

(* Every variable has its type, and whoever waits for the ack of a frame   *)
(* has the task it belongs to: whatever acks come early, late or not at    *)
(* all, HearAck and AckTimeout find the task they end (tlsconnection.ts:   *)
(* 106).                                                                   *)
THEOREM AckHasItsTask == Spec => []TypeOK
<1>1. Shape => TypeOK
  <2> SUFFICES ASSUME Shape PROVE TypeOK
    OBVIOUS
  <2>1. \A p \in Side :
          /\ tasks[p] \in Seq(Task) /\ run[p] \in Seq(What) /\ wire[p] \in Seq(Event)
          /\ run[p] # <<>> => tasks[p] # <<>> \/ conn[p].state = "hello"
    BY SideShape DEF Sound, Running, Live
  <2>2. \A f \in air : f.from \in Side /\ f.n \in Nat /\ f.what \in What
    BY DEF Shape, Typed, Frame
  <2> QED BY <2>1, <2>2 DEF TypeOK, Shape, Typed
<1>2. Spec => []Shape
  BY InitShape, NextShape, PTL DEF Spec
<1> QED BY <1>1, <1>2, PTL

-----------------------------------------------------------------------------
(***************************************************************************)
(* One frame at a time, and the ack is that of the last frame.             *)
(***************************************************************************)
Told == {"request", "authorize"}
From(p, frames) == {f \in frames : f.from = p}
Once(s, a) == \A i, j \in DOMAIN s : s[i] = a /\ s[j] = a => i = j
OneAck(s) == Once(s, Ack)
Paused(c, r) == r = <<>> /\ c.state \in {"none", "handshake", "connected"}

Paced(c, r, w, frames, done) ==
    /\ \A f, g \in frames : f = g
    /\ \A f \in frames : f.n = c.sent
    /\ Paused(c, r) => frames = {} /\ Ack \notin Elements(w)
    /\ r # <<>> =>
          /\ OneAck(w)
          /\ Ack \in Elements(w) => frames = {} /\ (Head(r) \in Told => Head(r) \in done)
          /\ \A f \in frames : f.what = Head(r) /\ (f.there /\ Head(r) \in Told => Head(r) \in done)

Pace == \A p \in Side : Paced(conn[p], run[p], wire[p], From(p, air), relayed)

LEMMA OnceTail ==
  ASSUME NEW S, NEW s \in Seq(S), s # <<>>, NEW a, Once(s, a)
  PROVE  Once(Tail(s), a) /\ (Head(s) = a => a \notin Elements(Tail(s)))
<1>1. /\ Head(s) = s[1] /\ Tail(s) \in Seq(S)
      /\ Len(Tail(s)) = Len(s) - 1
      /\ \A i \in 1 .. Len(Tail(s)) : Tail(s)[i] = s[i + 1]
      /\ Len(s) \in Nat \ {0} /\ DOMAIN s = 1 .. Len(s)
      /\ DOMAIN Tail(s) = 1 .. Len(Tail(s))
  BY HeadTailProperties, LenProperties, EmptySeq
<1>2. \A i, j \in 1 .. Len(s) : s[i] = a /\ s[j] = a => i = j
  BY <1>1 DEF Once
<1>3. ASSUME NEW i \in 1 .. Len(Tail(s)), NEW j \in 1 .. Len(Tail(s)),
             Tail(s)[i] = a, Tail(s)[j] = a
      PROVE  i = j
  <2>1. s[i + 1] = a /\ s[j + 1] = a /\ i + 1 \in 1 .. Len(s) /\ j + 1 \in 1 .. Len(s)
    BY <1>1, <1>3
  <2>2. i + 1 = j + 1
    BY <1>2, <2>1
  <2> QED BY <2>2
<1>4. ASSUME Head(s) = a, a \in Elements(Tail(s)) PROVE FALSE
  <2> PICK i \in 1 .. Len(Tail(s)) : Tail(s)[i] = a
    BY <1>1, <1>4 DEF Elements
  <2>1. s[i + 1] = a /\ i + 1 \in 1 .. Len(s) /\ s[1] = a /\ 1 \in 1 .. Len(s)
    BY <1>1, <1>4
  <2>2. i + 1 = 1
    BY <1>2, <2>1
  <2> QED BY <2>2
<1> QED BY <1>1, <1>3, <1>4 DEF Once

LEMMA OnceAdded ==
  ASSUME NEW S, NEW s \in Seq(S), NEW e \in S, NEW a,
         Once(s, a) \/ a \notin Elements(s), e # a \/ a \notin Elements(s)
  PROVE  Once(Append(s, e), a)
<1>1. /\ Len(s) \in Nat /\ DOMAIN s = 1 .. Len(s)
      /\ DOMAIN Append(s, e) = 1 .. Len(s) + 1
      /\ \A i \in 1 .. Len(s) : Append(s, e)[i] = s[i]
      /\ Append(s, e)[Len(s) + 1] = e
  BY AppendProperties, LenProperties
<1>2. a \notin Elements(s) => \A i \in 1 .. Len(s) : s[i] # a
  BY <1>1 DEF Elements
<1>3. \A i, j \in 1 .. Len(s) : s[i] = a /\ s[j] = a => i = j
  BY <1>1, <1>2 DEF Once
<1>4. ASSUME NEW i \in 1 .. Len(s) + 1, NEW j \in 1 .. Len(s) + 1,
             Append(s, e)[i] = a, Append(s, e)[j] = a
      PROVE  i = j
  <2>1. CASE i \in 1 .. Len(s) /\ j \in 1 .. Len(s)
    BY <1>1, <1>3, <1>4, <2>1
  <2>2. CASE i = Len(s) + 1 /\ j = Len(s) + 1
    BY <2>2
  <2>3. CASE i = Len(s) + 1 /\ j \in 1 .. Len(s)
    BY <1>1, <1>2, <1>4, <2>3
  <2>4. CASE j = Len(s) + 1 /\ i \in 1 .. Len(s)
    BY <1>1, <1>2, <1>4, <2>4
  <2> QED BY <1>1, <2>1, <2>2, <2>3, <2>4
<1> QED BY <1>1, <1>4 DEF Once

LEMMA OneAckTail ==
  ASSUME NEW S, NEW s \in Seq(S), s # <<>>, OneAck(s)
  PROVE  OneAck(Tail(s)) /\ (Head(s) = Ack => Ack \notin Elements(Tail(s)))
BY OnceTail DEF OneAck

LEMMA OneAckAdded ==
  ASSUME NEW S, NEW s \in Seq(S), NEW e \in S,
         OneAck(s) \/ Ack \notin Elements(s), e # Ack \/ Ack \notin Elements(s)
  PROVE  OneAck(Append(s, e))
BY OnceAdded DEF OneAck

(* A side that acts, the other as it was.                                  *)
Acts(p, c, ts, r, w) ==
    /\ conn' = [conn EXCEPT ![p] = c] /\ tasks' = [tasks EXCEPT ![p] = ts]
    /\ run' = [run EXCEPT ![p] = r] /\ wire' = [wire EXCEPT ![p] = w]

LEMMA ActsOne ==
  ASSUME Shape, NEW p \in Side, NEW c, NEW ts, NEW r, NEW w, Acts(p, c, ts, r, w)
  PROVE  /\ conn'[p] = c /\ tasks'[p] = ts /\ run'[p] = r /\ wire'[p] = w
         /\ \A q \in Side : q # p =>
               /\ conn'[q] = conn[q] /\ tasks'[q] = tasks[q]
               /\ run'[q] = run[q] /\ wire'[q] = wire[q]
BY DEF Acts, Shape, Typed

LEMMA PaceStep ==
  ASSUME Shape, Pace, NEW p \in Side, NEW c, NEW ts, NEW r, NEW w, Acts(p, c, ts, r, w),
         relayed \subseteq relayed', \A q \in Side : q # p => From(q, air') = From(q, air),
         Paced(c, r, w, From(p, air'), relayed')
  PROVE  Pace'
<1>1. ASSUME NEW q \in Side, q # p
      PROVE  Paced(conn'[q], run'[q], wire'[q], From(q, air'), relayed')
  <2>1. Paced(conn[q], run[q], wire[q], From(q, air), relayed')
    BY DEF Pace, Paced
  <2>2. /\ conn'[q] = conn[q] /\ run'[q] = run[q] /\ wire'[q] = wire[q]
        /\ From(q, air') = From(q, air)
    BY <1>1, ActsOne
  <2> QED BY <2>1, <2>2
<1>2. Paced(conn'[p], run'[p], wire'[p], From(p, air'), relayed')
  BY ActsOne
<1> QED BY <1>1, <1>2 DEF Pace

(* Less on its way, at the same point or when all is over.                 *)
LEMMA PacedLess ==
  ASSUME NEW c, NEW r, NEW w, NEW frames, NEW done, Paced(c, r, w, frames, done),
         NEW d, NEW v, NEW fewer, NEW more,
         d.sent = c.sent, Paused(d, r) => Paused(c, r),
         fewer \subseteq frames, Elements(v) \subseteq Elements(w), OneAck(w) => OneAck(v),
         done \subseteq more
  PROVE  /\ Paced(d, r, v, fewer, more)
         /\ ~Paused(d, <<>>) => Paced(d, <<>>, v, fewer, more)
BY DEF Paced

LEMMA PacedAlone ==
  ASSUME NEW c, NEW r, NEW w, NEW f, NEW done, f.n = c.sent, Ack \notin Elements(w),
         r # <<>>, f.what = Head(r), ~f.there, OneAck(w), NEW frames, frames \subseteq {f}
  PROVE  Paced(c, r, w, frames, done)
BY DEF Paced, Paused

LEMMA WireStep ==
  ASSUME Shape, NEW p \in Side, Listens(p)
  PROVE  \E w \in Seq(Event) :
            /\ wire' = [wire EXCEPT ![p] = w] /\ Elements(w) \subseteq Elements(wire[p])
            /\ OneAck(wire[p]) => OneAck(w)
            /\ (UNCHANGED wire /\ w = wire[p]) \/ (Heard(p) /\ w = Tail(wire[p]))
<1>1. wire[p] \in Seq(Event)
  BY SideShape
<1>2. CASE UNCHANGED wire
  BY <1>1, <1>2, Unchanged
<1>3. CASE wire[p] # <<>> /\ Heard(p)
  <2>1. /\ Tail(wire[p]) \in Seq(Event)
        /\ Elements(wire[p]) = Elements(Tail(wire[p])) \union {Head(wire[p])}
    BY <1>1, <1>3, HeadTail
  <2>2. OneAck(wire[p]) => OneAck(Tail(wire[p]))
    BY <1>1, <1>3, OneAckTail
  <2> QED BY <1>3, <2>1, <2>2 DEF Heard
<1> QED BY <1>2, <1>3 DEF Listens

(* When an ack ends the wait, or there was none, nothing is on its way.    *)
LEMMA Cleared ==
  ASSUME Shape, Pace, NEW p \in Side, NEW w, wire' = [wire EXCEPT ![p] = w],
         (Taken(p) /\ Alive(p)) \/ Acknowledged(p)
  PROVE  /\ From(p, air) = {} /\ Ack \notin Elements(w) /\ OneAck(w)
         /\ run[p] # <<>> /\ Head(run[p]) \in Told => Head(run[p]) \in relayed
<1>1. /\ wire[p] \in Seq(Event) /\ wire \in [Side -> Seq(Event)]
      /\ Spoken(p, tasks[p], run[p], wire[p])
      /\ Paced(conn[p], run[p], wire[p], From(p, air), relayed)
      /\ wire'[p] = w
  BY SideShape DEF Shape, Typed, Pace, Sound
<1>2. Ack \notin Elements(w) => OneAck(w)
  BY DEF OneAck, Once, Elements
<1>3. CASE Taken(p) /\ Alive(p)
  <2>1. w = wire[p]
    BY <1>1, <1>3 DEF Taken
  <2> QED BY <1>1, <1>2, <1>3, <2>1 DEF Taken, Alive, Live, Paced, Paused
<1>4. CASE Acknowledged(p)
  <2>1. run[p] # <<>> /\ wire[p] # <<>> /\ Head(wire[p]).what = "ack" /\ w = Tail(wire[p])
    BY <1>1, <1>4 DEF Acknowledged, Hears, Heard
  <2>2. Head(wire[p]) \in Elements(wire[p])
    BY <1>1, <2>1, HeadTail
  <2>3. Head(wire[p]) = Ack
    <3> PICK e : e = Head(wire[p])
      OBVIOUS
    <3>1. e \in Arriving(p) \union {Ack, Gone} /\ e.what = "ack"
      BY <1>1, <2>1, <2>2 DEF Spoken
    <3>2. e \notin Arriving(p)
      BY <3>1 DEF Arriving, Frames, Says
    <3>3. e # Gone
      BY <3>1 DEF Gone
    <3> QED BY <3>1, <3>2, <3>3
  <2>4. Ack \notin Elements(w)
    BY <1>1, <2>1, <2>3, OneAckTail DEF Paced
  <2> QED BY <1>1, <1>2, <2>1, <2>2, <2>3, <2>4 DEF Paced
<1> QED BY <1>3, <1>4

LEMMA PacedFree ==
  ASSUME NEW c, NEW w, NEW done, Ack \notin Elements(w)
  PROVE  Paced(c, <<>>, w, {}, done)
BY DEF Paced

(* A task that ends, in the terms of its step.                             *)
LEMMA EndsActs ==
  ASSUME Shape, NEW p \in Side, Ends(p), UNCHANGED <<relayed, declined>>
  PROVE  \E c \in Channel, more \in Seq(Task), next \in Page, step \in {flow[p], "idle"},
            w \in Seq(Event) :
            /\ Ending(p, c, more, next, step) /\ tasks[p] # <<>> /\ UNCHANGED air
            /\ Acts(p, c, Tail(tasks[p]) \o more, <<>>, w)
            /\ Elements(w) \subseteq Elements(wire[p]) /\ (OneAck(wire[p]) => OneAck(w))
            /\ (UNCHANGED wire /\ w = wire[p]) \/ (Heard(p) /\ w = Tail(wire[p]))
<1>1. tasks[p] # <<>> /\ UNCHANGED air
  BY DEF Ends, Receives, Closes, FailsAt, Refuses, Sends, Finishes, Receiving, Sending
<1>2. Listens(p)
  <2>1. Taken(p) \/ InVain(p) \/ Acknowledged(p)
    BY DEF Ends, Receives, Closes, FailsAt, Refuses, Sends, Finishes
  <2> QED BY <2>1, Listening
<1>3. PICK c \in Channel, more \in Seq(Task), next \in Page, step \in {flow[p], "idle"} :
            Ending(p, c, more, next, step)
  BY EndsAs
<1> PICK w \in Seq(Event) :
      /\ wire' = [wire EXCEPT ![p] = w] /\ Elements(w) \subseteq Elements(wire[p])
      /\ OneAck(wire[p]) => OneAck(w)
      /\ (UNCHANGED wire /\ w = wire[p]) \/ (Heard(p) /\ w = Tail(wire[p]))
  BY <1>2, WireStep
<1>4. Acts(p, c, Tail(tasks[p]) \o more, <<>>, w)
  BY <1>3 DEF Ending, Over, Acts
<1> QED BY <1>1, <1>3, <1>4

LEMMA EndsPace ==
  ASSUME Shape, Pace, NEW p \in Side, Ends(p), UNCHANGED <<relayed, declined>>
  PROVE  Pace'
<1> PICK c \in Channel, more \in Seq(Task), next \in Page, step \in {flow[p], "idle"},
         w \in Seq(Event) :
            /\ Ending(p, c, more, next, step) /\ tasks[p] # <<>> /\ UNCHANGED air
            /\ Acts(p, c, Tail(tasks[p]) \o more, <<>>, w)
            /\ Elements(w) \subseteq Elements(wire[p]) /\ (OneAck(wire[p]) => OneAck(w))
            /\ (UNCHANGED wire /\ w = wire[p]) \/ (Heard(p) /\ w = Tail(wire[p]))
  BY EndsActs
<1>1. /\ c.state = "failed" \/ (Taken(p) /\ Alive(p)) \/ Acknowledged(p)
      /\ c.sent = conn[p].sent /\ wire' = [wire EXCEPT ![p] = w]
      /\ Paced(conn[p], run[p], wire[p], From(p, air), relayed)
  BY DEF Ending, Becomes, Acts, Pace
<1>2. CASE c.state = "failed"
  <2>1. ~Paused(c, <<>>) /\ ~Paused(c, run[p])
    BY <1>2 DEF Paused
  <2>2. Paced(c, <<>>, w, From(p, air'), relayed')
    BY <1>1, <2>1, PacedLess
  <2> QED BY <2>2, PaceStep
<1>3. CASE (Taken(p) /\ Alive(p)) \/ Acknowledged(p)
  <2>1. From(p, air) = {} /\ Ack \notin Elements(w)
    BY <1>1, <1>3, Cleared
  <2>2. Paced(c, <<>>, w, From(p, air'), relayed')
    BY <2>1, PacedFree
  <2> QED BY <2>2, PaceStep
<1> QED BY <1>1, <1>2, <1>3

(* A frame that is sent, in the terms of its step.                         *)
LEMMA BeginsActs ==
  ASSUME Shape, Pace, NEW p \in Side, NEW frames, Begins(p, frames)
  PROVE  \E c \in Channel, w \in Seq(Event), f \in Frame :
            /\ c = [conn[p] EXCEPT !.sent = @ + 1] /\ c.sent = conn[p].sent + 1
            /\ Acts(p, c, tasks[p], frames, w)
            /\ f = [from |-> p, n |-> c.sent, what |-> Head(frames), there |-> FALSE]
            /\ air' = IF conn[p].socket = "open" THEN air \union {f} ELSE air
            /\ From(p, air) = {} /\ Ack \notin Elements(w)
            /\ Elements(w) \subseteq Elements(wire[p]) /\ OneAck(w)
            /\ (UNCHANGED wire /\ w = wire[p]) \/ (Heard(p) /\ w = Tail(wire[p]))
            /\ UNCHANGED <<page, flow, tasks>>
<1>1. /\ conn[p] \in Channel /\ frames[1] = Head(frames) /\ frames[1] \in Frames(p)
  BY SideShape, BeginsTyped
<1>2. (Taken(p) /\ Alive(p)) \/ Acknowledged(p)
  BY DEF Begins
<1>3. Listens(p)
  BY <1>2, Listening
<1> PICK w \in Seq(Event) :
      /\ wire' = [wire EXCEPT ![p] = w] /\ Elements(w) \subseteq Elements(wire[p])
      /\ (UNCHANGED wire /\ w = wire[p]) \/ (Heard(p) /\ w = Tail(wire[p]))
  BY <1>3, WireStep
<1> PICK c : c = [conn[p] EXCEPT !.sent = @ + 1]
  OBVIOUS
<1>4. c \in Channel /\ c.sent = conn[p].sent + 1 /\ c.sent \in Nat \ {0}
  <2>1. conn[p].sent + 1 \in Nat \ {0}
    BY <1>1 DEF Channel
  <2> QED BY <1>1, <2>1 DEF Channel
<1> PICK f : f = [from |-> p, n |-> c.sent, what |-> Head(frames), there |-> FALSE]
  OBVIOUS
<1>5. f \in Frame
  <2>1. Head(frames) \in What
    BY <1>1 DEF Frames, What, Says, Message
  <2> QED BY <1>4, <2>1 DEF Frame
<1>6. /\ Acts(p, c, tasks[p], frames, w) /\ UNCHANGED <<page, flow, tasks>>
      /\ air' = IF conn[p].socket = "open" THEN air \union {f} ELSE air
  BY <1>1, <1>4, Unchanged DEF Begins, Begin, Transmit, Acts
<1>7. From(p, air) = {} /\ Ack \notin Elements(w) /\ OneAck(w)
  BY <1>2, Cleared
<1> QED BY <1>4, <1>5, <1>6, <1>7

LEMMA BeginsPace ==
  ASSUME Shape, Pace, NEW p \in Side, NEW frames, Begins(p, frames), UNCHANGED relayed
  PROVE  Pace'
<1> PICK c \in Channel, w \in Seq(Event), f \in Frame :
            /\ c = [conn[p] EXCEPT !.sent = @ + 1] /\ c.sent = conn[p].sent + 1
            /\ Acts(p, c, tasks[p], frames, w)
            /\ f = [from |-> p, n |-> c.sent, what |-> Head(frames), there |-> FALSE]
            /\ air' = IF conn[p].socket = "open" THEN air \union {f} ELSE air
            /\ From(p, air) = {} /\ Ack \notin Elements(w)
            /\ Elements(w) \subseteq Elements(wire[p]) /\ OneAck(w)
            /\ (UNCHANGED wire /\ w = wire[p]) \/ (Heard(p) /\ w = Tail(wire[p]))
            /\ UNCHANGED <<page, flow, tasks>>
  BY BeginsActs
<1>1. frames # <<>>
  BY BeginsTyped
<1>2. /\ From(p, air') \subseteq {f} /\ \A q \in Side : q # p => From(q, air') = From(q, air)
  BY DEF From
<1>3. f.n = c.sent /\ f.what = Head(frames) /\ ~f.there
  OBVIOUS
<1> PICK mine : mine = From(p, air')
  OBVIOUS
<1>4. Paced(c, frames, w, mine, relayed)
  BY <1>1, <1>2, <1>3, PacedAlone
<1> QED BY <1>2, <1>4, PaceStep

(* The page does not touch what is on its way.                             *)
LEMMA PageKeeps ==
  ASSUME Shape, PageStep
  PROVE  /\ UNCHANGED <<run, wire, air, relayed>>
         /\ \A q \in Side : \E b : conn'[q] = [conn[q] EXCEPT !.selfClosed = b]
                                    /\ (conn[q].selfClosed => b)
<1>1. conn \in [Side -> Channel] /\ \A q \in Side : conn[q] \in Channel
  BY DEF Shape, Typed
<1>2. UNCHANGED <<run, wire, air, relayed>>
  BY DEF PageStep, ConnectFails, Leave, Probe, Request, GetCode, Approve, Decline
<1>3. ASSUME NEW q \in Side, UNCHANGED conn
      PROVE  \E b : conn'[q] = [conn[q] EXCEPT !.selfClosed = b] /\ (conn[q].selfClosed => b)
  <2> PICK b : b = conn[q].selfClosed
    OBVIOUS
  <2>1. conn[q] = [conn[q] EXCEPT !.selfClosed = b]
    BY <1>1 DEF Channel
  <2> QED BY <1>3, <2>1
<1>4. ASSUME NEW p \in Side, conn' = [conn EXCEPT ![p].selfClosed = @ \/ Usable(conn[p])],
             NEW q \in Side
      PROVE  \E b : conn'[q] = [conn[q] EXCEPT !.selfClosed = b] /\ (conn[q].selfClosed => b)
  <2> PICK b : b = (conn[p].selfClosed \/ Usable(conn[p]))
    OBVIOUS
  <2>1. conn' = [conn EXCEPT ![p] = [conn[p] EXCEPT !.selfClosed = b]]
    BY <1>4
  <2>2. CASE q = p
    BY <1>1, <2>1, <2>2
  <2>3. CASE q # p
    <3>1. conn'[q] = conn[q]
      BY <1>1, <2>1, <2>3
    <3> PICK a : a = conn[q].selfClosed
      OBVIOUS
    <3>2. conn[q] = [conn[q] EXCEPT !.selfClosed = a]
      BY <1>1 DEF Channel
    <3> QED BY <3>1, <3>2
  <2> QED BY <2>2, <2>3
<1>5. CASE UNCHANGED conn
  BY <1>2, <1>3, <1>5
<1>6. CASE \E p \in Side : Leave(p)
  BY <1>2, <1>4, <1>6 DEF Leave
<1>7. CASE Decline
  BY <1>2, <1>4, <1>7 DEF Decline, CloseWith, Side
<1> QED BY <1>5, <1>6, <1>7 DEF PageStep, ConnectFails, Probe, Request, GetCode, Approve

LEMMA PagePace ==
  ASSUME Shape, Pace, PageStep
  PROVE  Pace'
<1>1. ASSUME NEW q \in Side
      PROVE  Paced(conn'[q], run'[q], wire'[q], From(q, air'), relayed')
  <2>1. /\ run'[q] = run[q] /\ wire'[q] = wire[q] /\ air' = air /\ relayed' = relayed
        /\ conn'[q].state = conn[q].state /\ conn'[q].sent = conn[q].sent
    <3>1. UNCHANGED <<run, wire, air, relayed>>
      BY PageKeeps
    <3> PICK b : conn'[q] = [conn[q] EXCEPT !.selfClosed = b]
      BY PageKeeps
    <3>2. conn[q] \in Channel
      BY SideShape
    <3> QED BY <3>1, <3>2 DEF Channel
  <2>2. Paced(conn[q], run[q], wire[q], From(q, air), relayed)
    BY DEF Pace
  <2> QED BY <2>1, <2>2 DEF Paced, Paused
<1> QED BY <1>1 DEF Pace

(* An ack for nobody, and the end of the wait for the ClientHello's.       *)
LEMMA WorksPace ==
  ASSUME Shape, Pace, NEW p \in Side, Works(p) \/ Waits4Hello
  PROVE  Pace'
<1>1. CASE Works(p) /\ ~Drops(p)
  <2>1. UNCHANGED <<relayed, declined>>
    BY <1>1 DEF Works
  <2>2. CASE Ends(p)
    BY <2>1, <2>2, EndsPace
  <2>3. CASE \E frames : Begins(p, frames)
    BY <2>1, <2>3, BeginsPace
  <2> QED BY <1>1, <2>2, <2>3 DEF Works
<1>2. CASE Works(p) /\ Drops(p)
  <2>1. Listens(p)
    BY <1>2, Listening DEF Drops
  <2> PICK w \in Seq(Event) :
        /\ wire' = [wire EXCEPT ![p] = w] /\ Elements(w) \subseteq Elements(wire[p])
        /\ OneAck(wire[p]) => OneAck(w)
    BY <2>1, WireStep
  <2>2. Acts(p, conn[p], tasks[p], run[p], w) /\ UNCHANGED <<air, relayed>>
    BY <1>2, Unchanged DEF Works, Drops, Acts
  <2>3. Paced(conn[p], run[p], wire[p], From(p, air), relayed)
    BY DEF Pace
  <2>4. Paced(conn[p], run[p], w, From(p, air), relayed)
    BY <2>3, PacedLess
  <2> QED BY <2>2, <2>4, PaceStep
<1>3. CASE Waits4Hello
  <2> PICK s \in Side : s = "supp"
    BY DEF Side
  <2>1. /\ conn[s] \in Channel /\ conn[s].state = "hello" /\ UNCHANGED <<air, relayed>>
        /\ run' = [run EXCEPT ![s] = <<>>] /\ tasks' = [tasks EXCEPT ![s] = tasks[s]]
        /\ Paced(conn[s], run[s], wire[s], From(s, air), relayed)
    BY <1>3, SideShape, Unchanged DEF Waits4Hello, Joins, GivesUp, Joined, Pace
  <2>2. Listens(s)
    BY <1>3, Listening DEF Waits4Hello, Joins, GivesUp
  <2> PICK w \in Seq(Event) :
        /\ wire' = [wire EXCEPT ![s] = w] /\ Elements(w) \subseteq Elements(wire[s])
        /\ OneAck(wire[s]) => OneAck(w)
    BY <2>2, WireStep
  <2>3. CASE Joins
    <3> PICK c : c = [conn[s] EXCEPT !.state = "handshake"]
      OBVIOUS
    <3>1. Acts(s, c, tasks[s], <<>>, w)
      BY <2>1, <2>3 DEF Joins, Joined, Acts
    <3>2. From(s, air) = {} /\ Ack \notin Elements(w)
      BY <2>3, Cleared DEF Joins
    <3>3. Paced(c, <<>>, w, From(s, air), relayed)
      BY <3>2, PacedFree
    <3> QED BY <2>1, <3>1, <3>3, PaceStep
  <2>4. CASE GivesUp
    <3>1. Acts(s, conn[s], tasks[s], <<>>, w)
      BY <2>1, <2>4, Unchanged DEF GivesUp, Acts
    <3>2. ~Paused(conn[s], <<>>)
      BY <2>1 DEF Paused
    <3>3. Paced(conn[s], <<>>, w, From(s, air), relayed)
      BY <2>1, <3>2, PacedLess
    <3> QED BY <2>1, <3>1, <3>3, PaceStep
  <2> QED BY <1>3, <2>3, <2>4 DEF Waits4Hello
<1> QED BY <1>1, <1>2, <1>3

LEMMA OpenPace ==
  ASSUME Shape, Pace, CreateChannel \/ JoinChannel \/ \E p \in Side : Vanish(p)
  PROVE  Pace'
<1>1. /\ \A p \in Side : Sound(p, flow[p], conn[p], tasks[p], run[p], wire[p])
      /\ \A p \in Side : Paced(conn[p], run[p], wire[p], From(p, air), relayed)
      /\ \A p \in Side : conn[p] \in Channel
      /\ Elements(<<>>) = {}
  BY SideShape, NoElements DEF Pace
<1>2. CASE CreateChannel
  <2> PICK a \in Side : a = "auth"
    BY DEF Side
  <2> PICK c : c = [NoChannel EXCEPT !.state = "handshake", !.socket = "open", !.heard = TRUE]
    OBVIOUS
  <2>1. conn[a].state = "none" /\ tasks[a] = <<>> /\ run[a] = <<>> /\ wire[a] = <<>>
    BY <1>1, <1>2 DEF CreateChannel, Sound, Starting
  <2>2. Acts(a, c, tasks[a], <<>>, <<>>) /\ UNCHANGED <<air, relayed>>
    BY <1>2, <2>1, Unchanged DEF CreateChannel, Acts
  <2>3. From(a, air) = {}
    BY <1>1, <2>1 DEF Paced, Paused
  <2>4. Paced(c, <<>>, <<>>, From(a, air), relayed)
    BY <1>1, <2>3, PacedFree
  <2> QED BY <2>2, <2>4, PaceStep
<1>3. CASE JoinChannel
  <2> PICK s \in Side : s = "supp"
    BY DEF Side
  <2> PICK c : c = [NoChannel EXCEPT !.state = "hello", !.socket = "open", !.sent = 1]
    OBVIOUS
  <2> PICK r : r = <<"handshake">>
    OBVIOUS
  <2> PICK f : f = [from |-> s, n |-> 1, what |-> "handshake", there |-> FALSE]
    OBVIOUS
  <2>1. conn[s].state = "none" /\ tasks[s] = <<>> /\ run[s] = <<>> /\ wire[s] = <<>>
    BY <1>1, <1>3 DEF JoinChannel, Sound, Starting
  <2>2. /\ Acts(s, c, tasks[s], r, <<>>) /\ air' = air \union {f} /\ UNCHANGED relayed
    BY <1>3, <2>1, Unchanged DEF JoinChannel, Acts
  <2>3. From(s, air) = {}
    BY <1>1, <2>1 DEF Paced, Paused
  <2> PICK mine : mine = From(s, air')
    OBVIOUS
  <2>4. mine \subseteq {f} /\ \A q \in Side : q # s => From(q, air') = From(q, air)
    BY <2>2, <2>3 DEF From
  <2>5. /\ f.n = c.sent /\ f.what = Head(r) /\ ~f.there /\ r # <<>>
    BY DEF NoChannel
  <2>6. OneAck(<<>>)
    BY DEF OneAck, Once
  <2>7. Paced(c, r, <<>>, mine, relayed)
    BY <1>1, <2>4, <2>5, <2>6, PacedAlone
  <2> QED BY <2>2, <2>4, <2>7, PaceStep
<1>4. CASE \E p \in Side : Vanish(p)
  <2> PICK p \in Side : Vanish(p)
    BY <1>4
  <2> PICK c : c = [conn[p] EXCEPT !.state = "failed", !.socket = "shut"]
    OBVIOUS
  <2>1. c.sent = conn[p].sent /\ c.state = "failed"
    BY <1>1 DEF Channel
  <2> PICK w : w = <<>>
    OBVIOUS
  <2>2. Acts(p, c, <<>>, <<>>, w) /\ UNCHANGED <<air, relayed>>
    BY DEF Vanish, Acts
  <2>3. /\ ~Paused(c, <<>>) /\ ~Paused(c, run[p]) /\ OneAck(w)
        /\ Elements(w) \subseteq Elements(wire[p])
    BY <1>1, <2>1 DEF Paused, OneAck, Once
  <2>4. Paced(conn[p], run[p], wire[p], From(p, air), relayed)
    BY <1>1
  <2>5. Paced(c, <<>>, w, From(p, air), relayed)
    BY <2>1, <2>3, <2>4 DEF Paced
  <2> QED BY <2>2, <2>5, PaceStep
<1> QED BY <1>2, <1>3, <1>4

LEMMA SocketPace ==
  ASSUME Shape, Pace, NEW p \in Side, HearFrame(p) \/ HearGone(p) \/ SocketCloses(p)
  PROVE  Pace'
<1>1. /\ conn[p] \in Channel /\ wire[p] \in Seq(Event)
      /\ Paced(conn[p], run[p], wire[p], From(p, air), relayed)
  BY SideShape DEF Pace
<1>2. CASE HearFrame(p) \/ HearGone(p)
  <2>1. Listens(p)
    BY <1>2 DEF Listens, HearFrame, HearGone, Hears
  <2> PICK w \in Seq(Event) :
        /\ wire' = [wire EXCEPT ![p] = w] /\ Elements(w) \subseteq Elements(wire[p])
        /\ OneAck(wire[p]) => OneAck(w)
    BY <2>1, WireStep
  <2>2. PICK c, ts : /\ Acts(p, c, ts, run[p], w) /\ UNCHANGED <<air, relayed>>
                     /\ c.state = conn[p].state /\ c.sent = conn[p].sent
    <3>1. CASE HearFrame(p)
      <4> PICK t : t = [do |-> "recv", what |-> Head(wire[p]).what, n |-> Head(wire[p]).n]
        OBVIOUS
      <4>1. \E ts : tasks' = [tasks EXCEPT ![p] = ts]
        <5>1. CASE Usable(conn[p])
          BY <3>1, <5>1 DEF HearFrame
        <5>2. CASE ~Usable(conn[p])
          BY <3>1, <5>2, Unchanged DEF HearFrame
        <5> QED BY <5>1, <5>2
      <4> QED BY <3>1, <4>1, Unchanged DEF HearFrame, Acts
    <3>2. CASE HearGone(p)
      <4> PICK c : c = Shut(conn[p])
        OBVIOUS
      <4>1. c.state = conn[p].state /\ c.sent = conn[p].sent
        BY <1>1 DEF Shut, Channel
      <4> QED BY <3>2, <4>1, Unchanged DEF HearGone, Acts
    <3> QED BY <1>2, <3>1, <3>2
  <2>3. Paused(c, run[p]) => Paused(conn[p], run[p])
    BY <2>2 DEF Paused
  <2>4. Paced(c, run[p], w, From(p, air), relayed)
    BY <1>1, <2>2, <2>3, PacedLess
  <2> QED BY <2>2, <2>4, PaceStep
<1>3. CASE SocketCloses(p)
  <2> PICK c : c = [conn[p] EXCEPT !.socket = "lost"]
    OBVIOUS
  <2> PICK w : w = Append(wire[p], Gone)
    OBVIOUS
  <2>1. c.state = conn[p].state /\ c.sent = conn[p].sent
    BY <1>1 DEF Channel
  <2>2. Acts(p, c, tasks[p], run[p], w) /\ UNCHANGED <<air, relayed>>
    BY <1>3, Unchanged DEF SocketCloses, Gone, Acts
  <2>3. Gone \in Event /\ Gone # Ack
    BY DEF Gone, Ack, Event
  <2>4. Elements(w) = Elements(wire[p]) \union {Gone}
    BY <1>1, <2>3, EventAdded
  <2>5. OneAck(wire[p]) => OneAck(w)
    BY <1>1, <2>3, OneAckAdded
  <2>6. Paced(c, run[p], w, From(p, air), relayed)
    BY <1>1, <2>1, <2>3, <2>4, <2>5 DEF Paced, Paused
  <2> QED BY <2>2, <2>6, PaceStep
<1> QED BY <1>2, <1>3

LEMMA RelayPace ==
  ASSUME Shape, Pace, NEW f \in air, RelayFrame(f) \/ PostAck(f) \/ RelayDies(f)
  PROVE  Pace'
<1>1. /\ f \in Frame /\ f.from \in Side /\ f.what \in Frames(f.from)
      /\ UNCHANGED <<conn, run>> /\ relayed \subseteq relayed'
      /\ \A p \in Side : wire[p] \in Seq(Event)
      /\ \A p \in Side : Paced(conn[p], run[p], wire[p], From(p, air), relayed)
      /\ wire \in [Side -> Seq(Event)]
  BY SideShape DEF Shape, Typed, Frame, RelayFrame, PostAck, RelayDies, Pace
<1>2. SUFFICES ASSUME NEW p \in Side
               PROVE  Paced(conn[p], run[p], wire'[p], From(p, air'), relayed')
  BY <1>1 DEF Pace
<1>3. Paced(conn[p], run[p], wire[p], From(p, air), relayed)
  BY <1>1
<1> PICK e : e = [what |-> f.what, n |-> f.n]
  OBVIOUS
<1> PICK g : g = [f EXCEPT !.there = TRUE]
  OBVIOUS
<1>4. /\ e \in Event /\ e # Ack /\ Ack \in Event
      /\ g.from = f.from /\ g.what = f.what /\ g.n = f.n /\ g.there
  <2>1. e \in Event /\ Ack \in Event
    BY <1>1 DEF Event, Frame, Ack
  <2>2. e # Ack
    BY <1>1 DEF Frame, What, Message, Ack
  <2>3. g.from = f.from /\ g.what = f.what /\ g.n = f.n /\ g.there
    BY <1>1 DEF Frame
  <2> QED BY <2>1, <2>2, <2>3
<1>5. CASE RelayFrame(f)
  <2>1. /\ Post(Peer(f.from), e) /\ air' = (air \ {f}) \union {g}
        /\ relayed' = relayed \union ({f.what} \intersect Told)
    BY <1>5 DEF RelayFrame, Told
  <2> PICK w : w = wire'[p]
    OBVIOUS
  <2>2. /\ Ack \in Elements(w) => Ack \in Elements(wire[p])
        /\ OneAck(wire[p]) => OneAck(w)
    <3>1. CASE w = wire[p]
      BY <3>1
    <3>2. CASE w = Append(wire[p], e)
      <4>1. Elements(w) = Elements(wire[p]) \union {e}
        BY <1>1, <1>4, <3>2, EventAdded
      <4>2. OneAck(wire[p]) => OneAck(w)
        BY <1>1, <1>4, <3>2, OneAckAdded
      <4> QED BY <1>4, <4>1, <4>2
    <3> QED BY <1>1, <2>1, <3>1, <3>2 DEF Post
  <2>3. CASE p = f.from
    <3>1. f \in From(p, air)
      BY <2>3 DEF From
    <3>2. From(p, air) = {f}
      BY <1>3, <3>1 DEF Paced
    <3>3. From(p, air') = {g}
      BY <1>4, <2>1, <2>3, <3>2 DEF From
    <3> QED BY <1>3, <1>4, <2>1, <2>2, <3>1, <3>2, <3>3 DEF Paced
  <2>4. CASE p # f.from
    <3>1. From(p, air') = From(p, air)
      BY <1>4, <2>1, <2>4 DEF From
    <3> QED BY <1>1, <1>3, <2>2, <3>1 DEF Paced
  <2> QED BY <2>3, <2>4
<1>6. CASE PostAck(f)
  <2>1. /\ Post(f.from, Ack) /\ air' = air \ {f} /\ f.there /\ relayed' = relayed
    BY <1>6 DEF PostAck, Ack
  <2> PICK w : w = wire'[p]
    OBVIOUS
  <2>2. CASE p = f.from
    <3>1. f \in From(p, air)
      BY <2>2 DEF From
    <3>2. From(p, air) = {f} /\ From(p, air') = {}
      BY <1>3, <2>1, <3>1 DEF Paced, From
    <3>3. ~Paused(conn[p], run[p]) /\ (run[p] # <<>> => Ack \notin Elements(wire[p]))
      BY <1>3, <3>2 DEF Paced
    <3>4. run[p] # <<>> => OneAck(w)
      <4>1. CASE w = wire[p]
        BY <1>3, <4>1 DEF Paced
      <4>2. CASE w = Append(wire[p], Ack)
        BY <1>1, <1>4, <3>3, <4>2, OneAckAdded
      <4> QED BY <1>1, <2>1, <2>2, <4>1, <4>2 DEF Post
    <3>5. run[p] # <<>> => (Head(run[p]) \in Told => Head(run[p]) \in relayed)
      BY <1>3, <2>1, <3>1 DEF Paced
    <3>6. Paced(conn[p], run[p], w, {}, relayed)
      BY <3>3, <3>4, <3>5 DEF Paced
    <3> QED BY <2>1, <3>2, <3>6
  <2>3. CASE p # f.from
    <3>1. From(p, air') = From(p, air) /\ wire'[p] = wire[p]
      BY <1>1, <2>1, <2>3 DEF From, Post
    <3> QED BY <1>3, <2>1, <3>1
  <2> QED BY <2>2, <2>3
<1>7. CASE RelayDies(f)
  <2>1. /\ air' = air \ {f} /\ UNCHANGED <<wire, relayed>>
    BY <1>7 DEF RelayDies
  <2>2. From(p, air') \subseteq From(p, air)
    BY <2>1 DEF From
  <2> QED BY <1>3, <2>1, <2>2 DEF Paced
<1> QED BY <1>5, <1>6, <1>7

LEMMA NextCases ==
  ASSUME Shape, [Next]_vars
  PROVE  \/ \E p \in Side : Works(p) \/ HearFrame(p) \/ HearGone(p) \/ SocketCloses(p) \/ Vanish(p)
         \/ Waits4Hello \/ PageStep \/ CreateChannel \/ JoinChannel
         \/ \E f \in air : RelayFrame(f) \/ PostAck(f) \/ RelayDies(f)
         \/ UNCHANGED vars
<1>1. CASE \E p \in Side : Work(p) \/ AckTimeout(p)
  <2> PICK p \in Side : Work(p) \/ AckTimeout(p)
    BY <1>1
  <2>1. CASE Receive(p) \/ SendOrClose(p) \/ HearAck(p) \/ AckTimeout(p)
    BY <2>1, Working
  <2>2. CASE HearFrame(p) \/ HearGone(p)
    BY <2>2
  <2> QED BY <2>1, <2>2 DEF Work
<1>2. CASE Open \/ User \/ Probe \/ Request \/ GetCode
  BY <1>2 DEF Open, User, PageStep
<1>3. CASE \E p \in Side : NetworkBreaks(p) \/ GatewayCloses(p)
  BY <1>3 DEF NetworkBreaks, GatewayCloses
<1>4. CASE Relay
  BY <1>4 DEF Relay
<1> QED BY <1>1, <1>2, <1>3, <1>4 DEF Next

LEMMA InitPace == Init => Pace
<1> SUFFICES ASSUME Init PROVE Pace
  OBVIOUS
<1>1. ASSUME NEW p \in Side
      PROVE  Paced(conn[p], run[p], wire[p], From(p, air), relayed)
  <2>1. run[p] = <<>> /\ wire[p] = <<>> /\ From(p, air) = {}
    BY DEF Init, From
  <2> QED BY <2>1, PacedFree, NoElements
<1> QED BY <1>1 DEF Pace

LEMMA NextPace == Shape /\ Pace /\ [Next]_vars => Pace'
<1> SUFFICES ASSUME Shape, Pace, [Next]_vars PROVE Pace'
  OBVIOUS
<1>1. CASE \E p \in Side : Works(p)
  BY <1>1, WorksPace
<1>2. CASE Waits4Hello
  BY <1>2, WorksPace DEF Side
<1>3. CASE \E p \in Side : HearFrame(p) \/ HearGone(p) \/ SocketCloses(p)
  BY <1>3, SocketPace
<1>4. CASE PageStep
  BY <1>4, PagePace
<1>5. CASE CreateChannel \/ JoinChannel \/ \E p \in Side : Vanish(p)
  BY <1>5, OpenPace
<1>6. CASE \E f \in air : RelayFrame(f) \/ PostAck(f) \/ RelayDies(f)
  BY <1>6, RelayPace
<1>7. CASE UNCHANGED vars
  BY <1>7 DEF vars, Pace, Paced, From
<1> QED BY <1>1, <1>2, <1>3, <1>4, <1>5, <1>6, <1>7, NextCases

-----------------------------------------------------------------------------
(***************************************************************************)
(* A page that goes on because its message was sent is right.              *)
(***************************************************************************)
(* The supplicant page listens once its request was acknowledged.          *)
Sure ==
    /\ conn["supp"].heard => "request" \in relayed
    /\ DoneMeansRelayed

LEMMA PageShows ==
  ASSUME Shape, PageStep
  PROVE  /\ page'["auth"] \in {page["auth"], "error", "left", "authorizing"}
         /\ page'["supp"] \in {page["supp"], "error", "left"}
<1> PICK a \in Side, s \in Side : a = "auth" /\ s = "supp"
  BY DEF Side
<1>1. page \in [Side -> Page] /\ a # s /\ Side = {a, s} /\ "error" \in Page
  BY DEF Shape, Typed, Side, Page
<1>2. ASSUME NEW p \in Side, Show(p, "error")
      PROVE  \A q \in Side : page'[q] \in {page[q], "error", "left"}
  BY <1>1, <1>2, ShowTyped
<1>3. CASE (\E p \in Side : ConnectFails(p)) \/ Probe \/ Request \/ GetCode \/ Decline
  <2>1. UNCHANGED page \/ \E p \in Side : Show(p, "error")
    BY <1>3 DEF ConnectFails, Probe, Request, GetCode, Decline, CloseWith
  <2> QED BY <1>2, <2>1
<1>4. CASE Approve
  BY <1>1, <1>4 DEF Approve
<1>5. CASE \E p \in Side : Leave(p)
  BY <1>1, <1>5 DEF Leave
<1> QED BY <1>3, <1>4, <1>5 DEF PageStep

LEMMA EndsSure ==
  ASSUME Shape, Pace, Sure, NEW p \in Side, Ends(p), UNCHANGED <<relayed, declined>>
  PROVE  Sure'
<1> PICK c \in Channel, more \in Seq(Task), next \in Page, step \in {flow[p], "idle"},
         w \in Seq(Event) :
            /\ Ending(p, c, more, next, step) /\ tasks[p] # <<>>
            /\ Acts(p, c, Tail(tasks[p]) \o more, <<>>, w)
  BY EndsActs
<1>1. /\ page[p] # "left" => page'[p] = next
      /\ page[p] = "left" => page'[p] = "left"
      /\ \A q \in Side : q # p => page'[q] = page[q] /\ conn'[q] = conn[q]
      /\ conn'[p] = c
  BY ShowTyped, ActsOne DEF Ending, Over
<1>2. ASSUME Sends(p), First(p).what \in Told PROVE First(p).what \in relayed
  <2>1. /\ Acknowledged(p) /\ First(p).do = "send" /\ Alive(p) /\ run[p] # <<>>
    BY <1>2 DEF Sends, Acknowledged
  <2>2. run[p] = <<First(p).what>>
    BY <2>1, SideShape DEF Sound, Running, Alive, First
  <2>3. Head(run[p]) = First(p).what
    BY <2>2
  <2>4. wire' = [wire EXCEPT ![p] = w]
    BY DEF Acts
  <2>5. Head(run[p]) \in Told => Head(run[p]) \in relayed
    BY <2>1, <2>4, Cleared
  <2> QED BY <1>2, <2>3, <2>5
<1>3. /\ Sends(p) => First(p).what \in Says(p)
      /\ Receives(p) => First(p).what \in Frames(Peer(p))
  <2>1. Sends(p) => First(p).do = "send"
    BY DEF Sends
  <2>2. Receives(p) => First(p).do = "recv"
    BY DEF Receives, Receiving
  <2> QED BY <2>1, <2>2, FirstTyped DEF Incoming
<1>5. Shows(p, next) /\ (c.heard = conn[p].heard \/ (Sends(p) /\ First(p).what = "request"))
  BY DEF Ending, Becomes
<1>6. CASE p = "auth"
  <2>1. ~Receives(p) \/ First(p).what # "authorize"
    BY <1>3, <1>6 DEF Frames, Says, Peer
  <2>2. next = "complete" => page[p] = "complete" \/ "authorize" \in relayed
    BY <1>2, <1>5, <2>1 DEF Shows, Told
  <2>3. page'["supp"] = page["supp"] /\ conn'["supp"] = conn["supp"]
    BY <1>1, <1>6 DEF Side
  <2>4. page'["auth"] = "complete" => page["auth"] = "complete" \/ "authorize" \in relayed
    BY <1>1, <1>6, <2>2
  <2>5. UNCHANGED relayed
    OBVIOUS
  <2> QED BY <2>3, <2>4, <2>5 DEF Sure, DoneMeansRelayed
<1>7. CASE p = "supp"
  <2>1. Sends(p) => First(p).what # "authorize"
    BY <1>3, <1>7 DEF Says
  <2>2. c.heard => "request" \in relayed
    BY <1>2, <1>5, <1>7 DEF Sure, Told
  <2>3. next \in {"waiting", "confirming", "complete"} => next = page[p] \/ "request" \in relayed
    BY <1>2, <1>5, <1>7, <2>1 DEF Shows, Told, Sure
  <2>4. page'["auth"] = page["auth"]
    BY <1>1, <1>7 DEF Side
  <2>5. page'["supp"] \in {"waiting", "confirming", "complete"} =>
           page'["supp"] = page["supp"] \/ "request" \in relayed
    BY <1>1, <1>7, <2>3
  <2>6. conn'["supp"].heard => "request" \in relayed
    BY <1>1, <1>7, <2>2
  <2>7. UNCHANGED relayed
    OBVIOUS
  <2> QED BY <2>4, <2>5, <2>6, <2>7 DEF Sure, DoneMeansRelayed
<1> QED BY <1>6, <1>7 DEF Side

LEMMA NextSure == Shape /\ Pace /\ Sure /\ [Next]_vars => Sure'
<1> SUFFICES ASSUME Shape, Pace, Sure, [Next]_vars PROVE Sure'
  OBVIOUS
<1> PICK a \in Side, s \in Side : a = "auth" /\ s = "supp"
  BY DEF Side
<1>1. /\ conn \in [Side -> Channel] /\ page \in [Side -> Page] /\ Side = {a, s} /\ a # s
      /\ conn[s] \in Channel /\ conn[a] \in Channel
  BY DEF Shape, Typed, Side
<1>2. SUFFICES ASSUME ~(\E p \in Side : Ends(p) /\ UNCHANGED <<relayed, declined>>)
               PROVE  Sure'
  BY EndsSure
<1>3. SUFFICES /\ conn'[s].heard => conn[s].heard
               /\ relayed \subseteq relayed'
               /\ page'[a] \in {page[a], "error", "left", "authorizing", "showing-qr"}
               /\ page'[s] \in {page[s], "error", "left"}
  BY DEF Sure, DoneMeansRelayed
<1>4. CASE \E p \in Side : Works(p)
  <2> PICK p \in Side : Works(p)
    BY <1>4
  <2>1. CASE \E frames : Begins(p, frames)
    <3> PICK frames : Begins(p, frames)
      BY <2>1
    <3>1. conn' = [conn EXCEPT ![p] = [conn[p] EXCEPT !.sent = @ + 1]] /\ UNCHANGED page
      BY DEF Begins, Begin
    <3>2. conn'[s].heard = conn[s].heard
      BY <1>1, <3>1 DEF Channel
    <3> QED BY <3>1, <3>2 DEF Works
  <2>2. CASE Drops(p)
    BY <2>2 DEF Drops, Works
  <2> QED BY <1>2, <2>1, <2>2 DEF Works
<1>5. CASE Waits4Hello
  <2>1. "error" \in Page
    BY DEF Page
  <2>2. page'[a] = page[a] /\ page'[s] \in {page[s], "left", "error"}
    BY <1>1, <1>5, <2>1, ShowTyped DEF Waits4Hello, Joins, Joined, GivesUp
  <2>3. conn'[s].heard = conn[s].heard
    <3>1. conn' = conn \/ conn' = [conn EXCEPT ![s] = [conn[s] EXCEPT !.state = "handshake"]]
      BY <1>5 DEF Waits4Hello, Joins, Joined, GivesUp
    <3> QED BY <1>1, <3>1 DEF Channel
  <2> QED BY <1>5, <2>2, <2>3 DEF Waits4Hello
<1>6. CASE \E p \in Side : HearFrame(p) \/ SocketCloses(p)
  <2> PICK p \in Side : HearFrame(p) \/ SocketCloses(p)
    BY <1>6
  <2>1. UNCHANGED <<page, relayed>>
    BY DEF HearFrame, SocketCloses
  <2>2. conn' = conn \/ conn' = [conn EXCEPT ![p] = [conn[p] EXCEPT !.socket = "lost"]]
    BY DEF HearFrame, SocketCloses
  <2>3. conn'[s].heard = conn[s].heard
    BY <1>1, <2>2 DEF Channel
  <2> QED BY <2>1, <2>3
<1>7. CASE \E p \in Side : HearGone(p)
  <2> PICK p \in Side : HearGone(p)
    BY <1>7
  <2>1. UNCHANGED relayed /\ conn' = [conn EXCEPT ![p] = Shut(conn[p])]
    BY DEF HearGone
  <2>2. conn'[s].heard = conn[s].heard
    BY <1>1, <2>1 DEF Channel, Shut
  <2> PICK next : next = IF Usable(conn[p]) /\ ~conn[p].peerClosed THEN OnError(p) ELSE page[p]
    OBVIOUS
  <2>3. next \in {"error", page[p]} /\ next \in Page /\ Show(p, next)
    BY <1>1 DEF HearGone, OnError, Page
  <2>4. /\ page'[p] \in {page[p], "error", "left"}
        /\ \A q \in Side : q # p => page'[q] = page[q]
    BY <2>3, ShowTyped
  <2> QED BY <2>1, <2>2, <2>4
<1>8. CASE \E p \in Side : Vanish(p)
  <2> PICK p \in Side : Vanish(p)
    BY <1>8
  <2>1. /\ conn' = [conn EXCEPT ![p] = [conn[p] EXCEPT !.state = "failed", !.socket = "shut"]]
        /\ page' = [page EXCEPT ![p] = "left"] /\ UNCHANGED relayed
    BY DEF Vanish
  <2>2. conn'[s].heard = conn[s].heard
    BY <1>1, <2>1 DEF Channel
  <2> QED BY <1>1, <2>1, <2>2
<1>9. CASE PageStep
  <2>1. UNCHANGED relayed
    BY <1>9, PageKeeps
  <2> PICK b : conn'[s] = [conn[s] EXCEPT !.selfClosed = b]
    BY <1>9, PageKeeps
  <2>2. conn'[s].heard = conn[s].heard
    BY <1>1 DEF Channel
  <2> QED BY <1>9, <2>1, <2>2, PageShows
<1>10. CASE CreateChannel
  <2>1. "showing-qr" \in Page
    BY DEF Page
  <2>2. page'[a] \in {"left", "showing-qr"} /\ page'[s] = page[s]
    BY <1>1, <1>10, <2>1, ShowTyped DEF CreateChannel
  <2>3. conn'[s] = conn[s] /\ UNCHANGED relayed
    BY <1>1, <1>10 DEF CreateChannel
  <2> QED BY <2>2, <2>3
<1>11. CASE JoinChannel
  <2>1. ~conn'[s].heard /\ UNCHANGED <<relayed, page>>
    BY <1>1, <1>11 DEF JoinChannel, NoChannel
  <2> QED BY <2>1
<1>12. CASE \E f \in air : RelayFrame(f) \/ PostAck(f) \/ RelayDies(f)
  BY <1>12 DEF RelayFrame, PostAck, RelayDies
<1>13. CASE UNCHANGED vars
  BY <1>13 DEF vars
<1> QED BY <1>4, <1>5, <1>6, <1>7, <1>8, <1>9, <1>10, <1>11, <1>12, <1>13, NextCases

(* A page that goes on because a message was sent is right: the relay has  *)
(* posted it.  With any number of acks that come late or not at all, the   *)
(* one that HearAck takes is that of the frame the page waits for          *)
(* (index.ts:92, tlsconnection.ts:106).                                    *)
THEOREM GoesOnWhenRelayed == Spec => []DoneMeansRelayed
<1>1. Init => Sure
  BY DEF Init, Sure, DoneMeansRelayed, NoChannel, Side
<1>2. Spec => [](Shape /\ Pace /\ Sure)
  BY <1>1, InitShape, NextShape, InitPace, NextPace, NextSure, PTL DEF Spec
<1>3. Sure => DoneMeansRelayed
  BY DEF Sure
<1> QED BY <1>2, <1>3, PTL

-----------------------------------------------------------------------------
(***************************************************************************)
(* Frames in order.  What a page has not dealt with yet has rising numbers *)
(* without a gap, up to the number of the frame that its peer sent last,   *)
(* or to the one before while that one is still at the relay.              *)
(***************************************************************************)
Numbers(s) == {e.n : e \in Elements(s)} \ {0}
Rising(s) == \A i, j \in DOMAIN s : i < j /\ s[i].n > 0 /\ s[j].n > 0 => s[i].n < s[j].n
Before(s, t) == \A m \in Numbers(s), n \in Numbers(t) : m < n
Gapless(N) == \A m, n \in N : \A k \in m .. n : k \in N

(* A list of records with numbers.                                         *)
Numbered(S) == \A e \in S : e.n \in Nat

LEMMA NumberedLists == Numbered(Task) /\ Numbered(Event)
BY DEF Numbered, Task, Event

LEMMA NumbersOf ==
  ASSUME NEW S, Numbered(S), NEW s \in Seq(S)
  PROVE  /\ Numbers(s) \subseteq Nat \ {0}
         /\ \A i \in 1 .. Len(s) : s[i] \in S /\ s[i].n \in Nat /\ (s[i].n > 0 => s[i].n \in Numbers(s))
         /\ \A n \in Numbers(s) : \E i \in 1 .. Len(s) : n = s[i].n /\ n > 0
         /\ DOMAIN s = 1 .. Len(s) /\ Len(s) \in Nat
<1>1. /\ DOMAIN s = 1 .. Len(s) /\ Len(s) \in Nat /\ \A i \in 1 .. Len(s) : s[i] \in S
  BY LenProperties, ElementOfSeq
<1>2. \A i \in 1 .. Len(s) : s[i].n \in Nat
  BY <1>1 DEF Numbered
<1>3. ASSUME NEW i \in 1 .. Len(s), s[i].n > 0 PROVE s[i].n \in Numbers(s)
  <2>1. s[i] \in Elements(s)
    BY <1>1 DEF Elements
  <2> QED BY <1>2, <1>3, <2>1 DEF Numbers
<1>4. ASSUME NEW n \in Numbers(s) PROVE \E i \in 1 .. Len(s) : n = s[i].n /\ n > 0
  <2> PICK e \in Elements(s) : n = e.n /\ n # 0
    BY DEF Numbers
  <2> PICK i \in 1 .. Len(s) : e = s[i]
    BY <1>1 DEF Elements
  <2> QED BY <1>2
<1>5. Numbers(s) \subseteq Nat \ {0}
  BY <1>2, <1>4
<1> QED BY <1>1, <1>2, <1>3, <1>4, <1>5

LEMMA NoNumbers == Numbers(<<>>) = {} /\ Rising(<<>>)
BY NoElements DEF Numbers, Rising

LEMMA RisingTail ==
  ASSUME NEW S, Numbered(S), NEW s \in Seq(S), s # <<>>
  PROVE  /\ Numbers(s) = Numbers(Tail(s)) \union ({Head(s).n} \ {0})
         /\ Rising(s) => /\ Rising(Tail(s))
                         /\ Head(s).n > 0 => \A n \in Numbers(Tail(s)) : Head(s).n < n
<1>1. /\ Head(s) = s[1] /\ Head(s) \in S /\ Tail(s) \in Seq(S)
      /\ Len(Tail(s)) = Len(s) - 1
      /\ \A i \in 1 .. Len(Tail(s)) : Tail(s)[i] = s[i + 1]
      /\ Len(s) \in Nat \ {0} /\ DOMAIN s = 1 .. Len(s)
      /\ DOMAIN Tail(s) = 1 .. Len(Tail(s))
      /\ Elements(s) = Elements(Tail(s)) \union {Head(s)}
  BY HeadTailProperties, LenProperties, EmptySeq, HeadTail
<1>2. Numbers(s) = Numbers(Tail(s)) \union ({Head(s).n} \ {0})
  BY <1>1 DEF Numbers
<1>3. /\ \A i \in 1 .. Len(s) : s[i].n \in Nat
      /\ \A n \in Numbers(Tail(s)) : \E i \in 1 .. Len(Tail(s)) : n = Tail(s)[i].n /\ n > 0
  BY <1>1, NumbersOf
<1>4. ASSUME Rising(s) PROVE Rising(Tail(s))
  <2>1. ASSUME NEW i \in 1 .. Len(Tail(s)), NEW j \in 1 .. Len(Tail(s)),
               i < j, Tail(s)[i].n > 0, Tail(s)[j].n > 0
        PROVE  Tail(s)[i].n < Tail(s)[j].n
    <3>1. i + 1 \in 1 .. Len(s) /\ j + 1 \in 1 .. Len(s) /\ i + 1 < j + 1
      BY <1>1, <2>1
    <3>2. Tail(s)[i] = s[i + 1] /\ Tail(s)[j] = s[j + 1]
      BY <1>1
    <3> QED BY <1>1, <1>4, <2>1, <3>1, <3>2 DEF Rising
  <2> QED BY <1>1, <2>1 DEF Rising
<1>5. ASSUME Rising(s), Head(s).n > 0, NEW n \in Numbers(Tail(s)) PROVE Head(s).n < n
  <2> PICK i \in 1 .. Len(Tail(s)) : n = Tail(s)[i].n /\ n > 0
    BY <1>3
  <2>1. i + 1 \in 1 .. Len(s) /\ 1 < i + 1 /\ 1 \in 1 .. Len(s)
    BY <1>1
  <2>2. Tail(s)[i] = s[i + 1] /\ Head(s) = s[1]
    BY <1>1
  <2> QED BY <1>1, <1>5, <2>1, <2>2 DEF Rising
<1> QED BY <1>2, <1>4, <1>5

LEMMA RisingAdded ==
  ASSUME NEW S, Numbered(S), NEW s \in Seq(S), NEW e \in S
  PROVE  /\ Numbers(Append(s, e)) = Numbers(s) \union ({e.n} \ {0})
         /\ Rising(s) /\ (e.n = 0 \/ \A n \in Numbers(s) : n < e.n) => Rising(Append(s, e))
<1>1. /\ Len(s) \in Nat /\ DOMAIN s = 1 .. Len(s)
      /\ DOMAIN Append(s, e) = 1 .. Len(s) + 1
      /\ \A i \in 1 .. Len(s) : Append(s, e)[i] = s[i]
      /\ Append(s, e)[Len(s) + 1] = e
  BY AppendProperties, LenProperties
<1>2. Elements(Append(s, e)) = Elements(s) \union {e} /\ Append(s, e) = s \o <<e>>
  BY Added
<1>3. Numbers(Append(s, e)) = Numbers(s) \union ({e.n} \ {0})
  BY <1>2 DEF Numbers
<1>4. /\ \A i \in 1 .. Len(s) : s[i].n \in Nat /\ (s[i].n > 0 => s[i].n \in Numbers(s))
  BY NumbersOf
<1>5. ASSUME Rising(s), e.n = 0 \/ \A n \in Numbers(s) : n < e.n
      PROVE  Rising(Append(s, e))
  <2>1. ASSUME NEW i \in 1 .. Len(s) + 1, NEW j \in 1 .. Len(s) + 1, i < j,
               Append(s, e)[i].n > 0, Append(s, e)[j].n > 0
        PROVE  Append(s, e)[i].n < Append(s, e)[j].n
    <3>1. i \in 1 .. Len(s) /\ Append(s, e)[i] = s[i]
      BY <1>1, <2>1
    <3>2. CASE j \in 1 .. Len(s)
      <4>1. Append(s, e)[j] = s[j]
        BY <1>1, <3>2
      <4> QED BY <1>1, <1>5, <2>1, <3>1, <3>2, <4>1 DEF Rising
    <3>3. CASE j = Len(s) + 1
      <4>1. Append(s, e)[j] = e
        BY <1>1, <3>3
      <4>2. s[i].n \in Numbers(s)
        BY <1>4, <2>1, <3>1
      <4> QED BY <1>5, <2>1, <3>1, <4>1, <4>2
    <3> QED BY <1>1, <3>2, <3>3
  <2> QED BY <1>1, <2>1 DEF Rising
<1> QED BY <1>3, <1>5

LEMMA RisingJoint ==
  ASSUME NEW S, Numbered(S), NEW s \in Seq(S), NEW t \in Seq(S), Numbers(t) = {}
  PROVE  Numbers(s \o t) = Numbers(s) /\ (Rising(s) => Rising(s \o t))
<1>1. /\ s \o t \in Seq(S) /\ Len(s \o t) = Len(s) + Len(t)
      /\ \A i \in 1 .. Len(s) + Len(t) :
            (s \o t)[i] = IF i <= Len(s) THEN s[i] ELSE t[i - Len(s)]
      /\ Len(s) \in Nat /\ Len(t) \in Nat
      /\ DOMAIN s = 1 .. Len(s) /\ DOMAIN t = 1 .. Len(t)
      /\ DOMAIN (s \o t) = 1 .. Len(s \o t)
  BY ConcatProperties, LenProperties
<1>2. Elements(s \o t) = Elements(s) \union Elements(t)
  BY Joint
<1>3. Numbers(s \o t) = Numbers(s)
  BY <1>2 DEF Numbers
<1>4. \A i \in 1 .. Len(t) : t[i].n \in Nat /\ ~(t[i].n > 0)
  BY NumbersOf
<1>5. ASSUME Rising(s), NEW i \in 1 .. Len(s) + Len(t), NEW j \in 1 .. Len(s) + Len(t), i < j,
             (s \o t)[i].n > 0, (s \o t)[j].n > 0
      PROVE  (s \o t)[i].n < (s \o t)[j].n
  <2>1. ASSUME NEW k \in 1 .. Len(s) + Len(t), (s \o t)[k].n > 0
        PROVE  k \in 1 .. Len(s) /\ (s \o t)[k] = s[k]
    <3>1. CASE k <= Len(s)
      BY <1>1, <3>1
    <3>2. CASE ~(k <= Len(s))
      <4>1. k - Len(s) \in 1 .. Len(t) /\ (s \o t)[k] = t[k - Len(s)]
        BY <1>1, <3>2
      <4> QED BY <1>4, <2>1, <4>1
    <3> QED BY <3>1, <3>2
  <2>2. i \in 1 .. Len(s) /\ j \in 1 .. Len(s) /\ (s \o t)[i] = s[i] /\ (s \o t)[j] = s[j]
    BY <1>5, <2>1
  <2> QED BY <1>1, <1>5, <2>2 DEF Rising
<1> QED BY <1>1, <1>3, <1>5 DEF Rising

(* The numbers of what is coming, by what the sender has sent, whether its *)
(* last frame is still to be relayed, and whether it is known to have been.*)
Lined(N, open, sent, flies, answered) ==
    /\ Gapless(N)
    /\ \A n \in N : n <= sent
    /\ flies => sent \notin N
    /\ N # {} /\ open => (flies => sent - 1 \in N) /\ (answered => sent \in N)

Row(ts, w, open, sent, flies, answered) ==
    /\ Rising(ts) /\ Rising(w) /\ Before(ts, w)
    /\ Lined(Numbers(ts) \union Numbers(w), open, sent, flies, answered)

Flies(frames) == \E f \in frames : ~f.there
Answered(c, r, w, frames) ==
    /\ ~Flies(frames)
    /\ Paused(c, r) \/ (r # <<>> /\ (frames # {} \/ Ack \in Elements(w)))

RowOf(p) ==
    LET s == Peer(p)
    IN  Row(tasks[p], wire[p], conn[p].socket = "open", conn[s].sent, Flies(From(s, air)),
            Answered(conn[s], run[s], wire[s], From(s, air)))

Order == \A p \in Side : RowOf(p)

LEMMA LinedLess ==
  ASSUME NEW N \in SUBSET (Nat \ {0}), NEW M \in SUBSET N, NEW sent \in Nat,
         NEW o, NEW f, NEW a, NEW o2, o2 => o, Lined(N, o, sent, f, a),
         \A m \in M, n \in N : m <= n => n \in M
  PROVE  Lined(M, o2, sent, f, a)
<1>1. Gapless(M)
  <2>1. ASSUME NEW m \in M, NEW n \in M, NEW k \in Nat, m <= k, k <= n PROVE k \in M
    <3>1. k \in N
      BY <2>1 DEF Lined, Gapless
    <3> QED BY <2>1, <3>1
  <2> QED BY <2>1 DEF Gapless
<1>2. ASSUME M # {}, o2 PROVE (f => sent - 1 \in M) /\ (a => sent \in M)
  <2> PICK m \in M : TRUE
    BY <1>2
  <2>1. m \in N /\ m \in Nat /\ m <= sent /\ N # {}
    BY DEF Lined
  <2>2. ASSUME f PROVE sent - 1 \in M
    <3>1. sent \notin N /\ sent - 1 \in N
      BY <1>2, <2>1, <2>2 DEF Lined
    <3>2. m <= sent - 1
      BY <2>1, <3>1
    <3> QED BY <3>1, <3>2
  <2>3. ASSUME a PROVE sent \in M
    <3>1. sent \in N
      BY <1>2, <2>1, <2>3 DEF Lined
    <3> QED BY <2>1, <3>1
  <2> QED BY <2>2, <2>3
<1> QED BY <1>1, <1>2 DEF Lined

LEMMA LinedNext ==
  ASSUME NEW N \in SUBSET Nat, NEW sent \in Nat, NEW o, NEW f, NEW a, a, Lined(N, o, sent, f, a),
         NEW f2, NEW a2, ~a2
  PROVE  Lined(N, o, sent + 1, f2, a2)
<1>1. \A n \in N : n <= sent + 1 /\ n # sent + 1
  BY DEF Lined
<1>2. N # {} /\ o => sent \in N
  BY DEF Lined
<1>3. sent + 1 - 1 = sent
  OBVIOUS
<1> QED BY <1>1, <1>2, <1>3 DEF Lined

LEMMA LinedAdded ==
  ASSUME NEW N \in SUBSET Nat, NEW sent \in Nat, NEW o, NEW f, NEW a, f, o, Lined(N, o, sent, f, a),
         NEW f2, NEW a2, ~f2
  PROVE  Lined(N \union {sent}, o, sent, f2, a2)
<1>1. Gapless(N \union {sent})
  <2>1. ASSUME NEW m \in N \union {sent}, NEW n \in N \union {sent}, NEW k \in Nat, m <= k, k <= n
        PROVE  k \in N \union {sent}
    <3>1. CASE k = sent
      BY <3>1
    <3>2. CASE k # sent
      <4>1. n <= sent /\ n \in Nat /\ m \in Nat
        BY DEF Lined
      <4>2. k <= sent - 1
        BY <2>1, <3>2, <4>1
      <4>3. m # sent
        BY <2>1, <4>2
      <4>4. m \in N /\ sent - 1 \in N
        BY <4>3 DEF Lined
      <4> QED BY <2>1, <4>2, <4>4 DEF Lined, Gapless
    <3> QED BY <3>1, <3>2
  <2> QED BY <2>1 DEF Gapless
<1> QED BY <1>1 DEF Lined

(* A list that loses what comes first, or moves it on.                     *)
LEMMA RowLess ==
  ASSUME NEW S, NEW T, Numbered(S), Numbered(T),
         NEW ts \in Seq(S), NEW w \in Seq(T), NEW sent \in Nat, NEW o, NEW f, NEW a,
         Row(ts, w, o, sent, f, a), NEW o2, o2 => o,
         NEW us \in Seq(S), NEW v \in Seq(T), Rising(us), Rising(v), Before(us, v),
         Numbers(us) \union Numbers(v) \subseteq Numbers(ts) \union Numbers(w),
         \A m \in Numbers(us) \union Numbers(v), n \in Numbers(ts) \union Numbers(w) :
            m <= n => n \in Numbers(us) \union Numbers(v)
  PROVE  Row(us, v, o2, sent, f, a)
<1> PICK N : N = Numbers(ts) \union Numbers(w)
  OBVIOUS
<1> PICK M : M = Numbers(us) \union Numbers(v)
  OBVIOUS
<1>1. N \in SUBSET (Nat \ {0}) /\ M \in SUBSET N
  BY NumbersOf
<1>2. Lined(N, o, sent, f, a)
  BY DEF Row
<1>3. Lined(M, o2, sent, f, a)
  BY <1>1, <1>2, LinedLess
<1> QED BY <1>3 DEF Row

(* An event without a number may be gone.                                  *)
Kept(w, v) == v = w \/ (w # <<>> /\ Head(w).n = 0 /\ v = Tail(w))

LEMMA KeptNumbers ==
  ASSUME NEW S, Numbered(S), NEW w \in Seq(S), NEW v, Kept(w, v)
  PROVE  v \in Seq(S) /\ Numbers(v) = Numbers(w) /\ (Rising(w) => Rising(v))
<1>1. CASE v = w
  BY <1>1
<1>2. CASE w # <<>> /\ Head(w).n = 0 /\ v = Tail(w)
  <2>1. Tail(w) \in Seq(S)
    BY <1>2, HeadTail
  <2>2. Numbers(w) = Numbers(Tail(w)) \union ({Head(w).n} \ {0}) /\ (Rising(w) => Rising(Tail(w)))
    BY <1>2, RisingTail
  <2> QED BY <1>2, <2>1, <2>2
<1> QED BY <1>1, <1>2 DEF Kept

LEMMA RowDealt ==
  ASSUME NEW ts \in Seq(Task), NEW w \in Seq(Event), NEW sent \in Nat, NEW o, NEW f, NEW a,
         Row(ts, w, o, sent, f, a), ts # <<>>, NEW more \in Seq(Task), Numbers(more) = {},
         NEW v, Kept(w, v), NEW o2, o2 => o
  PROVE  Row(Tail(ts) \o more, v, o2, sent, f, a)
<1> PICK rest : rest = Tail(ts)
  OBVIOUS
<1> PICK us : us = rest \o more
  OBVIOUS
<1>1. Numbered(Task) /\ Numbered(Event) /\ ts \in Seq(Task) /\ w \in Seq(Event)
  BY NumberedLists
<1>2. /\ rest \in Seq(Task) /\ Head(ts) \in Task
      /\ Numbers(ts) = Numbers(rest) \union ({Head(ts).n} \ {0})
      /\ Rising(rest) /\ (Head(ts).n > 0 => \A n \in Numbers(rest) : Head(ts).n < n)
  <2>1. Rising(ts)
    BY DEF Row
  <2>2. Tail(ts) \in Seq(Task) /\ Head(ts) \in Task
    BY <1>1, HeadTail
  <2>3. /\ Numbers(ts) = Numbers(Tail(ts)) \union ({Head(ts).n} \ {0})
        /\ Rising(Tail(ts)) /\ (Head(ts).n > 0 => \A n \in Numbers(Tail(ts)) : Head(ts).n < n)
    BY <1>1, <2>1, RisingTail
  <2> QED BY <2>2, <2>3
<1>3. us \in Seq(Task) /\ Numbers(us) = Numbers(rest) /\ Rising(us)
  <2>1. rest \o more \in Seq(Task)
    BY ONLY <1>2, more \in Seq(Task), ConcatProperties
  <2>2. Numbers(rest \o more) = Numbers(rest) /\ (Rising(rest) => Rising(rest \o more))
    BY <1>1, <1>2, RisingJoint
  <2> QED BY <1>2, <2>1, <2>2
<1>4. v \in Seq(Event) /\ Numbers(v) = Numbers(w) /\ Rising(v)
  BY <1>1, KeptNumbers DEF Row
<1>5. Before(ts, w) /\ Before(us, v)
  BY <1>2, <1>3, <1>4 DEF Row, Before
<1>6. Head(ts).n \in Nat
  BY <1>2 DEF Task
<1>7. /\ Numbers(us) \subseteq Nat \ {0} /\ Numbers(v) \subseteq Nat \ {0}
  BY <1>1, <1>3, <1>4, NumbersOf
<1>8. ASSUME NEW m \in Numbers(us) \union Numbers(v), NEW n \in Numbers(ts) \union Numbers(w), m <= n
      PROVE  n \in Numbers(us) \union Numbers(v)
  <2>1. CASE n = Head(ts).n /\ n # 0
    <3>1. CASE m \in Numbers(us)
      <4>1. n < m
        BY ONLY <1>2, <1>3, <1>6, <2>1, <3>1
      <4> QED BY <1>6, <1>7, <1>8, <2>1, <3>1, <4>1
    <3>2. CASE m \in Numbers(v)
      <4>1. n \in Numbers(ts) /\ m \in Numbers(w)
        BY ONLY <1>2, <1>4, <2>1, <3>2
      <4>2. n < m
        BY ONLY <1>5, <4>1 DEF Before
      <4> QED BY <1>6, <1>7, <1>8, <2>1, <3>2, <4>2
    <3> QED BY <3>1, <3>2
  <2>2. CASE n \in Numbers(rest) \union Numbers(w)
    BY <1>3, <1>4, <2>2
  <2> QED BY <1>2, <1>8, <2>1, <2>2
<1>9. Numbers(us) \union Numbers(v) \subseteq Numbers(ts) \union Numbers(w)
  BY <1>2, <1>3, <1>4
<1>10. us \in Seq(Task) /\ v \in Seq(Event) /\ Rising(us) /\ Rising(v) /\ Before(us, v)
  BY <1>3, <1>4, <1>5
<1>11. Row(us, v, o2, sent, f, a)
  BY ONLY <1>1, <1>8, <1>9, <1>10, Row(ts, w, o, sent, f, a), sent \in Nat, o2 => o, RowLess
<1> QED BY <1>11

LEMMA RowKept ==
  ASSUME NEW ts \in Seq(Task), NEW w \in Seq(Event), NEW sent \in Nat, NEW o, NEW f, NEW a,
         Row(ts, w, o, sent, f, a), NEW more \in Seq(Task), Numbers(more) = {},
         NEW v, Kept(w, v), NEW o2, o2 => o
  PROVE  Row(ts \o more, v, o2, sent, f, a) /\ Row(ts, v, o2, sent, f, a)
<1> PICK us : us = ts \o more
  OBVIOUS
<1>1. Numbered(Task) /\ Numbered(Event) /\ ts \in Seq(Task) /\ w \in Seq(Event)
  BY NumberedLists
<1>2. us \in Seq(Task) /\ Numbers(us) = Numbers(ts) /\ Rising(us) /\ Rising(ts)
  <2>1. ts \o more \in Seq(Task)
    BY ConcatProperties
  <2>2. Numbers(ts \o more) = Numbers(ts) /\ (Rising(ts) => Rising(ts \o more))
    BY <1>1, RisingJoint
  <2> QED BY <2>1, <2>2 DEF Row
<1>3. v \in Seq(Event) /\ Numbers(v) = Numbers(w) /\ Rising(v)
  BY <1>1, KeptNumbers DEF Row
<1>4. Before(us, v) /\ Before(ts, v)
  BY <1>2, <1>3 DEF Row, Before
<1>5. Row(us, v, o2, sent, f, a)
  BY <1>1, <1>2, <1>3, <1>4, RowLess
<1>6. Row(ts, v, o2, sent, f, a)
  BY <1>1, <1>2, <1>3, <1>4, RowLess
<1> QED BY <1>5, <1>6

LEMMA RowMoved ==
  ASSUME NEW ts \in Seq(Task), NEW w \in Seq(Event), NEW sent \in Nat, NEW o, NEW f, NEW a,
         Row(ts, w, o, sent, f, a), w # <<>>, Head(w).n > 0,
         NEW t \in Task, t.n = Head(w).n, NEW o2, o2 => o
  PROVE  /\ Row(Append(ts, t), Tail(w), o2, sent, f, a)
         /\ ts = <<>> => Row(ts, Tail(w), o2, sent, f, a)
<1> PICK us : us = Append(ts, t)
  OBVIOUS
<1> PICK v : v = Tail(w)
  OBVIOUS
<1>1. Numbered(Task) /\ Numbered(Event) /\ ts \in Seq(Task) /\ w \in Seq(Event)
  BY NumberedLists
<1>2. /\ v \in Seq(Event) /\ Head(w) \in Event
      /\ Numbers(w) = Numbers(v) \union ({Head(w).n} \ {0})
      /\ Rising(v) /\ \A n \in Numbers(v) : Head(w).n < n
  <2>1. Rising(w)
    BY DEF Row
  <2>2. Tail(w) \in Seq(Event) /\ Head(w) \in Event
    BY <1>1, HeadTail
  <2>3. /\ Numbers(w) = Numbers(Tail(w)) \union ({Head(w).n} \ {0})
        /\ Rising(Tail(w)) /\ (Head(w).n > 0 => \A n \in Numbers(Tail(w)) : Head(w).n < n)
    BY <1>1, <2>1, RisingTail
  <2> QED BY <2>2, <2>3
<1>3. Head(w).n \in Nat \ {0} /\ Head(w).n \in Numbers(w)
  BY <1>2 DEF Event
<1>4. /\ us \in Seq(Task) /\ Numbers(us) = Numbers(ts) \union {t.n} /\ Rising(us)
  <2>1. \A n \in Numbers(ts) : n < t.n
    BY <1>3 DEF Row, Before
  <2>2. Append(ts, t) \in Seq(Task)
    BY AppendProperties
  <2>3. /\ Numbers(Append(ts, t)) = Numbers(ts) \union ({t.n} \ {0})
        /\ (Rising(ts) /\ (t.n = 0 \/ \A n \in Numbers(ts) : n < t.n) => Rising(Append(ts, t)))
    BY <1>1, RisingAdded
  <2> QED BY <1>3, <2>1, <2>2, <2>3 DEF Row
<1>5. Before(us, v)
  BY <1>2, <1>3, <1>4 DEF Row, Before
<1>6. Numbers(us) \union Numbers(v) = Numbers(ts) \union Numbers(w)
  BY <1>2, <1>3, <1>4
<1>7. Row(us, v, o2, sent, f, a)
  BY <1>1, <1>2, <1>4, <1>5, <1>6, RowLess
<1>8. ASSUME ts = <<>> PROVE Row(ts, v, o2, sent, f, a)
  <2>1. Numbers(ts) = {} /\ Rising(ts) /\ Before(ts, v)
    BY <1>8, NoNumbers DEF Before
  <2>2. Numbers(v) \subseteq Nat
    BY <1>1, <1>2, NumbersOf
  <2>3. \A m \in Numbers(ts) \union Numbers(v), n \in Numbers(ts) \union Numbers(w) :
            m <= n => n \in Numbers(ts) \union Numbers(v)
    <3>1. ASSUME NEW m \in Numbers(v), NEW n \in Numbers(w), m <= n PROVE n \in Numbers(v)
      <4>1. Head(w).n < m
        BY <1>2
      <4>2. n # Head(w).n
        BY <1>3, <2>2, <3>1, <4>1
      <4> QED BY <1>2, <4>2
    <3> QED BY <2>1, <3>1
  <2>4. Numbers(ts) \union Numbers(v) \subseteq Numbers(ts) \union Numbers(w)
    BY <1>2
  <2>5. Rising(v) /\ v \in Seq(Event)
    BY <1>2
  <2> QED BY ONLY <1>1, <2>1, <2>3, <2>4, <2>5, Row(ts, w, o, sent, f, a), sent \in Nat, o2 => o, RowLess
<1> QED BY <1>7, <1>8

LEMMA RowRelayed ==
  ASSUME NEW ts \in Seq(Task), NEW w \in Seq(Event), NEW sent \in Nat, NEW o, NEW f, NEW a,
         Row(ts, w, o, sent, f, a), o, f, NEW e \in Event, e.n = sent, sent # 0,
         NEW f2, NEW a2, ~f2
  PROVE  Row(ts, Append(w, e), o, sent, f2, a2)
<1> PICK N : N = Numbers(ts) \union Numbers(w)
  OBVIOUS
<1>1. Numbered(Task) /\ Numbered(Event) /\ ts \in Seq(Task) /\ w \in Seq(Event)
  BY NumberedLists
<1>2. N \in SUBSET (Nat \ {0}) /\ \A n \in N : n < sent
  BY <1>1, NumbersOf DEF Row, Lined
<1>3. Numbers(Append(w, e)) = Numbers(w) \union {sent} /\ Rising(Append(w, e))
  <2>1. /\ Numbers(Append(w, e)) = Numbers(w) \union ({e.n} \ {0})
        /\ (Rising(w) /\ (e.n = 0 \/ \A n \in Numbers(w) : n < e.n) => Rising(Append(w, e)))
    BY <1>1, RisingAdded
  <2> QED BY <1>2, <2>1 DEF Row
<1>4. Before(ts, Append(w, e))
  BY <1>2, <1>3 DEF Row, Before
<1>5. Lined(N \union {sent}, o, sent, f2, a2)
  BY <1>2, LinedAdded DEF Row
<1>6. Numbers(ts) \union Numbers(Append(w, e)) = N \union {sent}
  BY <1>3
<1> QED BY <1>3, <1>4, <1>5, <1>6 DEF Row

LEMMA RowPosted ==
  ASSUME NEW ts \in Seq(Task), NEW w \in Seq(Event), NEW sent \in Nat, NEW o, NEW f, NEW a,
         Row(ts, w, o, sent, f, a), NEW e \in Event, e.n = 0, NEW o2, o2 => o
  PROVE  Row(ts, Append(w, e), o2, sent, f, a)
<1>1. Numbered(Task) /\ Numbered(Event) /\ ts \in Seq(Task) /\ w \in Seq(Event)
  BY NumberedLists
<1>2. Numbers(Append(w, e)) = Numbers(w) /\ Rising(Append(w, e)) /\ Append(w, e) \in Seq(Event)
  <2>1. /\ Numbers(Append(w, e)) = Numbers(w) \union ({e.n} \ {0})
        /\ (Rising(w) /\ (e.n = 0 \/ \A n \in Numbers(w) : n < e.n) => Rising(Append(w, e)))
    BY <1>1, RisingAdded
  <2> QED BY <2>1, AppendProperties DEF Row
<1>3. Before(ts, Append(w, e)) /\ Rising(ts)
  BY <1>2 DEF Row, Before
<1> QED BY <1>1, <1>2, <1>3, RowLess

LEMMA RowEmpty ==
  ASSUME NEW sent, NEW o, NEW f, NEW a
  PROVE  Row(<<>>, <<>>, o, sent, f, a)
BY NoNumbers DEF Row, Before, Lined, Gapless

LEMMA RowSent ==
  ASSUME NEW ts, NEW w, NEW sent, NEW o, NEW f, NEW a, NEW f2, NEW a2, f2 => f, a2 => a,
         Row(ts, w, o, sent, f, a)
  PROVE  Row(ts, w, o, sent, f2, a2)
BY DEF Row, Lined

LEMMA RowNext ==
  ASSUME NEW ts \in Seq(Task), NEW w \in Seq(Event), NEW sent \in Nat, NEW o, NEW f, NEW a, a,
         Row(ts, w, o, sent, f, a), NEW f2, NEW a2, ~a2
  PROVE  Row(ts, w, o, sent + 1, f2, a2)
<1> PICK N : N = Numbers(ts) \union Numbers(w)
  OBVIOUS
<1>1. N \in SUBSET Nat
  BY NumberedLists, NumbersOf
<1>2. Lined(N, o, sent, f, a)
  BY DEF Row
<1>3. Lined(N, o, sent + 1, f2, a2)
  BY <1>1, <1>2, LinedNext
<1> QED BY <1>3 DEF Row

-----------------------------------------------------------------------------
(***************************************************************************)
(* Frames in order, the second part: what may be dropped has no numbers.   *)
(***************************************************************************)
(* Nothing follows a close: one is being sent, was sent, or nothing is.    *)
Hushed(c, r) == r = <<"close">> \/ c.sendClosed \/ c.state = "failed"

Farewell(p, t) ==
    t.what = "close" =>
        t.n = conn[Peer(p)].sent /\ Hushed(conn[Peer(p)], run[Peer(p)])

LastOnly(s) == \A i \in DOMAIN s : s[i] = Gone => i = Len(s)

Goodbye ==
    /\ \A p \in Side :
          /\ \A t \in Elements(tasks[p]) : t.do = "recv" => Farewell(p, t)
          /\ \A e \in Elements(wire[p]) : Farewell(p, e)
          /\ LastOnly(wire[p])
          /\ Gone \in Elements(wire[p]) => conn[p].socket # "open"
          /\ conn[p].sendClosed \/ Close \in Elements(tasks[p]) => conn[p].selfClosed
    /\ \A f \in air : f.what = "close" => Hushed(conn[f.from], run[f.from])

(* The authority has not answered a handshake message.                     *)
Virgin(c, r) == c.got = 0 /\ c.state # "failed" /\ r \in {<<>>, <<"close">>}

Bye == [do |-> "recv", what |-> "close", n |-> 1]

Virginal == Virgin(conn["auth"], run["auth"])

(* Then it sends its close, at most.                                       *)
MuteAuth ==
    /\ \A f \in From("auth", air) : f.what = "close"
    /\ conn["auth"].sent <= 1
    /\ conn["auth"].sent = 1 => run["auth"] = <<"close">> \/ conn["auth"].sendClosed

(* And the supplicant has said hello, at most, and hears the close.        *)
MuteSupp ==
    /\ conn["supp"].sent <= 1 /\ conn["supp"].got = 0 /\ ~conn["supp"].sendClosed
    /\ conn["supp"].state = "failed" \/ Elements(tasks["supp"]) \subseteq {Bye}
    /\ \A e \in Elements(wire["supp"]) : e.n > 0 => e.what = "close" /\ e.n = 1

(* Neither page says anything of its own before the handshake is over.     *)
HandAuth ==
    conn["auth"].got = 0 =>
        /\ page["auth"] \notin {"confirming", "authorizing", "complete"}
        /\ flow["auth"] \notin {"code", "send"}
        /\ \A t \in Elements(tasks["auth"]) : t.do # "send"

HandSupp ==
    /\ conn["supp"].state \in {"hello", "handshake"} /\ conn["supp"].socket # "shut" =>
          /\ ~conn["supp"].sendClosed /\ ~conn["supp"].heard
          /\ \A t \in Elements(tasks["supp"]) : t.do = "recv"
    /\ conn["supp"].state = "handshake" /\ conn["supp"].socket # "shut" =>
          flow["supp"] \notin {"send", "idle"}
    /\ conn["supp"].state = "connected" => conn["supp"].got >= 3

Hand == HandAuth /\ HandSupp /\ (Virginal => MuteAuth /\ MuteSupp)

(* What may be dropped.                                                    *)
Quiet ==
    \A p \in Side :
        /\ conn[p].socket = "shut" => Numbers(wire[p]) = {}
        /\ conn[p].peerClosed =>
              /\ Numbers(wire[p]) = {}
              /\ \/ conn[p].socket = "shut"
                 \/ /\ ~Flies(From(Peer(p), air))
                    /\ Hushed(conn[Peer(p)], run[Peer(p)])

-----------------------------------------------------------------------------
(***************************************************************************)
(* What a step does to one side, unless it relays a frame.                 *)
(***************************************************************************)
(* What a page has yet to deal with: nothing; less, and what it has to say *)
(* itself; the next frame moves into the queue, or is dropped; an event.   *)
Taking(p, more) ==
    /\ Elements(more) \subseteq Outgoing(p) /\ Kept(wire[p], wire'[p])
    /\ \/ tasks'[p] = tasks[p] \o more
       \/ tasks[p] # <<>> /\ tasks'[p] = Tail(tasks[p]) \o more

Moving(p) ==
    /\ wire[p] # <<>> /\ Head(wire[p]) \in Arriving(p) /\ wire'[p] = Tail(wire[p])
    /\ \/ tasks'[p] = Append(tasks[p], [do |-> "recv", what |-> Head(wire[p]).what,
                                        n |-> Head(wire[p]).n])
       \/ tasks'[p] = tasks[p] /\ (tasks[p] = <<>> \/ conn[p].socket = "shut")

Noting(p, e) ==
    /\ conn[p].socket = "open" /\ (e = Gone => conn'[p].socket # "open")
    /\ tasks'[p] = tasks[p] /\ wire'[p] = Append(wire[p], e)

Deals(p) ==
    \/ tasks'[p] = <<>> /\ wire'[p] = <<>>
    \/ /\ conn'[p].socket = "open" => conn[p].socket = "open"
       /\ \/ \E more \in Seq(Task) : Taking(p, more)
          \/ Moving(p)
          \/ \E e \in {Ack, Gone} : Noting(p, e)

(* What it sends: nothing; a frame, when the last one was relayed and no   *)
(* close was sent; or the channel is a new one.                            *)
Resting(p) ==
    /\ conn'[p].sent = conn[p].sent
    /\ Hushed(conn[p], run[p]) => Hushed(conn'[p], run'[p])
    /\ Flies(From(p, air')) => Flies(From(p, air))
    /\ Answered(conn'[p], run'[p], wire'[p], From(p, air')) =>
          Answered(conn[p], run[p], wire[p], From(p, air))

Uttering(p) ==
    /\ conn'[p].sent = conn[p].sent + 1
    /\ ~Hushed(conn[p], run[p])
    /\ Answered(conn[p], run[p], wire[p], From(p, air))
    /\ ~Answered(conn'[p], run'[p], wire'[p], From(p, air'))

Utters(p) ==
    /\ Resting(p) \/ Uttering(p) \/ (conn[p].state = "none" /\ ~Hushed(conn[p], run[p]))
    /\ \A f \in From(p, air') : f.what = "close" => f \in air \/ run'[p] = <<"close">>

(* When it closes, and why.                                                *)
Owned(c, ts) == c.sendClosed \/ Close \in Elements(ts) => c.selfClosed

Shuts(p) ==
    /\ Owned(conn[p], tasks[p]) => Owned(conn'[p], tasks'[p])
    /\ conn[p].socket = "shut" => conn'[p].socket = "shut"
    /\ conn'[p].socket = "shut" =>
          \/ conn[p].socket = "shut" \/ conn[p].peerClosed \/ Closes(p)
          \/ wire'[p] = <<>> \/ (Hears(p, "gone") /\ Heard(p))
    /\ conn'[p].peerClosed =>
          conn[p].peerClosed \/ (Closes(p) /\ (conn[p].selfClosed => conn'[p].socket = "shut"))

Deed(p) == Deals(p) /\ Utters(p) /\ Shuts(p)

Same(p) ==
    /\ conn'[p] = conn[p] /\ tasks'[p] = tasks[p] /\ run'[p] = run[p] /\ wire'[p] = wire[p]
    /\ From(p, air') = From(p, air)

Alone(p) == Deed(p) /\ \A q \in Side : q # p => Same(q)

LEMMA TakesNothing ==
  ASSUME Shape, NEW p \in Side, tasks'[p] = tasks[p], Kept(wire[p], wire'[p])
  PROVE  \E more \in Seq(Task) : Taking(p, more)
<1>1. <<>> \in Seq(Task) /\ Elements(<<>>) = {} /\ tasks[p] \o <<>> = tasks[p]
  BY SideShape, NoElements, ConcatEmptySeq
<1>2. Taking(p, <<>>)
  BY <1>1 DEF Taking
<1> QED BY <1>1, <1>2

LEMMA Bystander ==
  ASSUME Shape, NEW p \in Side, Same(p)
  PROVE  Deed(p)
<1>1. \E more \in Seq(Task) : Taking(p, more)
  BY TakesNothing DEF Same, Kept
<1>2. Deals(p)
  BY <1>1 DEF Deals, Same
<1>3. Utters(p)
  BY DEF Utters, Resting, Same, From
<1>4. Shuts(p)
  BY DEF Shuts, Same
<1> QED BY <1>2, <1>3, <1>4 DEF Deed

(* What comes next on the socket.                                          *)
LEMMA NextEvent ==
  ASSUME Shape, NEW p \in Side, wire[p] # <<>>
  PROVE  /\ Head(wire[p]) \in Elements(wire[p]) /\ Tail(wire[p]) \in Seq(Event)
         /\ Head(wire[p]) \in Arriving(p) \union {Ack, Gone}
         /\ Head(wire[p]).what = "ack" => Head(wire[p]) = Ack
         /\ Head(wire[p]).what = "gone" => Head(wire[p]) = Gone
         /\ Head(wire[p]).what \in What => Head(wire[p]) \in Arriving(p)
<1>1. wire[p] \in Seq(Event) /\ Spoken(p, tasks[p], run[p], wire[p])
  BY SideShape DEF Sound
<1>2. Head(wire[p]) \in Elements(wire[p]) /\ Tail(wire[p]) \in Seq(Event)
  BY <1>1, HeadTail
<1> PICK e : e = Head(wire[p])
  OBVIOUS
<1>3. e \in Arriving(p) \union {Ack, Gone}
  BY <1>1, <1>2 DEF Spoken
<1>4. e \in Arriving(p) => e.what \notin {"ack", "gone"}
  BY DEF Arriving, Frames, Says
<1>5. Ack.what = "ack" /\ Gone.what = "gone" /\ {"ack", "gone"} \intersect What = {}
  BY DEF Ack, Gone, What, Message
<1> QED BY <1>2, <1>3, <1>4, <1>5

LEMMA EventKept ==
  ASSUME Shape, NEW p \in Side,
         UNCHANGED wire \/ ((Hears(p, "ack") \/ Hears(p, "gone")) /\ Heard(p))
  PROVE  Kept(wire[p], wire'[p])
<1>1. wire \in [Side -> Seq(Event)]
  BY DEF Shape, Typed
<1>2. CASE UNCHANGED wire
  BY <1>2 DEF Kept
<1>3. CASE (Hears(p, "ack") \/ Hears(p, "gone")) /\ Heard(p)
  <2>1. wire[p] # <<>> /\ wire'[p] = Tail(wire[p])
    BY <1>1, <1>3 DEF Hears, Heard
  <2>2. Head(wire[p]) \in {Ack, Gone}
    BY <1>3, <2>1, NextEvent DEF Hears
  <2>3. Ack.n = 0 /\ Gone.n = 0
    BY DEF Ack, Gone
  <2> QED BY <2>1, <2>2, <2>3 DEF Kept
<1> QED BY <1>2, <1>3

LEMMA ActsSame ==
  ASSUME Shape, NEW p \in Side, NEW c, NEW ts, NEW r, NEW w, Acts(p, c, ts, r, w),
         \A q \in Side : q # p => From(q, air') = From(q, air)
  PROVE  /\ conn'[p] = c /\ tasks'[p] = ts /\ run'[p] = r /\ wire'[p] = w
         /\ \A q \in Side : q # p => Same(q)
BY ActsOne DEF Same

LEMMA EndsDeed ==
  ASSUME Shape, Pace, NEW p \in Side, Ends(p), UNCHANGED <<relayed, declined>>
  PROVE  Alone(p)
<1> PICK c \in Channel, more \in Seq(Task), next \in Page, step \in {flow[p], "idle"},
         w \in Seq(Event) :
            /\ Ending(p, c, more, next, step) /\ tasks[p] # <<>> /\ UNCHANGED air
            /\ Acts(p, c, Tail(tasks[p]) \o more, <<>>, w)
            /\ Elements(w) \subseteq Elements(wire[p])
  BY EndsActs
<1>1. /\ conn'[p] = c /\ tasks'[p] = Tail(tasks[p]) \o more /\ run'[p] = <<>> /\ wire'[p] = w
      /\ \A q \in Side : q # p => Same(q)
  <2>1. \A q \in Side : q # p => From(q, air') = From(q, air)
    BY DEF From
  <2> QED BY <2>1, ActsSame
<1>2. Becomes(p, c) /\ Answering(p, c, more)
  BY DEF Ending
<1>3. Taken(p) \/ InVain(p) \/ Acknowledged(p)
  BY DEF Ends, Receives, Closes, FailsAt, Refuses, Sends, Finishes
<1>4. Kept(wire[p], wire'[p])
  BY <1>3, EventKept DEF Taken, InVain, Acknowledged
<1>5. Deals(p)
  <2>1. Taking(p, more)
    BY <1>1, <1>2, <1>4 DEF Taking, Answering
  <2>2. conn'[p].socket = "open" => conn[p].socket = "open"
    BY <1>1, <1>2 DEF Becomes
  <2> QED BY <2>1, <2>2 DEF Deals
<1>6. Utters(p)
  <2>1. From(p, air') = From(p, air) /\ \A f \in From(p, air') : f \in air
    BY DEF From
  <2>2. Hushed(conn[p], run[p]) => Hushed(c, <<>>)
    BY <1>2 DEF Hushed, Becomes
  <2>3. ASSUME Paused(c, <<>>)
        PROVE  Paused(conn[p], run[p]) \/ (run[p] # <<>> /\ Ack \in Elements(wire[p]))
    <3>1. (Taken(p) /\ Alive(p)) \/ Acknowledged(p)
      BY <1>2, <2>3 DEF Becomes, Paused
    <3>2. CASE Taken(p) /\ Alive(p)
      BY <3>2 DEF Taken, Alive, Live, Paused
    <3>3. CASE Acknowledged(p)
      BY <3>3, NextEvent DEF Acknowledged, Hears
    <3> QED BY <3>1, <3>2, <3>3
  <2>4. Answered(c, <<>>, w, From(p, air')) => Answered(conn[p], run[p], wire[p], From(p, air))
    BY <2>1, <2>3 DEF Answered
  <2>5. c.sent = conn[p].sent
    BY <1>2 DEF Becomes
  <2>6. Resting(p)
    BY <1>1, <2>1, <2>2, <2>4, <2>5 DEF Resting
  <2> QED BY <2>1, <2>6 DEF Utters
<1>7. Shuts(p)
  <2>1. ASSUME Owned(conn[p], tasks[p]) PROVE Owned(c, tasks'[p])
    <3>1. CASE Close \in Elements(tasks[p]) \/ conn[p].sendClosed
      BY <1>2, <2>1, <3>1 DEF Owned, Becomes
    <3>2. CASE ~(Close \in Elements(tasks[p]) \/ conn[p].sendClosed)
      <4>1. tasks[p] \in Seq(Task)
        BY SideShape
      <4>2. /\ Tail(tasks[p]) \in Seq(Task) /\ Elements(tasks[p]) = Elements(Tail(tasks[p])) \union {First(p)}
        BY <4>1, HeadTail DEF First
      <4> PICK rest \in Seq(Task) : rest = Tail(tasks[p])
        BY <4>2
      <4>5. Elements(rest \o more) = Elements(rest) \union Elements(more)
        BY ONLY rest \in Seq(Task), more \in Seq(Task), Joint
      <4>3. Elements(tasks'[p]) = Elements(Tail(tasks[p])) \union Elements(more)
        BY <1>1, <4>5
      <4>4. ~Finishes(p)
        BY <3>2, <4>2, FirstTyped DEF Finishes
      <4> QED BY <1>2, <3>2, <4>2, <4>3, <4>4 DEF Owned, Becomes, Answering
    <3> QED BY <3>1, <3>2
  <2>2. conn[p].socket = "shut" => c.socket = "shut"
    BY <1>2 DEF Becomes
  <2>3. c.socket = "shut" => conn[p].socket = "shut" \/ conn[p].peerClosed \/ Closes(p)
    BY <1>2 DEF Becomes
  <2>4. c.peerClosed => conn[p].peerClosed \/ (Closes(p) /\ (conn[p].selfClosed => c.socket = "shut"))
    BY <1>2 DEF Becomes
  <2> QED BY <1>1, <2>1, <2>2, <2>3, <2>4 DEF Shuts
<1> QED BY <1>1, <1>5, <1>6, <1>7 DEF Alone, Deed

LEMMA LongerThanOne == ASSUME NEW r, NEW v, Len(r) > 1 PROVE r # <<v>>
<1>1. Len(<<v>>) = 1
  OBVIOUS
<1> QED BY <1>1

LEMMA BeginsDeed ==
  ASSUME Shape, Pace, NEW p \in Side, NEW frames, Begins(p, frames)
  PROVE  Alone(p)
<1> PICK c \in Channel, w \in Seq(Event), f \in Frame :
            /\ c = [conn[p] EXCEPT !.sent = @ + 1] /\ c.sent = conn[p].sent + 1
            /\ Acts(p, c, tasks[p], frames, w)
            /\ f = [from |-> p, n |-> c.sent, what |-> Head(frames), there |-> FALSE]
            /\ air' = IF conn[p].socket = "open" THEN air \union {f} ELSE air
            /\ From(p, air) = {} /\ Ack \notin Elements(w)
  BY BeginsActs
<1>1. /\ conn'[p] = c /\ tasks'[p] = tasks[p] /\ run'[p] = frames /\ wire'[p] = w
      /\ \A q \in Side : q # p => Same(q)
  <2>1. f.from = p /\ air' \subseteq air \union {f} /\ air \subseteq air'
    OBVIOUS
  <2>2. \A q \in Side : q # p => From(q, air') = From(q, air)
    BY <2>1 DEF From
  <2> QED BY <2>2, ActsSame
<1>2. /\ c.socket = conn[p].socket /\ c.selfClosed = conn[p].selfClosed
      /\ c.peerClosed = conn[p].peerClosed /\ c.sendClosed = conn[p].sendClosed
  <2>1. conn[p] \in Channel
    BY SideShape
  <2> QED BY <2>1 DEF Channel
<1>3. tasks[p] # <<>> /\ Alive(p) /\ ~conn[p].sendClosed /\ (Taken(p) \/ Acknowledged(p))
  BY DEF Begins
<1>4. Deals(p)
  <2>1. Kept(wire[p], wire'[p])
    BY <1>3, EventKept DEF Taken, Acknowledged
  <2> QED BY <1>1, <1>2, <2>1, TakesNothing DEF Deals
<1>5. Utters(p)
  <2>1. frames # <<>> /\ From(p, air') \subseteq {f} /\ ~f.there
    BY BeginsTyped DEF From
  <2>2. Answered(conn[p], run[p], wire[p], From(p, air))
    <3>1. CASE Taken(p)
      BY <1>3, <3>1 DEF Taken, Answered, Flies, Paused, Alive, Live
    <3>2. CASE Acknowledged(p)
      BY <3>2, NextEvent DEF Acknowledged, Hears, Answered, Flies
    <3> QED BY <1>3, <3>1, <3>2
  <2>3. ~Hushed(conn[p], run[p])
    <3>1. conn[p].state # "failed"
      BY <1>3 DEF Alive, Live
    <3>2. run[p] # <<"close">>
      <4>1. CASE Taken(p)
        BY <4>1 DEF Taken
      <4>2. CASE Len(run[p]) > 1
        BY <4>2, LongerThanOne
      <4> QED BY <4>1, <4>2 DEF Begins
    <3> QED BY <1>3, <3>1, <3>2 DEF Hushed
  <2>4. ~Answered(c, frames, w, From(p, air'))
    BY <2>1 DEF Answered, Flies, Paused
  <2>5. Uttering(p)
    BY <1>1, <2>2, <2>3, <2>4 DEF Uttering
  <2>6. Head(frames) = "close" => frames = <<"close">>
    <3> PICK t : t = Head(tasks[p])
      OBVIOUS
    <3>1. /\ frames \in Seq(What) /\ frames # <<>>
          /\ t.do # "recv" => frames = <<t.what>>
          /\ t.do = "recv" /\ frames # <<"alert">> => Elements(frames) \subseteq {"handshake"}
      BY BeginsTyped
    <3>2. Head(frames) \in Elements(frames)
      BY <3>1, HeadTail
    <3>3. CASE t.do # "recv"
      BY <3>1, <3>3
    <3>4. CASE t.do = "recv"
      BY <3>1, <3>2, <3>4
    <3> QED BY <3>3, <3>4
  <2>7. \A g \in From(p, air') : g.what = "close" => run'[p] = <<"close">>
    BY <1>1, <2>1, <2>6
  <2> QED BY <2>5, <2>7 DEF Utters
<1>6. Shuts(p)
  BY <1>1, <1>2 DEF Shuts, Owned
<1> QED BY <1>1, <1>4, <1>5, <1>6 DEF Alone, Deed

(* A step that sends nothing and that no ack is for.                       *)
LEMMA RestsUtters ==
  ASSUME NEW p, conn'[p].sent = conn[p].sent, UNCHANGED air,
         Hushed(conn[p], run[p]) => Hushed(conn'[p], run'[p]),
         Paused(conn'[p], run'[p]) => Paused(conn[p], run[p]),
         run'[p] \in {run[p], <<>>}, Ack \in Elements(wire'[p]) => Ack \in Elements(wire[p])
  PROVE  Utters(p)
<1>1. From(p, air') = From(p, air) /\ \A f \in From(p, air') : f \in air
  BY DEF From
<1>2. Answered(conn'[p], run'[p], wire'[p], From(p, air')) =>
         Answered(conn[p], run[p], wire[p], From(p, air))
  BY <1>1 DEF Answered
<1>3. Resting(p)
  BY <1>1, <1>2 DEF Resting
<1> QED BY <1>1, <1>3 DEF Utters

LEMMA WaitsDeed ==
  ASSUME Shape, Pace, NEW p \in Side, Drops(p) \/ (p = "supp" /\ Waits4Hello)
  PROVE  Alone(p)
<1> PICK c, r, w : c = conn'[p] /\ r = run'[p] /\ w = wire'[p]
  OBVIOUS
<1>1. /\ conn[p] \in Channel /\ wire[p] \in Seq(Event)
      /\ Running(conn[p], tasks[p], run[p])
      /\ Starting(p, flow[p], conn[p], tasks[p], run[p], wire[p])
  BY SideShape DEF Sound
<1>2. UNCHANGED <<tasks, air>>
  BY DEF Drops, Waits4Hello, Joins, Joined, GivesUp
<1>3. UNCHANGED wire \/ (Hears(p, "ack") /\ Heard(p))
  BY DEF Drops, Waits4Hello, Joins, GivesUp, Acknowledged, InVain
<1>4. Kept(wire[p], w) /\ Listens(p)
  BY <1>3, EventKept DEF Listens, Hears
<1>5. /\ conn' = [conn EXCEPT ![p] = c] /\ run' = [run EXCEPT ![p] = r]
      /\ wire' = [wire EXCEPT ![p] = w]
  <2>1. /\ conn \in [Side -> Channel] /\ run \in [Side -> Seq(What)] /\ wire \in [Side -> Seq(Event)]
    BY DEF Shape, Typed
  <2>2. PICK v \in Seq(Event) : wire' = [wire EXCEPT ![p] = v]
    BY <1>4, WireStep
  <2>3. PICK d : conn' = [conn EXCEPT ![p] = d]
    <3>1. CASE Drops(p)
      BY <3>1, Unchanged DEF Drops
    <3>2. CASE p = "supp" /\ Waits4Hello
      BY <3>2, Unchanged DEF Waits4Hello, Joins, Joined, GivesUp
    <3> QED BY <3>1, <3>2
  <2>4. PICK s : run' = [run EXCEPT ![p] = s]
    <3>1. CASE Drops(p)
      BY <3>1, Unchanged DEF Drops
    <3>2. CASE p = "supp" /\ Waits4Hello
      BY <3>2, Unchanged DEF Waits4Hello, Joins, Joined, GivesUp
    <3> QED BY <3>1, <3>2
  <2> QED BY <2>1, <2>2, <2>3, <2>4
<1>6. /\ c.sent = conn[p].sent /\ c.socket = conn[p].socket /\ c.selfClosed = conn[p].selfClosed
      /\ c.sendClosed = conn[p].sendClosed /\ c.peerClosed = conn[p].peerClosed
      /\ c.state = conn[p].state \/ (Joins /\ p = "supp")
      /\ r \in {run[p], <<>>}
  <2>1. conn \in [Side -> Channel]
    BY DEF Shape, Typed
  <2>2. CASE Drops(p)
    BY <2>2 DEF Drops
  <2>4. run \in [Side -> Seq(What)]
    BY DEF Shape, Typed
  <2>3. CASE p = "supp" /\ GivesUp
    BY <2>1, <2>3, <2>4 DEF GivesUp
  <2>5. CASE p = "supp" /\ Joins
    <3>1. c = [conn[p] EXCEPT !.state = "handshake"] /\ r = <<>>
      BY <2>1, <2>4, <2>5 DEF Joins, Joined
    <3> QED BY <1>1, <2>5, <3>1 DEF Channel
  <2> QED BY <2>2, <2>3, <2>5 DEF Waits4Hello
<1>7. /\ conn'[p] = c /\ tasks'[p] = tasks[p] /\ run'[p] = r /\ wire'[p] = w
      /\ \A q \in Side : q # p => Same(q)
  <2>1. Acts(p, c, tasks[p], r, w)
    BY <1>2, <1>5, Unchanged DEF Acts
  <2>2. \A q \in Side : q # p => From(q, air') = From(q, air)
    BY <1>2 DEF From
  <2> QED BY <2>1, <2>2, ActsSame
<1>8. Deals(p)
  BY <1>4, <1>6, <1>7, TakesNothing DEF Deals
<1>9. Utters(p)
  <2>1. CASE c.state = conn[p].state
    <3>1. Elements(w) \subseteq Elements(wire[p])
      <4>1. UNCHANGED wire \/ (wire[p] # <<>> /\ wire'[p] = Tail(wire[p]))
        BY <1>3, <1>5 DEF Hears, Heard, Shape, Typed
      <4> QED BY <1>1, <1>7, <4>1, HeadTail
    <3>2. conn[p].state = "hello" \/ r = run[p]
      BY DEF Drops, Waits4Hello, Joins, GivesUp
    <3>3. Hushed(conn[p], run[p]) => Hushed(c, r)
      <4>1. conn[p].state = "hello" => run[p] # <<"close">>
        <5>1. conn[p].state = "hello" => run[p] \in {<<>>, <<"handshake">>}
          BY <1>1 DEF Starting, Side
        <5>2. <<"handshake">> # <<"close">> /\ <<>> # <<"close">>
          OBVIOUS
        <5> QED BY <5>1, <5>2
      <4> QED BY <1>6, <2>1, <3>2, <4>1 DEF Hushed
    <3>4. Paused(c, r) => Paused(conn[p], run[p])
      BY <2>1, <3>2 DEF Paused
    <3> QED BY <1>2, <1>6, <1>7, <3>1, <3>3, <3>4, RestsUtters
  <2>2. CASE Joins /\ p = "supp"
    <3>1. /\ run[p] # <<>> /\ Ack \in Elements(wire[p]) /\ conn[p].state = "hello"
      BY <2>2, NextEvent DEF Joins, Acknowledged, Hears
    <3>2. run[p] = <<"handshake">> /\ ~conn[p].sendClosed
      BY <1>1, <2>2, <3>1 DEF Starting, Running
    <3>3. From(p, air') = From(p, air) /\ \A f \in From(p, air') : f \in air
      BY <1>2 DEF From
    <3>4. ~Hushed(conn[p], run[p])
      BY <3>1, <3>2 DEF Hushed
    <3>5. ~Flies(From(p, air')) => Answered(conn[p], run[p], wire[p], From(p, air))
      BY <3>1, <3>3 DEF Answered
    <3>6. Resting(p)
      BY <1>6, <1>7, <3>3, <3>4, <3>5 DEF Resting, Answered
    <3> QED BY <3>3, <3>6 DEF Utters
  <2> QED BY <1>6, <2>1, <2>2
<1>10. Shuts(p)
  BY <1>6, <1>7 DEF Shuts, Owned
<1> QED BY <1>7, <1>8, <1>9, <1>10 DEF Alone, Deed

LEMMA TaskAdded ==
  ASSUME NEW s \in Seq(Task), NEW t \in Task
  PROVE  Append(s, t) \in Seq(Task) /\ Elements(Append(s, t)) = Elements(s) \union {t}
<1>1. Append(s, t) \in Seq(Task) /\ Elements(Append(s, t)) = Elements(s) \union {t}
      /\ Append(s, t) = s \o <<t>>
  BY Added
<1> QED BY <1>1

LEMMA SocketDeed ==
  ASSUME Shape, Pace, NEW p \in Side, HearFrame(p) \/ HearGone(p) \/ SocketCloses(p)
  PROVE  Alone(p)
<1>1. /\ conn[p] \in Channel /\ wire[p] \in Seq(Event) /\ tasks[p] \in Seq(Task)
      /\ Starting(p, flow[p], conn[p], tasks[p], run[p], wire[p])
      /\ conn \in [Side -> Channel] /\ tasks \in [Side -> Seq(Task)]
      /\ wire \in [Side -> Seq(Event)]
  BY SideShape DEF Sound, Shape, Typed
<1>2. UNCHANGED <<run, air>>
  BY DEF HearFrame, HearGone, SocketCloses
<1> PICK c, ts, w : c = conn'[p] /\ ts = tasks'[p] /\ w = wire'[p]
  OBVIOUS
<1>3. Acts(p, c, ts, run[p], w)
  <2>1. CASE HearFrame(p)
    <3>1. wire' = [wire EXCEPT ![p] = w]
      BY <1>1, <2>1 DEF HearFrame, Heard
    <3>2. tasks' = [tasks EXCEPT ![p] = ts]
      <4>1. CASE Usable(conn[p])
        BY <1>1, <2>1, <4>1 DEF HearFrame
      <4>2. CASE ~Usable(conn[p])
        BY <2>1, <4>2, Unchanged DEF HearFrame
      <4> QED BY <4>1, <4>2
    <3> QED BY <1>2, <2>1, <3>1, <3>2, Unchanged DEF HearFrame, Acts
  <2>2. CASE HearGone(p)
    BY <1>1, <1>2, <2>2, Unchanged DEF HearGone, Heard, Acts
  <2>3. CASE SocketCloses(p)
    BY <1>1, <1>2, <2>3, Unchanged DEF SocketCloses, Acts
  <2> QED BY <2>1, <2>2, <2>3
<1>4. /\ run'[p] = run[p] /\ \A q \in Side : q # p => Same(q)
  <2>1. \A q \in Side : q # p => From(q, air') = From(q, air)
    BY <1>2 DEF From
  <2> QED BY <1>3, <2>1, ActsSame
<1>5. /\ c.sent = conn[p].sent /\ c.state = conn[p].state /\ c.selfClosed = conn[p].selfClosed
      /\ c.sendClosed = conn[p].sendClosed /\ c.peerClosed = conn[p].peerClosed
      /\ HearFrame(p) => c = conn[p]
      /\ HearGone(p) => c.socket = "shut" /\ tasks'[p] = tasks[p]
      /\ SocketCloses(p) => c.socket = "lost" /\ tasks'[p] = tasks[p]
  <2>1. HearFrame(p) => c = conn[p]
    BY DEF HearFrame
  <2>2. HearGone(p) => c = Shut(conn[p]) /\ tasks'[p] = tasks[p]
    BY <1>1 DEF HearGone
  <2>3. SocketCloses(p) => c = [conn[p] EXCEPT !.socket = "lost"] /\ tasks'[p] = tasks[p]
    BY <1>1 DEF SocketCloses
  <2> QED BY <1>1, <2>1, <2>2, <2>3 DEF Shut, Channel
<1>6. Deals(p)
  <2>1. CASE HearFrame(p)
    <3>1. /\ wire[p] # <<>> /\ Head(wire[p]) \in Arriving(p) /\ wire'[p] = Tail(wire[p])
      BY <1>1, <2>1, NextEvent DEF HearFrame, Heard
    <3>2. CASE Usable(conn[p])
      <4>1. Moving(p)
        BY <1>1, <2>1, <3>1, <3>2 DEF Moving, HearFrame
      <4> QED BY <1>5, <2>1, <4>1 DEF Deals
    <3>3. CASE ~Usable(conn[p])
      <4>1. tasks[p] = <<>> \/ conn[p].socket = "shut"
        BY <1>1, <3>3 DEF Usable, Starting, Channel, Side
      <4>2. Moving(p)
        BY <2>1, <3>1, <3>3, <4>1 DEF Moving, HearFrame
      <4> QED BY <1>5, <2>1, <4>2 DEF Deals
    <3> QED BY <3>2, <3>3
  <2>2. CASE HearGone(p)
    <3>1. Kept(wire[p], wire'[p])
      BY <2>2, EventKept DEF HearGone
    <3> QED BY <1>5, <2>2, <3>1, TakesNothing DEF Deals
  <2>3. CASE SocketCloses(p)
    <3>1. Noting(p, Gone)
      BY <1>1, <1>5, <2>3 DEF Noting, SocketCloses, Gone
    <3> QED BY <1>5, <2>3, <3>1 DEF Deals
  <2> QED BY <2>1, <2>2, <2>3
<1>7. Utters(p)
  <2>1. Ack \in Elements(wire'[p]) => Ack \in Elements(wire[p])
    <3>1. CASE HearFrame(p) \/ HearGone(p)
      <4>1. wire[p] # <<>> /\ wire'[p] = Tail(wire[p])
        BY <1>1, <3>1 DEF HearFrame, HearGone, Hears, Heard
      <4> QED BY <1>1, <4>1, HeadTail
    <3>2. CASE SocketCloses(p)
      <4>1. Gone \in Event /\ Gone # Ack
        BY DEF Gone, Ack, Event
      <4>2. w = Append(wire[p], Gone)
        BY <1>1, <3>2 DEF SocketCloses, Gone
      <4>3. Elements(w) = Elements(wire[p]) \union {Gone}
        BY <1>1, <4>1, <4>2, EventAdded
      <4> QED BY <4>1, <4>3
    <3> QED BY <3>1, <3>2
  <2>2. Hushed(conn[p], run[p]) => Hushed(conn'[p], run'[p])
    BY <1>4, <1>5 DEF Hushed
  <2>3. Paused(conn'[p], run'[p]) => Paused(conn[p], run[p])
    BY <1>4, <1>5 DEF Paused
  <2> QED BY <1>2, <1>4, <1>5, <2>1, <2>2, <2>3, RestsUtters
<1>8. Shuts(p)
  <2>1. CASE HearFrame(p)
    <3>1. conn'[p] = conn[p] /\ (Close \in Elements(tasks'[p]) => Close \in Elements(tasks[p]))
      <4>1. CASE tasks'[p] = tasks[p]
        BY <1>5, <2>1, <4>1
      <4>2. CASE Usable(conn[p])
        <5> PICK t : t = [do |-> "recv", what |-> Head(wire[p]).what, n |-> Head(wire[p]).n]
          OBVIOUS
        <5>1. Head(wire[p]) \in Event /\ Head(wire[p]).what \in What
          BY <1>1, <2>1, HeadTail DEF HearFrame
        <5>2. t \in Task /\ t # Close
          BY <5>1 DEF Task, Event, Close
        <5>3. ts = Append(tasks[p], t)
          BY <1>1, <2>1, <4>2 DEF HearFrame
        <5>4. Elements(ts) = Elements(tasks[p]) \union {t}
          BY <1>1, <5>2, <5>3, TaskAdded
        <5> QED BY <1>5, <2>1, <5>2, <5>4
      <4> QED BY <2>1, <4>1, <4>2 DEF HearFrame
    <3> QED BY <3>1 DEF Shuts, Owned
  <2>2. CASE HearGone(p)
    BY <1>5, <2>2 DEF Shuts, Owned, HearGone
  <2>3. CASE SocketCloses(p)
    BY <1>5, <2>3 DEF Shuts, Owned, SocketCloses
  <2> QED BY <2>1, <2>2, <2>3
<1> QED BY <1>4, <1>6, <1>7, <1>8 DEF Alone, Deed

LEMMA OpenDeed ==
  ASSUME Shape, Pace, NEW p \in Side,
         (p = "auth" /\ CreateChannel) \/ (p = "supp" /\ JoinChannel) \/ Vanish(p)
  PROVE  Alone(p)
<1>1. /\ conn[p] \in Channel
      /\ Starting(p, flow[p], conn[p], tasks[p], run[p], wire[p])
      /\ conn \in [Side -> Channel] /\ Elements(<<>>) = {}
  BY SideShape, NoElements DEF Sound, Shape, Typed
<1>2. CASE (p = "auth" /\ CreateChannel) \/ (p = "supp" /\ JoinChannel)
  <2>1. /\ conn[p].state = "none" /\ conn[p] = NoChannel /\ tasks[p] = <<>> /\ run[p] = <<>>
        /\ wire[p] = <<>>
    BY <1>1, <1>2 DEF CreateChannel, JoinChannel, Starting
  <2>2. PICK c, r : /\ Acts(p, c, <<>>, r, <<>>)
                    /\ c.socket = "open" /\ ~c.selfClosed /\ ~c.sendClosed /\ ~c.peerClosed
    <3>1. CASE p = "auth" /\ CreateChannel
      <4> PICK c : c = [NoChannel EXCEPT !.state = "handshake", !.socket = "open", !.heard = TRUE]
        OBVIOUS
      <4>1. Acts(p, c, <<>>, <<>>, <<>>)
        BY <2>1, <3>1, Unchanged DEF CreateChannel, Acts
      <4>2. c.socket = "open" /\ ~c.selfClosed /\ ~c.sendClosed /\ ~c.peerClosed
        BY DEF NoChannel
      <4> QED BY <4>1, <4>2
    <3>2. CASE p = "supp" /\ JoinChannel
      <4> PICK c : c = [NoChannel EXCEPT !.state = "hello", !.socket = "open", !.sent = 1]
        OBVIOUS
      <4>1. Acts(p, c, <<>>, <<"handshake">>, <<>>)
        BY <2>1, <3>2, Unchanged DEF JoinChannel, Acts
      <4>2. c.socket = "open" /\ ~c.selfClosed /\ ~c.sendClosed /\ ~c.peerClosed
        BY DEF NoChannel
      <4> QED BY <4>1, <4>2
    <3> QED BY <1>2, <3>1, <3>2
  <2>3. \A f \in air' : f \in air \/ (f.from = p /\ f.what = "handshake")
    BY <1>2 DEF CreateChannel, JoinChannel
  <2>4. /\ conn'[p] = c /\ tasks'[p] = <<>> /\ wire'[p] = <<>>
        /\ \A q \in Side : q # p => Same(q)
    <3>1. air \subseteq air'
      BY <1>2 DEF CreateChannel, JoinChannel
    <3>2. \A q \in Side : q # p => From(q, air') = From(q, air)
      BY <2>3, <3>1 DEF From
    <3> QED BY <2>2, <3>2, ActsSame
  <2>5. Utters(p)
    <3>1. ~Hushed(conn[p], run[p])
      <4>1. <<>> # <<"close">>
        OBVIOUS
      <4> QED BY <2>1, <4>1 DEF Hushed, NoChannel
    <3> QED BY <2>1, <2>3, <3>1 DEF Utters, From
  <2>6. Shuts(p)
    BY <1>1, <2>1, <2>2, <2>4 DEF Shuts, Owned, NoChannel
  <2> QED BY <2>4, <2>5, <2>6 DEF Alone, Deed, Deals
<1>3. CASE Vanish(p)
  <2> PICK c : c = [conn[p] EXCEPT !.state = "failed", !.socket = "shut"]
    OBVIOUS
  <2>1. /\ c.sent = conn[p].sent /\ c.state = "failed" /\ c.sendClosed = conn[p].sendClosed
        /\ c.selfClosed = conn[p].selfClosed /\ c.peerClosed = conn[p].peerClosed /\ c.socket = "shut"
    BY <1>1 DEF Channel
  <2>2. Acts(p, c, <<>>, <<>>, <<>>) /\ UNCHANGED air
    BY <1>3 DEF Vanish, Acts
  <2>3. /\ conn'[p] = c /\ tasks'[p] = <<>> /\ run'[p] = <<>> /\ wire'[p] = <<>>
        /\ \A q \in Side : q # p => Same(q)
    <3>1. \A q \in Side : q # p => From(q, air') = From(q, air)
      BY <2>2 DEF From
    <3> QED BY <2>2, <3>1, ActsSame
  <2>4. Hushed(conn'[p], run'[p]) /\ ~Paused(conn'[p], run'[p])
    BY <2>1, <2>3 DEF Hushed, Paused
  <2>5. Utters(p)
    BY <1>1, <2>1, <2>2, <2>3, <2>4, RestsUtters
  <2>6. Shuts(p)
    BY <1>1, <2>1, <2>3 DEF Shuts, Owned
  <2> QED BY <2>3, <2>5, <2>6 DEF Alone, Deed, Deals
<1> QED BY <1>2, <1>3

LEMMA PageDeed ==
  ASSUME Shape, Pace, NEW p \in Side, NEW step, NEW those \in SUBSET Outgoing(p),
         Pages(p, step, those)
  PROVE  Alone(p)
<1> PICK more \in Seq(Task), closes \in BOOLEAN :
            /\ Elements(more) \subseteq those
            /\ tasks' = [tasks EXCEPT ![p] = @ \o more]
            /\ conn' = [conn EXCEPT ![p].selfClosed = closes]
            /\ conn[p].selfClosed \/ Close \in Elements(more) => closes
            /\ UNCHANGED <<run, wire, air>>
  BY DEF Pages, Queues
<1> PICK c : c = [conn[p] EXCEPT !.selfClosed = closes]
  OBVIOUS
<1>1. /\ conn[p] \in Channel /\ conn \in [Side -> Channel] /\ tasks \in [Side -> Seq(Task)]
      /\ tasks[p] \in Seq(Task)
  BY SideShape DEF Shape, Typed
<1>2. /\ c.sent = conn[p].sent /\ c.state = conn[p].state /\ c.socket = conn[p].socket
      /\ c.sendClosed = conn[p].sendClosed /\ c.peerClosed = conn[p].peerClosed
      /\ c.selfClosed = closes
  BY <1>1 DEF Channel
<1>3. /\ conn'[p] = c /\ tasks'[p] = tasks[p] \o more /\ run'[p] = run[p] /\ wire'[p] = wire[p]
      /\ \A q \in Side : q # p => Same(q)
  <2>1. Acts(p, c, tasks[p] \o more, run[p], wire[p])
    BY <1>1, Unchanged DEF Acts
  <2>2. \A q \in Side : q # p => From(q, air') = From(q, air)
    BY DEF From
  <2> QED BY ONLY <2>1, <2>2, Shape, p \in Side, ActsSame
<1>4. Deals(p)
  <2>1. Taking(p, more)
    BY <1>3 DEF Taking, Kept
  <2> QED BY <1>2, <1>3, <2>1 DEF Deals
<1>5. Utters(p)
  <2>1. /\ Hushed(conn[p], run[p]) => Hushed(c, run[p])
        /\ Paused(c, run[p]) => Paused(conn[p], run[p])
    BY <1>2 DEF Hushed, Paused
  <2> QED BY <1>2, <1>3, <2>1, RestsUtters
<1>6. Shuts(p)
  <2>1. Elements(tasks[p] \o more) = Elements(tasks[p]) \union Elements(more)
    BY ONLY <1>1, more \in Seq(Task), Joint
  <2> QED BY <1>2, <1>3, <2>1 DEF Shuts, Owned
<1> QED BY <1>3, <1>4, <1>5, <1>6 DEF Alone, Deed

(* The relay's ack, and an invocation that dies.                           *)
LEMMA AckDeed ==
  ASSUME Shape, Pace, NEW f \in air, PostAck(f) \/ RelayDies(f)
  PROVE  Alone(f.from)
<1> PICK p \in Side : p = f.from
  BY DEF Shape, Typed, Frame
<1>1. /\ conn[p] \in Channel /\ wire[p] \in Seq(Event) /\ wire \in [Side -> Seq(Event)]
      /\ Paced(conn[p], run[p], wire[p], From(p, air), relayed) /\ f \in From(p, air)
  BY SideShape DEF Shape, Typed, Pace, From
<1>2. /\ UNCHANGED <<conn, tasks, run>> /\ air' = air \ {f}
  BY DEF PostAck, RelayDies
<1>3. From(p, air) = {f} /\ From(p, air') = {} /\ ~Paused(conn[p], run[p])
      /\ \A q \in Side : q # p => From(q, air') = From(q, air)
  BY <1>1, <1>2 DEF Paced, From
<1>4. \A q \in Side : q # p => wire'[q] = wire[q]
  BY <1>1 DEF PostAck, RelayDies, Post
<1>5. \A q \in Side : q # p => Same(q)
  BY <1>2, <1>3, <1>4 DEF Same
<1>6. Deals(p)
  <2>1. CASE wire'[p] = wire[p]
    BY <1>2, <2>1, TakesNothing DEF Deals, Kept
  <2>2. CASE wire'[p] # wire[p]
    <3>1. Noting(p, Ack)
      <4>1. conn[p].socket = "open" /\ wire'[p] = Append(wire[p], Ack)
        BY <1>1, <2>2 DEF PostAck, RelayDies, Post, Ack
      <4> QED BY <1>2, <4>1 DEF Noting, Ack, Gone
    <3> QED BY <1>2, <3>1 DEF Deals
  <2> QED BY <2>1, <2>2
<1>7. Utters(p)
  <2>1. Answered(conn[p], run[p], wire'[p], From(p, air')) =>
           Answered(conn[p], run[p], wire[p], From(p, air))
    <3>1. CASE PostAck(f)
      BY <1>3, <3>1 DEF Answered, Flies, PostAck
    <3>2. CASE RelayDies(f)
      BY <1>1, <1>3, <3>2 DEF Answered, Flies, RelayDies, Paced
    <3> QED BY <3>1, <3>2
  <2>2. Resting(p)
    BY <1>2, <1>3, <2>1 DEF Resting, Flies
  <2> QED BY <1>3, <2>2 DEF Utters
<1>8. Shuts(p)
  BY <1>2 DEF Shuts, Owned
<1> QED BY <1>5, <1>6, <1>7, <1>8 DEF Alone, Deed

(* The steps of one side; RelayFrame touches both.                         *)
Acting(p) ==
    \/ Works(p) \/ (p = "supp" /\ Waits4Hello)
    \/ HearFrame(p) \/ HearGone(p) \/ SocketCloses(p)
    \/ (p = "auth" /\ CreateChannel) \/ (p = "supp" /\ JoinChannel) \/ Vanish(p)
    \/ \E step : \E those \in SUBSET Outgoing(p) : Pages(p, step, those)

LEMMA NextActs ==
  ASSUME Shape, [Next]_vars
  PROVE  \/ \E p \in Side : Acting(p)
         \/ \E f \in air : RelayFrame(f) \/ PostAck(f) \/ RelayDies(f)
         \/ UNCHANGED vars
<1>1. "auth" \in Side /\ "supp" \in Side
  BY DEF Side
<1>2. PageStep => \E p \in Side : Acting(p)
  BY PageActs DEF Acting
<1> QED BY <1>1, <1>2, NextCases DEF Acting

LEMMA ActingAlone ==
  ASSUME Shape, Pace, NEW p \in Side, Acting(p)
  PROVE  Alone(p)
<1>1. CASE Works(p) \/ (p = "supp" /\ Waits4Hello)
  BY <1>1, EndsDeed, BeginsDeed, WaitsDeed DEF Works
<1>2. CASE HearFrame(p) \/ HearGone(p) \/ SocketCloses(p)
  BY <1>2, SocketDeed
<1>3. CASE (p = "auth" /\ CreateChannel) \/ (p = "supp" /\ JoinChannel) \/ Vanish(p)
  BY <1>3, OpenDeed
<1>4. CASE \E step : \E those \in SUBSET Outgoing(p) : Pages(p, step, those)
  BY <1>4, PageDeed
<1> QED BY <1>1, <1>2, <1>3, <1>4 DEF Acting

LEMMA NextDeeds ==
  ASSUME Shape, Pace, [Next]_vars
  PROVE  (\A p \in Side : Deed(p)) \/ \E f \in air : RelayFrame(f)
<1>1. ASSUME NEW p \in Side, Alone(p) PROVE \A q \in Side : Deed(q)
  BY <1>1, Bystander DEF Alone
<1>2. CASE \E p \in Side : Acting(p)
  BY <1>1, <1>2, ActingAlone
<1>3. CASE \E f \in air : PostAck(f) \/ RelayDies(f)
  <2> PICK f \in air : PostAck(f) \/ RelayDies(f)
    BY <1>3
  <2>1. f.from \in Side
    BY DEF Shape, Typed, Frame
  <2> QED BY <1>1, <2>1, AckDeed
<1>4. CASE UNCHANGED vars
  BY <1>4, Bystander DEF Same, vars
<1> QED BY <1>2, <1>3, <1>4, NextActs

(* Who is hushed stays so.                                                 *)
LEMMA HushStays ==
  ASSUME NEW p \in Side, Deed(p), Hushed(conn[p], run[p])
  PROVE  Hushed(conn'[p], run'[p]) /\ conn'[p].sent = conn[p].sent
BY DEF Deed, Utters, Resting, Uttering

LEMMA LastOnlyTail ==
  ASSUME NEW s \in Seq(Event), LastOnly(s), s # <<>>
  PROVE  LastOnly(Tail(s)) /\ (Head(s) = Gone => Tail(s) = <<>>)
<1> PICK t, m, n : t = Tail(s) /\ m = Len(t) /\ n = Len(s)
  OBVIOUS
<1>1. /\ t \in Seq(Event) /\ m = n - 1 /\ Head(s) = s[1]
      /\ \A i \in 1 .. m : t[i] = s[i + 1]
      /\ n \in Nat \ {0} /\ DOMAIN s = 1 .. n /\ DOMAIN t = 1 .. m
  BY HeadTailProperties, LenProperties, EmptySeq
<1>2. \A i \in 1 .. n : s[i] = Gone => i = n
  BY <1>1 DEF LastOnly
<1>3. ASSUME NEW i \in 1 .. m, t[i] = Gone PROVE i = m
  <2>1. i + 1 \in 1 .. n /\ s[i + 1] = Gone
    BY ONLY <1>1, <1>3, i \in 1 .. m
  <2>2. i + 1 = n
    BY ONLY <1>2, <2>1
  <2> QED BY ONLY <1>1, <2>2, i \in 1 .. m
<1>4. ASSUME Head(s) = Gone PROVE t = <<>>
  <2>1. 1 \in 1 .. n /\ s[1] = Gone
    BY ONLY <1>1, <1>4
  <2>2. 1 = n
    BY ONLY <1>2, <2>1
  <2>3. m = 0
    BY ONLY <1>1, <2>2
  <2> QED BY <1>1, <2>3, EmptySeq
<1> QED BY <1>1, <1>3, <1>4 DEF LastOnly

LEMMA LastOnlyAdded ==
  ASSUME NEW s \in Seq(Event), NEW e \in Event, Gone \notin Elements(s)
  PROVE  LastOnly(Append(s, e))
<1>1. /\ Len(s) \in Nat /\ DOMAIN s = 1 .. Len(s)
      /\ DOMAIN Append(s, e) = 1 .. Len(s) + 1 /\ Len(Append(s, e)) = Len(s) + 1
      /\ \A i \in 1 .. Len(s) : Append(s, e)[i] = s[i]
  BY AppendProperties, LenProperties
<1>2. ASSUME NEW i \in 1 .. Len(s) PROVE s[i] # Gone
  BY <1>1 DEF Elements
<1> QED BY <1>1, <1>2 DEF LastOnly

LEMMA KeptLess ==
  ASSUME NEW s \in Seq(Event), NEW v, Kept(s, v) \/ (s # <<>> /\ v = Tail(s))
  PROVE  v \in Seq(Event) /\ Elements(v) \subseteq Elements(s) /\ (LastOnly(s) => LastOnly(v))
BY HeadTail, LastOnlyTail DEF Kept

(* What a page has to deal with after a step.                              *)
LEMMA DealsHas ==
  ASSUME Shape, NEW p \in Side, Deals(p), LastOnly(wire[p]),
         Gone \in Elements(wire[p]) => conn[p].socket # "open"
  PROVE  /\ \A t \in Elements(tasks'[p]) :
               \/ t \in Elements(tasks[p]) \/ t \in Outgoing(p)
               \/ \E e \in Elements(wire[p]) :
                     e \in Arriving(p) /\ t = [do |-> "recv", what |-> e.what, n |-> e.n]
         /\ Elements(wire'[p]) \subseteq Elements(wire[p]) \union {Ack, Gone}
         /\ LastOnly(wire'[p])
         /\ Gone \in Elements(wire'[p]) => conn'[p].socket # "open"
<1>1. tasks[p] \in Seq(Task) /\ wire[p] \in Seq(Event) /\ Elements(<<>>) = {} /\ LastOnly(<<>>)
  BY SideShape, NoElements DEF LastOnly
<1>2. CASE tasks'[p] = <<>> /\ wire'[p] = <<>>
  BY <1>1, <1>2
<1>3. CASE (conn'[p].socket = "open" => conn[p].socket = "open")
           /\ \E more \in Seq(Task) : Taking(p, more)
  <2> PICK more \in Seq(Task) : Taking(p, more)
    BY <1>3
  <2>1. Elements(tasks'[p]) \subseteq Elements(tasks[p]) \union Elements(more)
    <3>1. CASE tasks'[p] = tasks[p] \o more
      <4>1. Elements(tasks[p] \o more) = Elements(tasks[p]) \union Elements(more)
        BY ONLY <1>1, more \in Seq(Task), Joint
      <4> QED BY <3>1, <4>1
    <3>2. CASE tasks[p] # <<>> /\ tasks'[p] = Tail(tasks[p]) \o more
      <4>1. Tail(tasks[p]) \in Seq(Task) /\ Elements(Tail(tasks[p])) \subseteq Elements(tasks[p])
        BY <1>1, <3>2, HeadTail
      <4> PICK rest \in Seq(Task) : rest = Tail(tasks[p])
        BY <4>1
      <4>2. Elements(rest \o more) = Elements(rest) \union Elements(more)
        BY ONLY rest \in Seq(Task), more \in Seq(Task), Joint
      <4> QED BY <3>2, <4>1, <4>2
    <3> QED BY <3>1, <3>2 DEF Taking
  <2>2. Elements(wire'[p]) \subseteq Elements(wire[p]) /\ LastOnly(wire'[p])
    BY <1>1, KeptLess DEF Taking
  <2> QED BY <1>3, <2>1, <2>2 DEF Taking
<1>4. CASE (conn'[p].socket = "open" => conn[p].socket = "open") /\ Moving(p)
  <2> PICK e : e = Head(wire[p])
    OBVIOUS
  <2> PICK t : t = [do |-> "recv", what |-> e.what, n |-> e.n]
    OBVIOUS
  <2>1. e \in Elements(wire[p]) /\ e \in Arriving(p) /\ wire[p] # <<>> /\ wire'[p] = Tail(wire[p])
    BY <1>1, <1>4, HeadTail DEF Moving
  <2>2. Elements(wire'[p]) \subseteq Elements(wire[p]) /\ LastOnly(wire'[p])
    BY <1>1, <2>1, KeptLess
  <2>3. t \in Task
    BY <1>1, <2>1 DEF Arriving, Task, What, Frames, Says, Message, Peer
  <2>4. Elements(Append(tasks[p], t)) = Elements(tasks[p]) \union {t}
    BY <1>1, <2>3, TaskAdded
  <2>5. Elements(tasks'[p]) \subseteq Elements(tasks[p]) \union {t}
    BY <1>4, <2>4 DEF Moving
  <2> QED BY <1>4, <2>1, <2>2, <2>5
<1>5. CASE (conn'[p].socket = "open" => conn[p].socket = "open") /\ \E e \in {Ack, Gone} : Noting(p, e)
  <2> PICK e \in {Ack, Gone} : Noting(p, e)
    BY <1>5
  <2>1. e \in Event
    BY DEF Ack, Gone, Event
  <2>2. Elements(Append(wire[p], e)) = Elements(wire[p]) \union {e}
    BY <1>1, <2>1, EventAdded
  <2>3. Gone \notin Elements(wire[p])
    BY DEF Noting
  <2>4. LastOnly(Append(wire[p], e))
    BY <1>1, <2>1, <2>3, LastOnlyAdded
  <2> QED BY <2>2, <2>3, <2>4 DEF Noting
<1> QED BY <1>2, <1>3, <1>4, <1>5 DEF Deals

(* What the relay does.                                                    *)
LEMMA RelayActs ==
  ASSUME Shape, Pace, NEW f \in air, RelayFrame(f)
  PROVE  \E s \in Side, e \in Event :
            /\ f.from = s /\ Peer(s) \in Side /\ Peer(s) # s /\ Peer(Peer(s)) = s
            /\ e \in Arriving(Peer(s)) /\ e.n = conn[s].sent /\ e.what = f.what /\ e \notin {Ack, Gone}
            /\ UNCHANGED <<conn, tasks, run>> /\ wire'[s] = wire[s]
            /\ wire'[Peer(s)] = IF conn[Peer(s)].socket = "open" THEN Append(wire[Peer(s)], e)
                                ELSE wire[Peer(s)]
            /\ Flies(From(s, air)) /\ ~Flies(From(s, air'))
            /\ From(Peer(s), air') = From(Peer(s), air)
            /\ \A g \in air' : \E h \in air : g.from = h.from /\ g.what = h.what
<1>1. /\ f \in Frame /\ f.what \in Frames(f.from) /\ wire \in [Side -> Seq(Event)]
      /\ \A p \in Side : Paced(conn[p], run[p], wire[p], From(p, air), relayed)
  BY DEF Shape, Typed, Pace
<1> PICK s \in Side : f.from = s
  BY <1>1 DEF Frame
<1> PICK r : r = Peer(s)
  OBVIOUS
<1>2. r \in Side /\ r # s /\ Peer(r) = s
  BY DEF Side, Peer
<1> PICK e : e = [what |-> f.what, n |-> f.n]
  OBVIOUS
<1>3. /\ e \in Arriving(r) /\ e \in Event /\ e \notin {Ack, Gone} /\ e.what = f.what /\ e.n = f.n
      /\ f.n # 0
  <2>1. e.what = f.what /\ e.n = f.n /\ f.n \in Nat \ {0} /\ f.what \in What
    BY <1>1 DEF Frame
  <2>2. Ack.n = 0 /\ Gone.n = 0
    BY DEF Ack, Gone
  <2> QED BY <1>1, <1>2, <2>1, <2>2 DEF Arriving, Event
<1> PICK g : g = [f EXCEPT !.there = TRUE]
  OBVIOUS
<1>4. g.from = s /\ g.there /\ g.what = f.what
  BY <1>1 DEF Frame
<1>5. From(s, air) = {f} /\ f.n = conn[s].sent /\ ~f.there
  BY <1>1 DEF Paced, From, RelayFrame
<1>6. /\ UNCHANGED <<conn, tasks, run>> /\ air' = (air \ {f}) \union {g}
      /\ wire' = IF conn[r].socket = "open" THEN [wire EXCEPT ![r] = Append(@, e)] ELSE wire
  BY DEF RelayFrame, Post
<1>7. wire'[s] = wire[s] /\ wire'[r] = IF conn[r].socket = "open" THEN Append(wire[r], e) ELSE wire[r]
  BY <1>1, <1>2, <1>6
<1>8. From(s, air') = {g} /\ From(r, air') = From(r, air)
  BY <1>2, <1>4, <1>5, <1>6 DEF From
<1>9. Flies(From(s, air)) /\ ~Flies(From(s, air'))
  BY <1>4, <1>5, <1>8 DEF Flies
<1>10. \A h \in air' : \E k \in air : h.from = k.from /\ h.what = k.what
  BY <1>4, <1>6
<1> QED BY <1>2, <1>3, <1>5, <1>6, <1>7, <1>8, <1>9, <1>10

LEMMA NextGoodbye == Shape /\ Pace /\ Goodbye /\ [Next]_vars => Goodbye'
<1> SUFFICES ASSUME Shape, Pace, Goodbye, [Next]_vars PROVE Goodbye'
  OBVIOUS
<1>1. /\ \A p \in Side : Peer(p) \in Side /\ Peer(Peer(p)) = p
      /\ \A f \in air : f.from \in Side
      /\ \A p \in Side : tasks[p] \in Seq(Task) /\ wire[p] \in Seq(Event)
      /\ Ack.what = "ack" /\ Gone.what = "gone"
  BY SideShape DEF Side, Peer, Shape, Typed, Frame, Ack, Gone
<1>2. CASE \A p \in Side : Deed(p)
  <2>1. \A p \in Side : \A t : Farewell(p, t) =>
           (t.what = "close" => t.n = conn'[Peer(p)].sent /\ Hushed(conn'[Peer(p)], run'[Peer(p)]))
    BY <1>1, <1>2, HushStays DEF Farewell
  <2>2. ASSUME NEW p \in Side
        PROVE  /\ \A t \in Elements(tasks'[p]) : t.do = "recv" /\ t.what = "close" =>
                     t.n = conn'[Peer(p)].sent /\ Hushed(conn'[Peer(p)], run'[Peer(p)])
               /\ \A e \in Elements(wire'[p]) : e.what = "close" =>
                     e.n = conn'[Peer(p)].sent /\ Hushed(conn'[Peer(p)], run'[Peer(p)])
               /\ LastOnly(wire'[p])
               /\ Gone \in Elements(wire'[p]) => conn'[p].socket # "open"
               /\ conn'[p].sendClosed \/ Close \in Elements(tasks'[p]) => conn'[p].selfClosed
    <3>1. /\ \A t \in Elements(tasks'[p]) :
               \/ t \in Elements(tasks[p]) \/ t \in Outgoing(p)
               \/ \E e \in Elements(wire[p]) :
                     e \in Arriving(p) /\ t = [do |-> "recv", what |-> e.what, n |-> e.n]
          /\ Elements(wire'[p]) \subseteq Elements(wire[p]) \union {Ack, Gone}
          /\ LastOnly(wire'[p])
          /\ Gone \in Elements(wire'[p]) => conn'[p].socket # "open"
      BY <1>2, DealsHas DEF Deed, Goodbye
    <3>2. \A t \in Outgoing(p) : t.do # "recv"
      BY DEF Outgoing, Send, Close
    <3>3. \A t \in Elements(tasks'[p]) : t.do = "recv" => Farewell(p, t)
      <4> TAKE t \in Elements(tasks'[p])
      <4>1. CASE t \in Elements(tasks[p]) \/ t \in Outgoing(p)
        BY <3>2, <4>1 DEF Goodbye
      <4>2. CASE \E e \in Elements(wire[p]) :
                     e \in Arriving(p) /\ t = [do |-> "recv", what |-> e.what, n |-> e.n]
        <5> PICK e \in Elements(wire[p]) : t = [do |-> "recv", what |-> e.what, n |-> e.n]
          BY <4>2
        <5>1. Farewell(p, e) /\ t.what = e.what /\ t.n = e.n
          BY DEF Goodbye
        <5> QED BY <5>1 DEF Farewell
      <4> QED BY <3>1, <4>1, <4>2
    <3>4. \A e \in Elements(wire'[p]) : Farewell(p, e)
      BY <1>1, <3>1 DEF Goodbye, Farewell
    <3>5. Owned(conn'[p], tasks'[p])
      BY <1>2 DEF Deed, Shuts, Owned, Goodbye
    <3> QED BY <2>1, <3>1, <3>3, <3>4, <3>5 DEF Owned
  <2>3. ASSUME NEW f \in air', f.what = "close" PROVE Hushed(conn'[f.from], run'[f.from])
    <3>1. f.from \in Side
      <4>1. Shape'
        BY NextShape
      <4> QED BY <4>1 DEF Shape, Typed, Frame
    <3> PICK s \in Side : s = f.from
      BY <3>1
    <3>2. f \in From(s, air')
      BY DEF From
    <3>3. Utters(s) /\ Deed(s)
      BY <1>2 DEF Deed
    <3>4. CASE f \in air
      <4>1. Hushed(conn[s], run[s])
        BY <2>3, <3>4 DEF Goodbye
      <4> QED BY <3>3, <4>1, HushStays
    <3>5. CASE run'[s] = <<"close">>
      BY <3>5 DEF Hushed
    <3> QED BY <2>3, <3>2, <3>3, <3>4, <3>5 DEF Utters
  <2> QED BY <2>2, <2>3 DEF Goodbye, Farewell
<1>3. CASE \E f \in air : RelayFrame(f)
  <2> PICK f \in air : RelayFrame(f)
    BY <1>3
  <2> PICK s \in Side, e \in Event :
            /\ f.from = s /\ Peer(s) \in Side /\ Peer(s) # s /\ Peer(Peer(s)) = s
            /\ e \in Arriving(Peer(s)) /\ e.n = conn[s].sent /\ e.what = f.what /\ e \notin {Ack, Gone}
            /\ UNCHANGED <<conn, tasks, run>> /\ wire'[s] = wire[s]
            /\ wire'[Peer(s)] = IF conn[Peer(s)].socket = "open" THEN Append(wire[Peer(s)], e)
                                ELSE wire[Peer(s)]
            /\ \A g \in air' : \E h \in air : g.from = h.from /\ g.what = h.what
    BY RelayActs
  <2> PICK r \in Side : r = Peer(s)
    OBVIOUS
  <2>1. \A p \in Side : p = s \/ p = r
    BY DEF Side, Peer
  <2>2. \A p \in Side : \A t : (Farewell(p, t))' <=> Farewell(p, t)
    BY DEF Farewell
  <2>3. Farewell(r, e)
    BY DEF Farewell, Goodbye
  <2>4. /\ \A v \in Elements(wire'[r]) : Farewell(r, v)
        /\ LastOnly(wire'[r]) /\ (Gone \in Elements(wire'[r]) => conn[r].socket # "open")
    <3>1. CASE conn[r].socket = "open"
      <4>1. wire'[r] = Append(wire[r], e) /\ Gone \notin Elements(wire[r])
        BY <3>1 DEF Goodbye
      <4>2. Elements(wire'[r]) = Elements(wire[r]) \union {e} /\ LastOnly(wire'[r])
        BY <1>1, <4>1, EventAdded, LastOnlyAdded
      <4> QED BY <2>3, <4>1, <4>2 DEF Goodbye
    <3>2. CASE conn[r].socket # "open"
      BY <3>2 DEF Goodbye
    <3> QED BY <3>1, <3>2
  <2>5. ASSUME NEW p \in Side
        PROVE  /\ \A v \in Elements(wire'[p]) : Farewell(p, v)
               /\ LastOnly(wire'[p]) /\ (Gone \in Elements(wire'[p]) => conn[p].socket # "open")
    BY <2>1, <2>4 DEF Goodbye
  <2>6. \A g \in air' : g.what = "close" => Hushed(conn[g.from], run[g.from])
    BY DEF Goodbye
  <2> QED BY <2>2, <2>5, <2>6 DEF Goodbye
<1> QED BY <1>2, <1>3, NextDeeds

-----------------------------------------------------------------------------
(***************************************************************************)
(* The handshake: nobody says anything of its own before it is over.       *)
(***************************************************************************)
LEMMA Elsewhere ==
  ASSUME Shape, Pace, NEW p \in Side, Acting(p), NEW q \in Side, q # p
  PROVE  Same(q) /\ flow'[q] = flow[q] /\ page'[q] = page[q]
<1>1. Same(q)
  BY ActingAlone DEF Alone
<1>2. /\ flow \in [Side -> {"connect", "probe", "request", "code", "send", "idle"}]
      /\ page \in [Side -> Page]
  BY DEF Shape, Typed
<1>3. ASSUME NEW step, Show(p, step) PROVE page'[q] = page[q]
  BY <1>2, <1>3 DEF Show
<1>4. ASSUME Ends(p), UNCHANGED <<relayed, declined>> PROVE flow'[q] = flow[q] /\ page'[q] = page[q]
  <2> PICK c, more, next, step : Ending(p, c, more, next, step)
    BY <1>4, EndsAs
  <2> QED BY <1>2, <1>3 DEF Ending, Over
<1>5. ASSUME NEW frames, Begins(p, frames) PROVE flow'[q] = flow[q] /\ page'[q] = page[q]
  BY <1>5 DEF Begins, Begin
<1> SUFFICES flow'[q] = flow[q] /\ page'[q] = page[q]
  BY <1>1
<1>6. CASE Works(p)
  BY <1>4, <1>5, <1>6 DEF Works, Drops
<1>7. CASE p = "supp" /\ Waits4Hello
  BY <1>2, <1>3, <1>7 DEF Waits4Hello, Joins, Joined, GivesUp
<1>8. CASE HearFrame(p) \/ HearGone(p) \/ SocketCloses(p)
  BY <1>2, <1>3, <1>8 DEF HearFrame, HearGone, SocketCloses
<1>9. CASE (p = "auth" /\ CreateChannel) \/ (p = "supp" /\ JoinChannel)
  BY <1>2, <1>3, <1>9 DEF CreateChannel, JoinChannel
<1>10. CASE Vanish(p)
  BY <1>2, <1>10 DEF Vanish
<1>11. CASE \E step : \E those \in SUBSET Outgoing(p) : Pages(p, step, those)
  BY <1>2, <1>11 DEF Pages
<1> QED BY <1>6, <1>7, <1>8, <1>9, <1>10, <1>11 DEF Acting

LEMMA EndsGot ==
  ASSUME Shape, NEW p \in Side, Ends(p)
  PROVE  conn'[p].got = IF Receives(p) THEN conn[p].got + 1 ELSE conn[p].got
<1>1. conn[p] \in Channel /\ conn \in [Side -> Channel]
  BY DEF Shape, Typed
<1>2. CASE Receives(p)
  <2> PICK c : c = [conn[p] EXCEPT !.got = First(p).n]
    OBVIOUS
  <2>1. c.got = conn[p].got + 1
    BY <1>1, <1>2 DEF Receives, Channel
  <2>2. \A d : d = [c EXCEPT !.state = "connected"] => d.got = c.got
    BY <1>1 DEF Channel
  <2>3. \A b : \A d : d = [c EXCEPT !.selfClosed = b] => d.got = c.got
    BY <1>1 DEF Channel
  <2>4. PICK d, more, next : Over(p, d, more, next) /\ d.got = c.got
    BY <1>2, <2>2, <2>3 DEF Receives, EndReceived
  <2> QED BY <1>1, <1>2, <2>1, <2>4 DEF Over
<1>3. CASE ~Receives(p)
  <2>2. CASE Closes(p)
    <3> PICK c : c = [conn[p] EXCEPT !.peerClosed = TRUE]
      OBVIOUS
    <3>1. c.got = conn[p].got /\ Shut(c).got = conn[p].got
      BY <1>1 DEF Shut, Channel
    <3> QED BY <1>1, <1>3, <2>2, <3>1 DEF Closes, EndClosed, Over
  <2>3. CASE FailsAt(p)
    <3> PICK c : c = [conn[p] EXCEPT !.state = "failed"]
      OBVIOUS
    <3>1. c.got = conn[p].got
      BY <1>1 DEF Channel
    <3> QED BY <1>1, <1>3, <2>3, <3>1 DEF FailsAt, EndFailed, Over
  <2>4. CASE Refuses(p)
    <3> PICK c : c = [conn[p] EXCEPT !.state = "failed"]
      OBVIOUS
    <3>1. c.got = conn[p].got
      BY <1>1 DEF Channel
    <3> QED BY <1>1, <1>3, <2>4, <3>1 DEF Refuses, EndRefused, Over
  <2>5. CASE Sends(p)
    <3> PICK c : c = [conn[p] EXCEPT !.heard = TRUE]
      OBVIOUS
    <3>1. c.got = conn[p].got
      BY <1>1 DEF Channel
    <3> QED BY <1>1, <1>3, <2>5, <3>1 DEF Sends, EndSent, Over
  <2>6. CASE Finishes(p)
    <3> PICK c : c = [conn[p] EXCEPT !.sendClosed = TRUE]
      OBVIOUS
    <3>1. c.got = conn[p].got /\ Shut(c).got = conn[p].got
      BY <1>1 DEF Shut, Channel
    <3> QED BY <1>1, <1>3, <2>6, <3>1 DEF Finishes, EndClosing, Over
  <2> QED BY <1>3, <2>2, <2>3, <2>4, <2>5, <2>6 DEF Ends
<1> QED BY <1>2, <1>3

(* The authority, while it has not answered the ClientHello.               *)
LEMMA AuthTurn ==
  ASSUME Shape, Pace, HandAuth, Acting("auth")
  PROVE  HandAuth' /\ (Virginal' => Virginal /\ (MuteAuth => MuteAuth'))
<1> PICK a \in Side : a = "auth"
  BY DEF Side
<1>1. /\ conn[a] \in Channel /\ conn \in [Side -> Channel] /\ run \in [Side -> Seq(What)]
      /\ flow \in [Side -> {"connect", "probe", "request", "code", "send", "idle"}]
      /\ page \in [Side -> Page] /\ page[a] \in Page
      /\ tasks[a] \in Seq(Task) /\ tasks \in [Side -> Seq(Task)]
      /\ Starting(a, flow[a], conn[a], tasks[a], run[a], wire[a])
      /\ Running(conn[a], tasks[a], run[a])
  BY SideShape DEF Shape, Typed, Sound
<1>2. ASSUME conn[a].got = 0
      PROVE  /\ page[a] \notin {"confirming", "authorizing", "complete"}
             /\ flow[a] \notin {"code", "send"}
             /\ \A t \in Elements(tasks[a]) : t.do # "send"
  BY <1>2 DEF HandAuth
<1> DEFINE Silent == /\ page'[a] \notin {"confirming", "authorizing", "complete"}
                     /\ flow'[a] \notin {"code", "send"}
                     /\ \A t \in Elements(tasks'[a]) : t.do # "send"
           Closing(c, r, frames) == /\ \A f \in frames : f.what = "close"
                                    /\ c.sent <= 1
                                    /\ c.sent = 1 => r = <<"close">> \/ c.sendClosed
           Unmet == Virgin(conn'[a], run'[a]) =>
                       /\ Virgin(conn[a], run[a])
                       /\ Closing(conn[a], run[a], From(a, air)) =>
                             Closing(conn'[a], run'[a], From(a, air'))
<1>3. SUFFICES (conn'[a].got = 0 => Silent) /\ Unmet
  BY DEF HandAuth, Virginal, MuteAuth
(* When nothing that matters changes.                                      *)
<1>4. ASSUME conn'[a].got = conn[a].got, conn'[a].sent = conn[a].sent,
             conn'[a].sendClosed = conn[a].sendClosed,
             conn'[a].state \in {conn[a].state, "failed"},
             run'[a] = run[a] \/ conn'[a].state = "failed", UNCHANGED air
      PROVE  Unmet
  BY <1>4 DEF Virgin, From
<1>5. CASE Ends(a) /\ UNCHANGED <<relayed, declined>>
  <2> PICK c \in Channel, more \in Seq(Task), next \in Page, step \in {flow[a], "idle"},
         w \in Seq(Event) :
            /\ Ending(a, c, more, next, step) /\ tasks[a] # <<>> /\ UNCHANGED air
            /\ Acts(a, c, Tail(tasks[a]) \o more, <<>>, w)
    BY <1>5, EndsActs
  <2> PICK ts : ts = Tail(tasks[a]) \o more
    OBVIOUS
  <2>8. Acts(a, c, ts, <<>>, w)
    OBVIOUS
  <2>1. conn'[a] = c /\ tasks'[a] = ts /\ run'[a] = <<>>
    BY ONLY Shape, a \in Side, <2>8, ActsOne
  <2>2. Becomes(a, c) /\ Answering(a, c, more) /\ Shows(a, next) /\ flow'[a] = step /\ Show(a, next)
    BY <1>1 DEF Ending, Over
  <2>3. c.got = IF Receives(a) THEN conn[a].got + 1 ELSE conn[a].got
    BY <1>5, <2>1, EndsGot
  <2>4. ASSUME c.got = 0 PROVE conn[a].got = 0 /\ ~Receives(a) /\ ~Sends(a)
    <3>1. conn[a].got \in Nat
      BY <1>1 DEF Channel
    <3>2. conn[a].got = 0 /\ ~Receives(a)
      BY <2>3, <2>4, <3>1
    <3>3. First(a) \in Elements(tasks[a])
      BY <1>1, HeadTail DEF First
    <3> QED BY <1>2, <3>2, <3>3 DEF Sends
  <2>5. ASSUME c.got = 0 PROVE Silent
    <3>1. more = <<>> /\ next \in {page[a], "error"}
      BY <2>2, <2>4, <2>5 DEF Answering, Shows
    <3>2. tasks'[a] = Tail(tasks[a]) /\ Elements(Tail(tasks[a])) \subseteq Elements(tasks[a])
      <4>1. Tail(tasks[a]) \in Seq(Task) /\ Elements(Tail(tasks[a])) \subseteq Elements(tasks[a])
        BY <1>1, HeadTail
      <4> QED BY <2>1, <3>1, <4>1, ConcatEmptySeq
    <3>3. page'[a] \in {page[a], "error"}
      BY <2>2, <3>1, ShowTyped
    <3> QED BY <1>2, <2>2, <2>4, <2>5, <3>2, <3>3
  <2>6. ASSUME Virgin(c, <<>>) PROVE Virgin(conn[a], run[a])
    BY <2>2, <2>4, <2>6 DEF Virgin, Becomes
  <2>7. ASSUME Virgin(c, <<>>), Closing(conn[a], run[a], From(a, air))
        PROVE  Closing(c, <<>>, From(a, air'))
    <3>1. c.sent = conn[a].sent /\ (conn[a].sendClosed => c.sendClosed)
          /\ (run[a] = <<"close">> => c.sendClosed)
      BY <2>2, <2>7 DEF Becomes, Virgin
    <3> QED BY <2>7, <3>1 DEF From
  <2> QED BY <2>1, <2>5, <2>6, <2>7
<1>6. ASSUME NEW frames, Begins(a, frames) PROVE (conn'[a].got = 0 => Silent) /\ Unmet
  <2> PICK c \in Channel, w \in Seq(Event), f \in Frame :
            /\ c = [conn[a] EXCEPT !.sent = @ + 1] /\ c.sent = conn[a].sent + 1
            /\ Acts(a, c, tasks[a], frames, w)
            /\ f = [from |-> a, n |-> c.sent, what |-> Head(frames), there |-> FALSE]
            /\ air' = IF conn[a].socket = "open" THEN air \union {f} ELSE air
            /\ From(a, air) = {} /\ Ack \notin Elements(w)
            /\ UNCHANGED <<page, flow, tasks>>
    BY <1>6, BeginsActs
  <2>1. conn'[a] = c /\ run'[a] = frames
    BY ActsOne
  <2>2. c.got = conn[a].got /\ c.state = conn[a].state /\ c.sendClosed = conn[a].sendClosed
    BY <1>1 DEF Channel
  <2>3. c.got = 0 => Silent
    BY <1>2, <2>2
  <2>4. ASSUME Virgin(c, frames) PROVE run[a] = <<>> /\ frames = <<"close">> /\ ~conn[a].sendClosed
    <3> PICK t : t = Head(tasks[a])
      OBVIOUS
    <3>1. frames # <<>> /\ frames = <<"close">>
      BY <1>6, <2>4, BeginsTyped DEF Virgin
    <3>2. ~conn[a].sendClosed /\ tasks[a] # <<>> /\ Alive(a)
      BY <1>6 DEF Begins
    <3>3. \/ Taken(a) \/ (Len(run[a]) > 1 /\ frames = Tail(run[a]))
      BY <1>6 DEF Begins
    <3>4. ASSUME Len(run[a]) > 1, frames = Tail(run[a]) PROVE FALSE
      <4>1. run[a] # <<>> /\ run[a] # <<t.what>> /\ run[a] # <<"alert">>
        <5>1. \A v : run[a] # <<v>>
          BY <3>4, LongerThanOne
        <5>2. Len(<<>>) = 0
          OBVIOUS
        <5>3. run[a] # <<>>
          BY <3>4, <5>2
        <5> QED BY <5>1, <5>3
      <4>2. Elements(run[a]) \subseteq {"handshake"}
        BY <1>1, <3>2, <4>1 DEF Running, Alive
      <4>3. Elements(frames) \subseteq {"handshake"}
        BY <1>1, <3>4, <4>1, <4>2, HeadTail
      <4>4. Elements(<<"close">>) = {"close"}
        BY OneElement
      <4> QED BY <3>1, <4>3, <4>4
    <3> QED BY <3>1, <3>2, <3>3, <3>4 DEF Taken
  <2>5. ASSUME Virgin(c, frames) PROVE Virgin(conn[a], run[a])
    BY <2>2, <2>4, <2>5 DEF Virgin
  <2>6. ASSUME Virgin(c, frames), Closing(conn[a], run[a], From(a, air))
        PROVE  Closing(c, frames, From(a, air'))
    <3>1. <<>> # <<"close">>
      OBVIOUS
    <3>2. conn[a].sent = 0
      <4>1. conn[a].sent \in Nat
        BY <1>1 DEF Channel
      <4> QED BY <2>4, <2>6, <3>1, <4>1
    <3>3. Head(frames) = "close"
      BY <2>4, <2>6
    <3>4. f.what = "close" /\ From(a, air') \subseteq {f}
      BY <3>3 DEF From
    <3>5. c.sent = 1
      BY <3>2
    <3>6. frames = <<"close">> /\ 1 <= 1
      BY <2>4, <2>6
    <3> QED BY ONLY <3>4, <3>5, <3>6
  <2> QED BY <2>1, <2>3, <2>5, <2>6
<1>7. ASSUME Drops(a) PROVE (conn'[a].got = 0 => Silent) /\ Unmet
  <2>1. /\ conn' = conn /\ tasks' = tasks /\ run' = run /\ page' = page /\ flow' = flow
        /\ UNCHANGED air
    BY <1>7 DEF Drops
  <2>2. Unmet
    BY <1>4, <2>1
  <2> QED BY <1>2, <2>1, <2>2
<1>8. CASE Works(a)
  BY <1>5, <1>6, <1>7, <1>8 DEF Works
<1>9. CASE HearFrame(a)
  <2>1. /\ conn' = conn /\ run' = run /\ page' = page /\ flow' = flow /\ UNCHANGED air
    BY <1>9 DEF HearFrame
  <2>2. \A t \in Elements(tasks'[a]) : t \in Elements(tasks[a]) \/ t.do = "recv"
    <3>1. wire[a] \in Seq(Event) /\ wire[a] # <<>> /\ Head(wire[a]).what \in What
      BY <1>9, SideShape DEF HearFrame
    <3>2. Head(wire[a]) \in Event
      BY <3>1, HeadTail
    <3> PICK t : t = [do |-> "recv", what |-> Head(wire[a]).what, n |-> Head(wire[a]).n]
      OBVIOUS
    <3>3. t \in Task /\ t.do = "recv"
      BY <3>1, <3>2 DEF Task, Event
    <3>4. Elements(Append(tasks[a], t)) = Elements(tasks[a]) \union {t}
      BY <1>1, <3>3, TaskAdded
    <3>5. tasks'[a] \in {tasks[a], Append(tasks[a], t)}
      BY <1>1, <1>9 DEF HearFrame
    <3> QED BY <3>3, <3>4, <3>5
  <2>3. Unmet
    BY <1>4, <2>1
  <2> QED BY <1>2, <2>1, <2>2, <2>3
<1>10. CASE HearGone(a) \/ SocketCloses(a)
  <2>1. /\ tasks' = tasks /\ run' = run /\ flow' = flow /\ UNCHANGED air
    BY <1>10 DEF HearGone, SocketCloses
  <2> PICK c : c = conn'[a]
    OBVIOUS
  <2>2. /\ c.got = conn[a].got /\ c.sent = conn[a].sent /\ c.sendClosed = conn[a].sendClosed
        /\ c.state = conn[a].state
    <3>1. c \in {Shut(conn[a]), [conn[a] EXCEPT !.socket = "lost"]}
      BY <1>1, <1>10 DEF HearGone, SocketCloses
    <3> QED BY <1>1, <3>1 DEF Shut, Channel
  <2>3. page'[a] \in {page[a], "error", "left"}
    <3>1. CASE HearGone(a)
      BY <1>1, <3>1 DEF HearGone, Show, OnError
    <3>2. CASE SocketCloses(a)
      BY <3>2 DEF SocketCloses
    <3> QED BY <1>10, <3>1, <3>2
  <2>4. Unmet
    BY <1>4, <2>1, <2>2
  <2> QED BY <1>2, <2>1, <2>2, <2>3, <2>4
<1>11. CASE a = "auth" /\ CreateChannel
  <2>1. conn[a].state = "none"
    BY <1>1, <1>11 DEF CreateChannel, Starting
  <2>2. conn[a] = NoChannel /\ tasks[a] = <<>> /\ run[a] = <<>>
    BY <1>1, <2>1 DEF Starting
  <2> PICK c : c = [NoChannel EXCEPT !.state = "handshake", !.socket = "open", !.heard = TRUE]
    OBVIOUS
  <2>3. conn'[a] = c /\ tasks' = tasks /\ run' = run /\ UNCHANGED air /\ flow'[a] = "idle"
    BY <1>1, <1>11 DEF CreateChannel
  <2>4. page'[a] \in {page[a], "showing-qr"} /\ page'[a] \in {"left", "showing-qr"}
    BY <1>1, <1>11 DEF CreateChannel, Show
  <2>5. c.sent = 0 /\ conn[a].got = 0 /\ conn[a].state = "none"
    BY <2>2 DEF NoChannel
  <2>6. Silent
    BY <2>2, <2>3, <2>4, NoElements
  <2>7. Virgin(conn[a], run[a])
    BY <2>2, <2>5 DEF Virgin
  <2>8. Closing(conn[a], run[a], From(a, air)) => Closing(c, run'[a], From(a, air'))
    BY <2>3, <2>5 DEF From
  <2> QED BY <2>3, <2>6, <2>7, <2>8
<1>12. CASE Vanish(a)
  <2> PICK c : c = [conn[a] EXCEPT !.state = "failed", !.socket = "shut"]
    OBVIOUS
  <2>1. c.state = "failed"
    BY <1>1 DEF Channel
  <2>2. conn'[a] = c /\ tasks'[a] = <<>> /\ flow'[a] = "idle" /\ page'[a] = "left"
    BY <1>1, <1>12 DEF Vanish
  <2>3. Silent
    BY <2>2, NoElements
  <2> QED BY <2>1, <2>2, <2>3 DEF Virgin
<1>13. CASE \E step : \E those \in SUBSET Outgoing(a) : Pages(a, step, those)
  <2> PICK step : \E those \in SUBSET Outgoing(a) : Pages(a, step, those)
    BY <1>13
  <2> PICK those \in SUBSET Outgoing(a) : Pages(a, step, those)
    OBVIOUS
  <2> PICK more \in Seq(Task), closes \in BOOLEAN :
            /\ Elements(more) \subseteq those
            /\ tasks' = [tasks EXCEPT ![a] = @ \o more]
            /\ conn' = [conn EXCEPT ![a].selfClosed = closes]
            /\ UNCHANGED <<run, wire, air>>
    BY DEF Pages, Queues
  <2> PICK c : c = [conn[a] EXCEPT !.selfClosed = closes]
    OBVIOUS
  <2>1. /\ c.got = conn[a].got /\ c.sent = conn[a].sent /\ c.sendClosed = conn[a].sendClosed
        /\ c.state = conn[a].state
    BY <1>1 DEF Channel
  <2>2. conn'[a] = c /\ tasks'[a] = tasks[a] \o more /\ flow'[a] = step
    BY <1>1 DEF Pages
  <2>3. Elements(tasks[a] \o more) = Elements(tasks[a]) \union Elements(more)
    BY ONLY <1>1, more \in Seq(Task), Joint
  <2>4. ASSUME c.got = 0 PROVE Silent
    <3>1. /\ page'[a] \in {page[a], "error", "left"}
          /\ those \subseteq {Close} /\ step \in {flow[a], "idle"}
      BY <1>2, <2>1, <2>4 DEF Pages, Minds
    <3>2. Close.do # "send"
      BY DEF Close
    <3> QED BY <1>2, <2>1, <2>2, <2>3, <2>4, <3>1, <3>2
  <2>5. Unmet
    BY <1>4, <2>1, <2>2
  <2> QED BY <2>2, <2>4, <2>5
<1> QED BY <1>8, <1>9, <1>10, <1>11, <1>12, <1>13 DEF Acting

(* The supplicant, before its handshake is over, and meanwhile.            *)
LEMMA SuppTurn ==
  ASSUME Shape, Pace, HandSupp, Acting("supp")
  PROVE  HandSupp' /\ (MuteSupp => MuteSupp')
<1> PICK s \in Side : s = "supp"
  BY DEF Side
<1> DEFINE Early(c, ts, step) ==
              /\ c.state \in {"hello", "handshake"} /\ c.socket # "shut" =>
                    ~c.sendClosed /\ ~c.heard /\ \A t \in Elements(ts) : t.do = "recv"
              /\ c.state = "handshake" /\ c.socket # "shut" => step \notin {"send", "idle"}
              /\ c.state = "connected" => c.got >= 3
           Dumb(c, ts, w) ==
              /\ c.sent <= 1 /\ c.got = 0 /\ ~c.sendClosed
              /\ c.state = "failed" \/ Elements(ts) \subseteq {Bye}
              /\ \A e \in Elements(w) : e.n > 0 => e.what = "close" /\ e.n = 1
<1>1. /\ conn[s] \in Channel /\ conn \in [Side -> Channel] /\ run \in [Side -> Seq(What)]
      /\ flow \in [Side -> {"connect", "probe", "request", "code", "send", "idle"}]
      /\ tasks[s] \in Seq(Task) /\ tasks \in [Side -> Seq(Task)]
      /\ wire[s] \in Seq(Event) /\ wire \in [Side -> Seq(Event)]
      /\ Starting(s, flow[s], conn[s], tasks[s], run[s], wire[s])
      /\ Running(conn[s], tasks[s], run[s]) /\ Elements(<<>>) = {}
      /\ conn[s].got \in Nat /\ conn[s].sent \in Nat
  BY SideShape, NoElements DEF Shape, Typed, Sound, Channel
<1>2. Early(conn[s], tasks[s], flow[s])
  BY DEF HandSupp
<1> DEFINE Keeps == /\ Early(conn'[s], tasks'[s], flow'[s])
                    /\ Dumb(conn[s], tasks[s], wire[s]) => Dumb(conn'[s], tasks'[s], wire'[s])
<1>3. SUFFICES Keeps
  BY DEF HandSupp, MuteSupp
<1>4. \A v : Kept(wire[s], v) => Elements(v) \subseteq Elements(wire[s])
  BY <1>1, KeptLess
<1>5. Elements(tasks[s]) \subseteq {Bye} /\ tasks[s] # <<>> =>
         /\ First(s) = Bye /\ First(s).do = "recv" /\ First(s).what = "close" /\ First(s).n = 1
  <2> SUFFICES ASSUME Elements(tasks[s]) \subseteq {Bye}, tasks[s] # <<>>
               PROVE  First(s) = Bye /\ Bye.do = "recv" /\ Bye.what = "close" /\ Bye.n = 1
    OBVIOUS
  <2>1. Head(tasks[s]) \in Elements(tasks[s])
    BY <1>1, HeadTail
  <2> QED BY <2>1 DEF First, Bye
<1>6. CASE Ends(s) /\ UNCHANGED <<relayed, declined>>
  <2> PICK c \in Channel, more \in Seq(Task), next \in Page, step \in {flow[s], "idle"},
         w \in Seq(Event) :
            /\ Ending(s, c, more, next, step) /\ tasks[s] # <<>> /\ UNCHANGED air
            /\ Acts(s, c, Tail(tasks[s]) \o more, <<>>, w)
            /\ Elements(w) \subseteq Elements(wire[s])
    BY ONLY Shape, s \in Side, <1>6, EndsActs
  <2> PICK ts : ts = Tail(tasks[s]) \o more
    OBVIOUS
  <2>1. Acts(s, c, ts, <<>>, w)
    OBVIOUS
  <2>2. conn'[s] = c /\ tasks'[s] = ts /\ run'[s] = <<>> /\ wire'[s] = w
    BY ONLY Shape, s \in Side, <2>1, ActsOne
  <2>3. Becomes(s, c) /\ Answering(s, c, more) /\ flow'[s] = step
    BY <1>1 DEF Ending
  <2>4. c.got = IF Receives(s) THEN conn[s].got + 1 ELSE conn[s].got
    BY <1>6, <2>2, EndsGot
  <2>5. First(s) \in Elements(tasks[s]) /\ conn[s].state \in {"handshake", "connected", "failed"}
    BY <1>1, HeadTail, FirstTyped DEF First
  <2>6. ASSUME more = <<>> PROVE Elements(ts) \subseteq Elements(tasks[s])
    <3>1. Tail(tasks[s]) \in Seq(Task) /\ Elements(Tail(tasks[s])) \subseteq Elements(tasks[s])
      BY <1>1, HeadTail
    <3> QED BY <2>6, <3>1, ConcatEmptySeq
  <2>7. ASSUME c.state \in {"hello", "handshake"}, c.socket # "shut"
        PROVE  /\ ~c.sendClosed /\ ~c.heard /\ (\A t \in Elements(ts) : t.do = "recv")
               /\ step \notin {"send", "idle"}
    <3>1. conn[s].state = "handshake" /\ conn[s].socket # "shut"
      BY <2>3, <2>5, <2>7 DEF Becomes
    <3>2. First(s).do = "recv" /\ ~conn[s].sendClosed /\ ~conn[s].heard
      BY <1>2, <2>5, <3>1
    <3>3. ~Sends(s) /\ ~Finishes(s) /\ ~Refuses(s)
      BY <3>2 DEF Sends, Finishes, Refuses, Sending
    <3>4. UNCHANGED flow
      BY <1>6, <3>3 DEF Ends, Receives, Closes, FailsAt
    <3>5. ~c.sendClosed /\ ~c.heard /\ more = <<>>
      BY <2>3, <3>2, <3>3 DEF Becomes, Answering
    <3> QED BY <1>2, <2>3, <2>6, <3>1, <3>4, <3>5
  <2>8. c.state = "connected" => c.got >= 3
    BY <1>1, <1>2, <2>3, <2>4 DEF Becomes
  <2>9. ASSUME Dumb(conn[s], tasks[s], wire[s]) PROVE Dumb(c, ts, w)
    <3>1. ~Receives(s) /\ ~Sends(s) /\ ~Finishes(s)
      <4>1. CASE conn[s].state = "failed"
        BY <4>1 DEF Receives, Sends, Finishes, Alive, Live
      <4>2. CASE Elements(tasks[s]) \subseteq {Bye}
        BY <1>5, <4>2 DEF Receives, Sends, Finishes, Message
      <4> QED BY <2>9, <4>1, <4>2
    <3>2. more = <<>>
      BY <2>3, <3>1 DEF Answering
    <3>3. c.sent = conn[s].sent /\ c.got = conn[s].got /\ ~c.sendClosed
          /\ (conn[s].state = "failed" => c.state = "failed")
      BY <2>3, <2>4, <2>9, <3>1 DEF Becomes
    <3> QED BY <2>6, <2>9, <3>2, <3>3
  <2> QED BY <2>2, <2>3, <2>7, <2>8, <2>9
<1>7. ASSUME NEW frames, Begins(s, frames) PROVE Keeps
  <2> PICK c \in Channel, w \in Seq(Event) :
            /\ c = [conn[s] EXCEPT !.sent = @ + 1]
            /\ Acts(s, c, tasks[s], frames, w)
            /\ UNCHANGED <<page, flow, tasks>>
    BY <1>7, BeginsActs
  <2>1. conn'[s] = c
    BY ActsOne
  <2>2. /\ c.got = conn[s].got /\ c.state = conn[s].state /\ c.sendClosed = conn[s].sendClosed
        /\ c.heard = conn[s].heard /\ c.socket = conn[s].socket
    BY <1>1 DEF Channel
  <2>3. Early(c, tasks'[s], flow'[s])
    BY <1>2, <2>2
  <2>4. ASSUME Dumb(conn[s], tasks[s], wire[s]) PROVE FALSE
    <3>1. tasks[s] # <<>> /\ Alive(s)
      BY <1>7 DEF Begins
    <3>2. First(s) = Bye /\ First(s).do = "recv" /\ First(s).what = "close" /\ First(s).n = 1
      BY <1>5, <2>4, <3>1 DEF Alive, Live
    <3>3. CASE Taken(s) /\ Opening(s, frames)
      <4>1. ~Understood(s) /\ ~conn[s].peerClosed /\ run[s] = <<>>
        BY <3>2, <3>3 DEF Opening, Sending, Taken
      <4>2. First(s).n = conn[s].got + 1
        BY <2>4, <3>2
      <4> QED BY <3>1, <3>2, <4>1, <4>2 DEF Understood, Ready, Alive, Live
    <3>4. CASE Len(run[s]) > 1
      <4>1. run[s] # <<>> /\ run[s] # <<"alert">>
        <5>1. Len(<<>>) = 0
          OBVIOUS
        <5>2. run[s] # <<>>
          BY <3>4, <5>1
        <5>3. \A v : run[s] # <<v>>
          BY <3>4, LongerThanOne
        <5> QED BY <5>2, <5>3
      <4>2. Head(tasks[s]).what = "handshake"
        BY <1>1, <3>1, <3>2, <4>1 DEF Running, Alive, First
      <4> QED BY <3>2, <4>2 DEF First
    <3> QED BY <1>7, <3>3, <3>4 DEF Begins
  <2> QED BY <2>1, <2>3, <2>4
<1>8. ASSUME Drops(s) \/ Waits4Hello PROVE Keeps
  <2>1. UNCHANGED tasks /\ (UNCHANGED wire \/ (Hears(s, "ack") /\ Heard(s)))
    BY <1>8 DEF Drops, Waits4Hello, Joins, Joined, GivesUp, Acknowledged, InVain
  <2>2. Elements(wire'[s]) \subseteq Elements(wire[s])
    <3>1. Kept(wire[s], wire'[s])
      BY <2>1, EventKept
    <3> QED BY <1>4, <3>1
  <2>3. CASE Drops(s)
    BY <1>2, <2>1, <2>2, <2>3 DEF Drops
  <2>4. CASE GivesUp
    BY <1>1, <1>2, <2>1, <2>2, <2>4 DEF GivesUp
  <2>5. CASE Joins
    <3> PICK c : c = [conn[s] EXCEPT !.state = "handshake"]
      OBVIOUS
    <3>1. /\ c.got = conn[s].got /\ c.sendClosed = conn[s].sendClosed /\ c.state = "handshake"
          /\ c.heard = conn[s].heard /\ c.socket = conn[s].socket /\ c.sent = conn[s].sent
      BY <1>1 DEF Channel
    <3>2. conn'[s] = c /\ flow'[s] = "probe" /\ conn[s].state = "hello"
      BY <1>1, <2>5 DEF Joins, Joined
    <3> QED BY <1>2, <2>1, <2>2, <3>1, <3>2
  <2> QED BY <1>8, <2>3, <2>4, <2>5 DEF Waits4Hello
<1>9. CASE HearFrame(s)
  <2>1. /\ conn' = conn /\ flow' = flow
        /\ wire[s] # <<>> /\ Head(wire[s]).what \in What /\ wire'[s] = Tail(wire[s])
    BY <1>1, <1>9 DEF HearFrame, Heard
  <2> PICK e : e = Head(wire[s])
    OBVIOUS
  <2>2. e \in Elements(wire[s]) /\ e \in Event /\ Elements(wire'[s]) \subseteq Elements(wire[s])
        /\ e \in Arriving(s)
    BY <1>1, <2>1, HeadTail, NextEvent
  <2> PICK t : t = [do |-> "recv", what |-> e.what, n |-> e.n]
    OBVIOUS
  <2>3. t \in Task /\ t.do = "recv"
    BY <2>1, <2>2 DEF Task, Event
  <2>4. Elements(Append(tasks[s], t)) = Elements(tasks[s]) \union {t}
    BY <1>1, <2>3, TaskAdded
  <2>5. tasks'[s] \in {tasks[s], Append(tasks[s], t)}
    BY <1>1, <1>9 DEF HearFrame
  <2>6. Dumb(conn[s], tasks[s], wire[s]) => t = Bye
    <3>1. e.n > 0
      BY <2>2 DEF Arriving
    <3> QED BY <2>2, <3>1 DEF Bye
  <2> QED BY <1>2, <2>1, <2>2, <2>3, <2>4, <2>5, <2>6
<1>10. CASE HearGone(s) \/ SocketCloses(s)
  <2>1. UNCHANGED <<tasks, flow>>
    BY <1>10 DEF HearGone, SocketCloses
  <2> PICK c : c = conn'[s]
    OBVIOUS
  <2>2. /\ c.got = conn[s].got /\ c.sendClosed = conn[s].sendClosed /\ c.state = conn[s].state
        /\ c.heard = conn[s].heard /\ c.sent = conn[s].sent
        /\ c.socket = "shut" \/ conn[s].socket = "open"
    <3>1. c = Shut(conn[s]) \/ (c = [conn[s] EXCEPT !.socket = "lost"] /\ conn[s].socket = "open")
      BY <1>1, <1>10 DEF HearGone, SocketCloses
    <3> QED BY <1>1, <3>1 DEF Shut, Channel
  <2>3. \A e \in Elements(wire'[s]) : e \in Elements(wire[s]) \/ e.n = 0
    <3>1. CASE HearGone(s)
      BY <1>4, <3>1, EventKept DEF HearGone
    <3>2. CASE SocketCloses(s)
      <4>1. Gone \in Event /\ Gone.n = 0
        BY DEF Gone, Event
      <4>2. wire'[s] = Append(wire[s], Gone)
        BY <1>1, <3>2 DEF SocketCloses, Gone
      <4>3. Elements(Append(wire[s], Gone)) = Elements(wire[s]) \union {Gone}
        BY <1>1, <4>1, EventAdded
      <4> QED BY <4>1, <4>2, <4>3
    <3> QED BY <1>10, <3>1, <3>2
  <2> QED BY <1>2, <2>1, <2>2, <2>3
<1>11. CASE JoinChannel
  <2>1. conn[s].state = "none" /\ tasks[s] = <<>> /\ wire[s] = <<>>
    BY <1>1, <1>11 DEF JoinChannel, Starting
  <2> PICK c : c = [NoChannel EXCEPT !.state = "hello", !.socket = "open", !.sent = 1]
    OBVIOUS
  <2>2. c.state = "hello" /\ c.sent = 1 /\ c.got = 0 /\ ~c.sendClosed /\ ~c.heard
    BY DEF NoChannel
  <2>3. conn'[s] = c /\ UNCHANGED <<tasks, wire>>
    BY <1>1, <1>11 DEF JoinChannel
  <2> QED BY <1>1, <2>1, <2>2, <2>3
<1>12. CASE Vanish(s)
  <2> PICK c : c = [conn[s] EXCEPT !.state = "failed", !.socket = "shut"]
    OBVIOUS
  <2>1. c.state = "failed" /\ c.sent = conn[s].sent /\ c.got = conn[s].got
        /\ c.sendClosed = conn[s].sendClosed
    BY <1>1 DEF Channel
  <2>2. conn'[s] = c /\ wire'[s] = <<>>
    BY <1>1, <1>12 DEF Vanish
  <2> QED BY <1>1, <2>1, <2>2
<1>13. CASE \E step : \E those \in SUBSET Outgoing(s) : Pages(s, step, those)
  <2> PICK step : \E those \in SUBSET Outgoing(s) : Pages(s, step, those)
    BY <1>13
  <2> PICK those \in SUBSET Outgoing(s) : Pages(s, step, those)
    OBVIOUS
  <2> PICK more \in Seq(Task), closes \in BOOLEAN :
            /\ Elements(more) \subseteq those
            /\ tasks' = [tasks EXCEPT ![s] = @ \o more]
            /\ conn' = [conn EXCEPT ![s].selfClosed = closes]
            /\ more # <<>> => conn[s].state \notin {"none", "hello"}
            /\ UNCHANGED <<run, wire, air>>
    BY DEF Pages, Queues
  <2> PICK c : c = [conn[s] EXCEPT !.selfClosed = closes]
    OBVIOUS
  <2>1. /\ c.got = conn[s].got /\ c.sent = conn[s].sent /\ c.sendClosed = conn[s].sendClosed
        /\ c.state = conn[s].state /\ c.heard = conn[s].heard /\ c.socket = conn[s].socket
    BY <1>1 DEF Channel
  <2>2. conn'[s] = c /\ tasks'[s] = tasks[s] \o more /\ flow'[s] = step
    BY <1>1 DEF Pages
  <2>3. Elements(tasks[s] \o more) = Elements(tasks[s]) \union Elements(more)
    BY ONLY <1>1, more \in Seq(Task), Joint
  <2>4. /\ those = {} \/ conn[s].state = "connected" \/ (flow[s] = "idle" /\ Usable(conn[s]))
        /\ \/ step \in {flow[s], "request"} \/ ~Usable(conn[s])
           \/ conn[s].state \in {"connected", "failed"}
    BY DEF Pages, Minds
  <2>5. CASE conn[s].state \in {"hello", "handshake"} /\ conn[s].socket # "shut"
    <3>1. those = {} \/ conn[s].state = "hello"
      BY <1>2, <2>4, <2>5 DEF Usable
    <3>2. Elements(more) = {}
      <4>1. more # <<>> => conn[s].state # "hello"
        OBVIOUS
      <4> QED BY <1>1, <3>1, <4>1
    <3>3. conn[s].state = "handshake" => step \in {flow[s], "request"}
      BY <2>4, <2>5 DEF Usable
    <3> QED BY <1>2, <2>1, <2>2, <2>3, <2>5, <3>2, <3>3
  <2>6. CASE ~(conn[s].state \in {"hello", "handshake"} /\ conn[s].socket # "shut")
    <3>1. Early(c, tasks'[s], step)
      BY <1>2, <2>1, <2>6
    <3>2. ASSUME Dumb(conn[s], tasks[s], wire[s]) PROVE Dumb(c, tasks'[s], wire'[s])
      <4>1. conn[s].state # "connected"
        BY <1>1, <1>2, <3>2
      <4>2. CASE conn[s].state = "failed"
        BY <2>1, <3>2, <4>2
      <4>3. CASE conn[s].state # "failed"
        <5>1. ~Usable(conn[s])
          BY <2>6, <4>1, <4>3 DEF Usable
        <5>2. Elements(more) = {}
          BY <2>4, <4>1, <5>1
        <5> QED BY <2>1, <2>2, <2>3, <3>2, <5>2
      <4> QED BY <4>2, <4>3
    <3> QED BY <2>2, <3>1, <3>2
  <2> QED BY <2>5, <2>6
<1> QED BY <1>6, <1>7, <1>8, <1>9, <1>10, <1>11, <1>12, <1>13 DEF Acting, Works

LEMMA NextHand == Shape /\ Pace /\ Hand /\ [Next]_vars => Hand'
<1> SUFFICES ASSUME Shape, Pace, Hand, [Next]_vars PROVE Hand'
  OBVIOUS
<1> PICK a \in Side, s \in Side : a = "auth" /\ s = "supp" /\ a # s
  BY DEF Side
<1>1. \A p \in Side : p = a \/ p = s
  BY DEF Side
<1>2. CASE \E p \in Side : Acting(p)
  <2>1. CASE Acting(a)
    <3>1. Same(s) /\ flow'[s] = flow[s]
      BY <2>1, Elsewhere
    <3>2. HandAuth' /\ (Virginal' => Virginal /\ (MuteAuth => MuteAuth'))
      BY <2>1, AuthTurn DEF Hand
    <3>3. (HandSupp => HandSupp') /\ (MuteSupp => MuteSupp')
      BY <3>1 DEF Same, HandSupp, MuteSupp
    <3> QED BY <3>2, <3>3 DEF Hand
  <2>2. CASE Acting(s)
    <3>1. Same(a) /\ flow'[a] = flow[a] /\ page'[a] = page[a]
      BY <2>2, Elsewhere
    <3>2. HandSupp' /\ (MuteSupp => MuteSupp')
      BY <2>2, SuppTurn DEF Hand
    <3>3. (HandAuth => HandAuth') /\ (Virginal' => Virginal) /\ (MuteAuth => MuteAuth')
      BY <3>1 DEF Same, HandAuth, Virginal, MuteAuth
    <3> QED BY <3>2, <3>3 DEF Hand
  <2> QED BY <1>1, <1>2, <2>1, <2>2
<1>3. ASSUME UNCHANGED <<page, flow, conn, tasks, run>>,
             \A f \in From(a, air') : \E g \in From(a, air) : f.what = g.what,
             Virginal /\ MuteAuth =>
                 \A e \in Elements(wire'[s]) :
                    e \in Elements(wire[s]) \/ e.n = 0 \/ (e.what = "close" /\ e.n = 1)
      PROVE  Hand'
  <2>1. HandAuth' /\ HandSupp' /\ (Virginal' => Virginal)
    BY <1>3 DEF Hand, HandAuth, HandSupp, Virginal
  <2>2. Virginal => MuteAuth'
    BY <1>3 DEF Hand, MuteAuth
  <2>3. Virginal => MuteSupp'
    BY <1>3 DEF Hand, MuteSupp
  <2> QED BY <2>1, <2>2, <2>3 DEF Hand
<1>4. CASE \E f \in air : RelayFrame(f)
  <2> PICK f \in air : RelayFrame(f)
    BY <1>4
  <2> PICK p \in Side, e \in Event :
            /\ f.from = p /\ Peer(p) \in Side /\ Peer(p) # p
            /\ e \in Arriving(Peer(p)) /\ e.n = conn[p].sent /\ e.what = f.what
            /\ UNCHANGED <<conn, tasks, run>> /\ wire'[p] = wire[p]
            /\ wire'[Peer(p)] = IF conn[Peer(p)].socket = "open" THEN Append(wire[Peer(p)], e)
                                ELSE wire[Peer(p)]
            /\ \A g \in air' : \E h \in air : g.from = h.from /\ g.what = h.what
    BY RelayActs
  <2>1. \A g \in From(a, air') : \E h \in From(a, air) : g.what = h.what
    BY DEF From
  <2>2. ASSUME MuteAuth, NEW v \in Elements(wire'[s])
        PROVE  v \in Elements(wire[s]) \/ (v.what = "close" /\ v.n = 1)
    <3>1. CASE p = a /\ conn[s].socket = "open"
      <4>1. Peer(p) = s /\ wire[s] \in Seq(Event)
        BY <3>1, SideShape DEF Peer
      <4>2. Elements(Append(wire[s], e)) = Elements(wire[s]) \union {e}
        BY <4>1, EventAdded
      <4>3. f \in From(a, air)
        BY <3>1 DEF From
      <4>4. e.what = "close" /\ e.n \in Nat \ {0} /\ e.n <= 1
        BY <2>2, <3>1, <4>3 DEF MuteAuth, Arriving
      <4> QED BY <2>2, <3>1, <4>1, <4>2, <4>4
    <3>2. CASE ~(p = a /\ conn[s].socket = "open")
      <4>1. wire'[s] = wire[s]
        BY <1>1, <3>2 DEF Peer
      <4> QED BY <2>2, <4>1
    <3> QED BY <3>1, <3>2
  <2>3. UNCHANGED <<page, flow>>
    BY DEF RelayFrame
  <2> QED BY <1>3, <2>1, <2>2, <2>3
<1>5. CASE \E f \in air : PostAck(f) \/ RelayDies(f)
  <2> PICK f \in air : PostAck(f) \/ RelayDies(f)
    BY <1>5
  <2>1. UNCHANGED <<page, flow, conn, tasks, run>> /\ From(a, air') \subseteq From(a, air)
    BY DEF PostAck, RelayDies, From
  <2>2. wire[s] \in Seq(Event) /\ Ack \in Event /\ Ack.n = 0 /\ wire \in [Side -> Seq(Event)]
    BY SideShape DEF Ack, Event, Shape, Typed
  <2>3. wire'[s] \in {wire[s], Append(wire[s], Ack)}
    BY <2>2 DEF PostAck, RelayDies, Post, Ack
  <2>4. Elements(Append(wire[s], Ack)) = Elements(wire[s]) \union {Ack}
    BY <2>2, EventAdded
  <2> QED BY <1>3, <2>1, <2>2, <2>3, <2>4
<1>6. CASE UNCHANGED vars
  BY <1>3, <1>6 DEF vars
<1> QED BY <1>2, <1>4, <1>5, <1>6, NextActs

LEMMA InitHand == Init => Goodbye /\ Hand
<1> SUFFICES ASSUME Init PROVE Goodbye /\ Hand
  OBVIOUS
<1>1. /\ \A p \in Side : /\ conn[p] = NoChannel /\ tasks[p] = <<>> /\ run[p] = <<>>
                         /\ wire[p] = <<>>
      /\ air = {} /\ Elements(<<>>) = {} /\ LastOnly(<<>>)
      /\ page["auth"] = "creating-channel" /\ flow["auth"] = "connect"
      /\ "auth" \in Side /\ "supp" \in Side
  BY NoElements DEF Init, Side, LastOnly
<1>2. /\ NoChannel.sent = 0 /\ NoChannel.got = 0 /\ ~NoChannel.sendClosed /\ NoChannel.state = "none"
  BY DEF NoChannel
<1>3. Goodbye
  BY <1>1, <1>2 DEF Goodbye
<1>4. HandAuth /\ HandSupp /\ MuteAuth /\ MuteSupp
  BY <1>1, <1>2 DEF HandAuth, HandSupp, MuteAuth, MuteSupp, From
<1> QED BY <1>3, <1>4 DEF Hand

-----------------------------------------------------------------------------
(***************************************************************************)
(* Frames in order: every step keeps the rows, and drops no number.        *)
(***************************************************************************)
LEMMA Replies == \A p \in Side : \A ts \in Seq(Task) :
                    Elements(ts) \subseteq Outgoing(p) => Numbers(ts) = {}
<1>1. \A p \in Side : \A t \in Outgoing(p) : t.n = 0
  BY DEF Outgoing, Send, Close
<1> QED BY <1>1 DEF Numbers

(* The side that receives.                                                 *)
LEMMA RowDeals ==
  ASSUME Shape, NEW p \in Side, Deals(p), NEW sent \in Nat, NEW f, NEW a,
         Row(tasks[p], wire[p], conn[p].socket = "open", sent, f, a),
         conn[p].socket = "shut" => Numbers(wire[p]) = {}
  PROVE  /\ Row(tasks'[p], wire'[p], conn'[p].socket = "open", sent, f, a)
         /\ Numbers(wire'[p]) \subseteq Numbers(wire[p])
<1> PICK ts \in Seq(Task), w \in Seq(Event) : ts = tasks[p] /\ w = wire[p]
  BY SideShape
<1> PICK us, v : us = tasks'[p] /\ v = wire'[p]
  OBVIOUS
<1> PICK o, o2 : o = (conn[p].socket = "open") /\ o2 = (conn'[p].socket = "open")
  OBVIOUS
<1>1. Row(ts, w, o, sent, f, a) /\ Numbered(Event)
  BY NumberedLists
<1>2. CASE tasks'[p] = <<>> /\ wire'[p] = <<>>
  <2>1. Row(<<>>, <<>>, o2, sent, f, a)
    BY RowEmpty
  <2> QED BY <1>2, <2>1, NoNumbers
<1>3. CASE (o2 => o) /\ \E more \in Seq(Task) : Taking(p, more)
  <2> PICK more \in Seq(Task) : Taking(p, more)
    BY <1>3
  <2>1. Numbers(more) = {} /\ Kept(w, v) /\ (o2 => o)
    BY <1>3, Replies DEF Taking
  <2>2. Numbers(v) = Numbers(w)
    BY <1>1, <2>1, KeptNumbers
  <2>3. CASE us = ts \o more
    <3>1. Row(ts \o more, v, o2, sent, f, a)
      BY ONLY <1>1, <2>1, ts \in Seq(Task), w \in Seq(Event), sent \in Nat, more \in Seq(Task), RowKept
    <3> QED BY <2>2, <2>3, <3>1
  <2>4. CASE ts # <<>> /\ us = Tail(ts) \o more
    <3>1. Row(Tail(ts) \o more, v, o2, sent, f, a)
      BY ONLY <1>1, <2>1, <2>4, ts \in Seq(Task), w \in Seq(Event), sent \in Nat, more \in Seq(Task),
              RowDealt
    <3> QED BY <2>2, <2>4, <3>1
  <2> QED BY <2>3, <2>4 DEF Taking
<1>4. CASE (o2 => o) /\ Moving(p)
  <2> PICK e : e = Head(w)
    OBVIOUS
  <2> PICK t : t = [do |-> "recv", what |-> e.what, n |-> e.n]
    OBVIOUS
  <2>1. w # <<>> /\ e \in Arriving(p) /\ v = Tail(w)
    BY <1>4 DEF Moving
  <2>2. t \in Task /\ t.n = e.n /\ e.n > 0 /\ e.n \in Nat
    <3>1. e.what \in Frames(Peer(p)) /\ e.n \in Nat \ {0}
      BY <2>1 DEF Arriving
    <3>2. Frames(Peer(p)) \subseteq What
      BY DEF Frames, Says, What, Message
    <3> QED BY <3>1, <3>2 DEF Task
  <2>3. Numbers(w) = Numbers(v) \union {e.n}
    <3>1. Numbers(w) = Numbers(Tail(w)) \union ({Head(w).n} \ {0})
      BY ONLY <1>1, <2>1, w \in Seq(Event), RisingTail
    <3> QED BY <2>1, <2>2, <3>1
  <2>4. Row(Append(ts, t), Tail(w), o2, sent, f, a) /\ (ts = <<>> => Row(ts, Tail(w), o2, sent, f, a))
    <3>1. Head(w).n > 0 /\ t.n = Head(w).n
      BY <2>2
    <3> QED BY ONLY <1>1, <1>4, <2>1, <2>2, <3>1, ts \in Seq(Task), w \in Seq(Event), sent \in Nat, RowMoved
  <2>5. us = Append(ts, t) \/ (us = ts /\ (ts = <<>> \/ conn[p].socket = "shut"))
    BY <1>4 DEF Moving
  <2>6. conn[p].socket # "shut"
    BY <2>3
  <2> QED BY <2>1, <2>3, <2>4, <2>5, <2>6
<1>5. CASE (o2 => o) /\ \E e \in {Ack, Gone} : Noting(p, e)
  <2> PICK e \in {Ack, Gone} : Noting(p, e)
    BY <1>5
  <2>1. e \in Event /\ e.n = 0
    BY DEF Ack, Gone, Event
  <2>2. us = ts /\ v = Append(w, e)
    BY DEF Noting
  <2>3. Row(ts, Append(w, e), o2, sent, f, a)
    BY ONLY <1>1, <1>5, <2>1, ts \in Seq(Task), w \in Seq(Event), sent \in Nat, RowPosted
  <2>4. Numbers(Append(w, e)) = Numbers(w) \union ({e.n} \ {0})
    BY ONLY <1>1, <2>1, w \in Seq(Event), RisingAdded
  <2> QED BY <2>1, <2>2, <2>3, <2>4
<1> QED BY <1>2, <1>3, <1>4, <1>5 DEF Deals

(* The side that sends.                                                    *)
LEMMA RowUtters ==
  ASSUME Shape, NEW s \in Side, Utters(s), NEW ts \in Seq(Task), NEW w \in Seq(Event), NEW o,
         Row(ts, w, o, conn[s].sent, Flies(From(s, air)),
             Answered(conn[s], run[s], wire[s], From(s, air)))
  PROVE  Row(ts, w, o, conn'[s].sent, Flies(From(s, air')),
             Answered(conn'[s], run'[s], wire'[s], From(s, air')))
<1> PICK sent, f, a : /\ sent = conn[s].sent /\ f = Flies(From(s, air))
                      /\ a = Answered(conn[s], run[s], wire[s], From(s, air))
  OBVIOUS
<1> PICK f2, a2 : /\ f2 = Flies(From(s, air'))
                  /\ a2 = Answered(conn'[s], run'[s], wire'[s], From(s, air'))
  OBVIOUS
<1>1. sent \in Nat /\ Row(ts, w, o, sent, f, a) /\ conn[s] \in Channel
  BY SideShape DEF Channel
<1>2. SUFFICES Row(ts, w, o, conn'[s].sent, f2, a2)
  OBVIOUS
<1>3. CASE Resting(s)
  <2>1. conn'[s].sent = sent /\ (f2 => f) /\ (a2 => a)
    BY <1>3 DEF Resting
  <2>2. Row(ts, w, o, sent, f2, a2)
    BY ONLY <1>1, <2>1, RowSent
  <2> QED BY <2>1, <2>2
<1>4. CASE Uttering(s)
  <2>1. conn'[s].sent = sent + 1 /\ a /\ ~a2
    BY <1>4 DEF Uttering
  <2>2. Row(ts, w, o, sent + 1, f2, a2)
    BY ONLY <1>1, <2>1, ts \in Seq(Task), w \in Seq(Event), RowNext
  <2> QED BY <2>1, <2>2
<1>5. CASE conn[s].state = "none"
  <2>1. sent = 0
    <3>1. Starting(s, flow[s], conn[s], tasks[s], run[s], wire[s])
      BY SideShape DEF Sound
    <3>2. conn[s] = NoChannel
      BY <1>5, <3>1 DEF Starting
    <3> QED BY <3>2 DEF NoChannel
  <2>2. Numbers(ts) \subseteq Nat \ {0} /\ Numbers(w) \subseteq Nat \ {0}
    BY NumbersOf, NumberedLists
  <2>3. Numbers(ts) = {} /\ Numbers(w) = {}
    BY <1>1, <2>1, <2>2 DEF Row, Lined
  <2> QED BY <1>1, <2>3 DEF Row, Lined, Gapless
<1> QED BY <1>3, <1>4, <1>5 DEF Utters

(* What is left when the channel is seen to be closed.                     *)
LEMMA ClosedQuiet ==
  ASSUME Shape, Pace, Goodbye, Hand, Order, Quiet, NEW p \in Side, Closes(p)
  PROVE  /\ Numbers(wire[p]) = {}
         /\ \/ conn[p].selfClosed \/ conn[p].socket = "shut"
            \/ ~Flies(From(Peer(p), air)) /\ Hushed(conn[Peer(p)], run[Peer(p)])
<1> PICK s \in Side : s = Peer(p)
  BY DEF Side, Peer
<1> PICK t : t = First(p)
  OBVIOUS
<1> PICK sent : sent = conn[s].sent
  OBVIOUS
<1>1. /\ tasks[p] \in Seq(Task) /\ wire[p] \in Seq(Event) /\ tasks[p] # <<>>
      /\ t \in Elements(tasks[p]) /\ t.do = "recv" /\ t \in Incoming(p)
      /\ conn[p].state \in {"handshake", "connected"} /\ run[p] = <<>>
      /\ conn[p].got \in Nat /\ sent \in Nat
  <2>1. tasks[p] # <<>> /\ First(p).do = "recv" /\ conn[p].state # "failed" /\ run[p] = <<>>
    BY DEF Closes, Receiving, Taken
  <2>2. tasks[p] \in Seq(Task) /\ wire[p] \in Seq(Event) /\ conn[p] \in Channel /\ conn[s] \in Channel
    BY SideShape
  <2> QED BY <2>1, <2>2, FirstTyped, HeadTail DEF First, Channel
<1>2. t.n \in Numbers(tasks[p]) /\ t.n \in Nat \ {0}
  BY <1>1 DEF Numbers, Incoming
<1>3. /\ \A n \in Numbers(wire[p]) : t.n < n /\ n <= sent /\ n \in Nat
      /\ Flies(From(s, air)) => t.n # sent
  <2>1. RowOf(p)
    BY DEF Order
  <2>2. Before(tasks[p], wire[p]) /\ \A n \in Numbers(wire[p]) : n <= sent
    BY <2>1 DEF RowOf, Row, Lined
  <2>3. Flies(From(s, air)) => sent \notin Numbers(tasks[p])
    BY <2>1 DEF RowOf, Row, Lined
  <2>4. Numbers(wire[p]) \subseteq Nat \ {0}
    BY <1>1, NumbersOf, NumberedLists
  <2> QED BY <1>2, <2>2, <2>3, <2>4 DEF Before
<1>4. CASE conn[p].peerClosed
  BY <1>4 DEF Quiet
<1>5. CASE t.what = "close"
  <2>1. t.n = sent /\ Hushed(conn[s], run[s])
    BY <1>1, <1>5 DEF Goodbye, Farewell
  <2>2. Numbers(wire[p]) = {}
    BY <1>1, <1>3, <2>1
  <2>3. ~Flies(From(s, air)) /\ Hushed(conn[s], run[s])
    BY <1>3, <2>1
  <2> QED BY <2>2, <2>3
<1>6. CASE t.what = "handshake" /\ t.n = conn[p].got + 1 /\ Flight(p, t.n) # <<>> /\ conn[p].sendClosed
  <2>1. conn[p].selfClosed
    BY <1>6 DEF Goodbye
  <2>2. t.n \in {1, 3} /\ (p = "auth" => t.n = 1)
    BY <1>6, FlightTyped
  <2>3. CASE p = "auth"
    <3>1. conn[p].got = 0 /\ t.n = 1
      BY <1>1, <1>6, <2>2, <2>3
    <3>2. Virginal
      BY <1>1, <2>3, <3>1 DEF Virginal, Virgin
    <3>3. sent <= 1
      BY <2>3, <3>2 DEF Hand, MuteSupp, Peer
    <3>4. Numbers(wire[p]) = {}
      BY <1>1, <1>3, <3>1, <3>3
    <3> QED BY <2>1, <3>4
  <2>4. CASE p = "supp"
    <3>1. conn[p].got < 3
      BY <1>1, <1>6, <2>2
    <3>2. conn[p].state = "handshake"
      BY <1>1, <2>4, <3>1 DEF Hand, HandSupp
    <3>3. conn[p].socket = "shut"
      BY <1>6, <2>4, <3>2 DEF Hand, HandSupp
    <3> QED BY <2>1, <3>3 DEF Quiet
  <2> QED BY <2>3, <2>4 DEF Side
<1> QED BY <1>4, <1>5, <1>6 DEF Closes

LEMMA NextOrder ==
  Shape /\ Pace /\ Goodbye /\ Hand /\ Order /\ Quiet /\ [Next]_vars => Order' /\ Quiet'
<1> SUFFICES ASSUME Shape, Pace, Goodbye, Hand, Order, Quiet, [Next]_vars
             PROVE  Order' /\ Quiet'
  OBVIOUS
<1>1. /\ \A p \in Side : Peer(p) \in Side /\ Peer(p) # p /\ Peer(Peer(p)) = p
      /\ \A p \in Side : /\ tasks[p] \in Seq(Task) /\ wire[p] \in Seq(Event)
                         /\ conn[p] \in Channel /\ conn[p].sent \in Nat
  BY SideShape DEF Side, Peer, Channel
<1>2. Shape'
  BY NextShape
<1>3. CASE \A p \in Side : Deed(p)
  <2>1. ASSUME NEW p \in Side, NEW s \in Side, s = Peer(p)
        PROVE  /\ Row(tasks'[p], wire'[p], conn'[p].socket = "open", conn'[s].sent,
                      Flies(From(s, air')), Answered(conn'[s], run'[s], wire'[s], From(s, air')))
               /\ Numbers(wire'[p]) \subseteq Numbers(wire[p])
    <3> PICK sent, f, a : /\ sent = conn[s].sent /\ f = Flies(From(s, air))
                          /\ a = Answered(conn[s], run[s], wire[s], From(s, air))
      OBVIOUS
    <3> PICK us, v, o : us = tasks'[p] /\ v = wire'[p] /\ o = (conn'[p].socket = "open")
      OBVIOUS
    <3>1. Row(tasks[p], wire[p], conn[p].socket = "open", sent, f, a)
      BY <2>1 DEF Order, RowOf
    <3>2. Deals(p) /\ Utters(s) /\ sent \in Nat /\ (conn[p].socket = "shut" => Numbers(wire[p]) = {})
      BY <1>1, <1>3 DEF Deed, Quiet
    <3>3. Row(us, v, o, sent, f, a) /\ Numbers(v) \subseteq Numbers(wire[p])
      BY <3>1, <3>2, RowDeals
    <3>4. us \in Seq(Task) /\ v \in Seq(Event)
      BY <1>2 DEF Shape, Typed
    <3>5. Row(us, v, o, conn'[s].sent, Flies(From(s, air')),
              Answered(conn'[s], run'[s], wire'[s], From(s, air')))
      BY <3>2, <3>3, <3>4, RowUtters
    <3> QED BY <3>3, <3>5
  <2>2. ASSUME NEW s \in Side, ~Flies(From(s, air)), Hushed(conn[s], run[s])
        PROVE  ~Flies(From(s, air')) /\ Hushed(conn'[s], run'[s])
    BY <1>3, <2>2 DEF Deed, Utters, Resting, Uttering
  <2>3. ASSUME NEW p \in Side, NEW s \in Side, s = Peer(p)
        PROVE  /\ conn'[p].socket = "shut" => Numbers(wire'[p]) = {}
               /\ conn'[p].peerClosed =>
                     /\ Numbers(wire'[p]) = {}
                     /\ conn'[p].socket = "shut" \/ (~Flies(From(s, air')) /\ Hushed(conn'[s], run'[s]))
    <3>1. Numbers(wire'[p]) \subseteq Numbers(wire[p])
      BY <2>1, <2>3
    <3>2. Shuts(p)
      BY <1>3 DEF Deed
    <3>3. CASE conn[p].peerClosed
      <4>1. Numbers(wire[p]) = {}
        BY <3>3 DEF Quiet
      <4>2. conn[p].socket = "shut" \/ (~Flies(From(s, air)) /\ Hushed(conn[s], run[s]))
        BY <2>3, <3>3 DEF Quiet
      <4> QED BY <2>2, <3>1, <3>2, <4>1, <4>2 DEF Shuts
    <3>4. CASE ~conn[p].peerClosed /\ Closes(p)
      <4>1. Numbers(wire[p]) = {}
        BY <3>4, ClosedQuiet
      <4>2. \/ conn[p].selfClosed \/ conn[p].socket = "shut"
            \/ ~Flies(From(s, air)) /\ Hushed(conn[s], run[s])
        BY <2>3, <3>4, ClosedQuiet
      <4>3. Numbers(wire'[p]) = {}
        BY <3>1, <4>1
      <4>4. CASE ~Flies(From(s, air)) /\ Hushed(conn[s], run[s])
        <5>1. ~Flies(From(s, air')) /\ Hushed(conn'[s], run'[s])
          BY <2>2, <2>3, <4>4
        <5> QED BY <4>3, <5>1
      <4>5. CASE conn[p].socket = "shut"
        <5>1. conn'[p].socket = "shut"
          BY <3>2, <4>5 DEF Shuts
        <5> QED BY <4>3, <5>1
      <4>6. CASE conn[p].selfClosed
        <5>1. conn'[p].peerClosed => conn'[p].socket = "shut"
          BY <3>2, <3>4, <4>6 DEF Shuts
        <5> QED BY <4>3, <5>1
      <4> QED BY <4>2, <4>4, <4>5, <4>6
    <3>5. CASE ~conn[p].peerClosed /\ ~Closes(p)
      <4>1. ~conn'[p].peerClosed
        BY <3>2, <3>5 DEF Shuts
      <4>2. CASE conn[p].socket = "shut"
        BY <3>1, <4>1, <4>2 DEF Quiet
      <4>3. CASE wire'[p] = <<>>
        BY <4>1, <4>3, NoNumbers
      <4>4. CASE Hears(p, "gone") /\ Heard(p)
        <5>1. wire[p] # <<>> /\ wire'[p] = Tail(wire[p]) /\ Head(wire[p]) = Gone
          BY <4>4, NextEvent DEF Hears, Heard, Shape, Typed
        <5>2. wire'[p] = <<>>
          BY <1>1, <5>1, LastOnlyTail DEF Goodbye
        <5> QED BY <4>3, <5>2
      <4>5. CASE conn'[p].socket # "shut"
        BY <4>1, <4>5
      <4> QED BY <3>2, <3>5, <4>2, <4>3, <4>4, <4>5 DEF Shuts
    <3> QED BY <3>3, <3>4, <3>5
  <2>4. Order'
    BY <1>1, <2>1 DEF Order, RowOf
  <2>5. Quiet'
    BY <1>1, <2>3 DEF Quiet
  <2> QED BY <2>4, <2>5
<1>4. CASE \E f \in air : RelayFrame(f)
  <2> PICK f \in air : RelayFrame(f)
    BY <1>4
  <2> PICK s \in Side, e \in Event :
            /\ Peer(s) \in Side /\ Peer(s) # s /\ Peer(Peer(s)) = s
            /\ e \in Arriving(Peer(s)) /\ e.n = conn[s].sent /\ e \notin {Ack, Gone}
            /\ UNCHANGED <<conn, tasks, run>> /\ wire'[s] = wire[s]
            /\ wire'[Peer(s)] = IF conn[Peer(s)].socket = "open" THEN Append(wire[Peer(s)], e)
                                ELSE wire[Peer(s)]
            /\ Flies(From(s, air)) /\ ~Flies(From(s, air'))
            /\ From(Peer(s), air') = From(Peer(s), air)
    BY RelayActs
  <2> PICK r \in Side : r = Peer(s)
    OBVIOUS
  <2>1. \A p \in Side : p = s \/ p = r
    BY DEF Side, Peer
  <2> PICK sent, a, a2 : /\ sent = conn[s].sent
                         /\ a = Answered(conn[s], run[s], wire[s], From(s, air))
                         /\ a2 = Answered(conn[s], run[s], wire[s], From(s, air'))
    OBVIOUS
  <2> PICK f1, f2 : f1 = Flies(From(s, air)) /\ f2 = Flies(From(s, air'))
    OBVIOUS
  <2>2. Row(tasks[r], wire[r], conn[r].socket = "open", sent, f1, a)
    BY DEF Order, RowOf
  <2>3. Row(tasks[r], wire'[r], conn[r].socket = "open", sent, f2, a2)
    <3>1. f1 /\ ~f2 /\ e.n = sent /\ sent # 0 /\ sent \in Nat
      BY <1>1 DEF Arriving
    <3> PICK o : o = (conn[r].socket = "open")
      OBVIOUS
    <3>2. CASE o
      <4>1. Row(tasks[r], Append(wire[r], e), o, sent, f2, a2)
        <5> PICK ts \in Seq(Task), w \in Seq(Event) : ts = tasks[r] /\ w = wire[r]
          BY <1>1
        <5>1. Row(ts, w, o, sent, f1, a)
          BY <2>2
        <5>2. Row(ts, Append(w, e), o, sent, f2, a2)
          BY ONLY <3>1, <3>2, <5>1, ts \in Seq(Task), w \in Seq(Event), e \in Event, RowRelayed
        <5> QED BY <5>2
      <4> QED BY <3>2, <4>1
    <3>3. CASE ~o
      <4>1. wire'[r] = wire[r]
        BY <3>3
      <4> QED BY <2>2, <3>1, <3>3, <4>1 DEF Row, Lined
    <3> QED BY <3>2, <3>3
  <2>4. RowOf(s) => Row(tasks[s], wire[s], conn[s].socket = "open", conn[r].sent,
                        Flies(From(r, air')), Answered(conn[r], run[r], wire'[r], From(r, air')))
    <3>1. Ack \in Elements(wire'[r]) <=> Ack \in Elements(wire[r])
      <4>1. Elements(Append(wire[r], e)) = Elements(wire[r]) \union {e}
        BY <1>1, EventAdded
      <4> QED BY <4>1
    <3>2. Answered(conn[r], run[r], wire'[r], From(r, air')) <=>
             Answered(conn[r], run[r], wire[r], From(r, air))
      BY <3>1 DEF Answered
    <3> PICK b, b2 : /\ b = Answered(conn[r], run[r], wire[r], From(r, air))
                     /\ b2 = Answered(conn[r], run[r], wire'[r], From(r, air'))
      OBVIOUS
    <3>3. b2 => b
      BY <3>2
    <3> PICK o, n, g : o = (conn[s].socket = "open") /\ n = conn[r].sent /\ g = Flies(From(r, air))
      OBVIOUS
    <3>4. ASSUME Row(tasks[s], wire[s], o, n, g, b) PROVE Row(tasks[s], wire[s], o, n, g, b2)
      BY ONLY <3>3, <3>4 DEF Row, Lined
    <3> QED BY <3>4 DEF RowOf
  <2>5. Order'
    <3>1. RowOf(s) /\ tasks' = tasks /\ conn' = conn /\ run' = run
      BY DEF Order
    <3>2. (RowOf(r))'
      BY <2>3, <3>1 DEF RowOf
    <3>3. (RowOf(s))'
      BY <2>4, <3>1 DEF RowOf
    <3> QED BY <2>1, <3>2, <3>3 DEF Order
  <2>6. Quiet'
    <3>1. conn[r].peerClosed => conn[r].socket = "shut"
      BY DEF Quiet
    <3>2. conn[r].socket = "shut" => wire'[r] = wire[r]
      OBVIOUS
    <3>3. ASSUME NEW p \in Side
          PROVE  /\ conn[p].socket = "shut" => Numbers(wire'[p]) = {}
                 /\ conn[p].peerClosed =>
                       /\ Numbers(wire'[p]) = {}
                       /\ \/ conn[p].socket = "shut"
                          \/ ~Flies(From(Peer(p), air')) /\ Hushed(conn[Peer(p)], run[Peer(p)])
      <4>1. CASE p = r
        BY <3>1, <3>2, <4>1 DEF Quiet
      <4>2. CASE p = s
        BY <4>2 DEF Quiet
      <4> QED BY <2>1, <4>1, <4>2
    <3> QED BY <3>3 DEF Quiet
  <2> QED BY <2>5, <2>6
<1> QED BY <1>3, <1>4, NextDeeds

LEMMA InitOrder == Init => Order /\ Quiet
<1> SUFFICES ASSUME Init PROVE Order /\ Quiet
  OBVIOUS
<1>1. \A p \in Side : conn[p] = NoChannel /\ tasks[p] = <<>> /\ wire[p] = <<>>
  BY DEF Init
<1>2. NoChannel.socket = "none" /\ ~NoChannel.peerClosed
  BY DEF NoChannel
<1>3. Order
  BY <1>1, RowEmpty DEF Order, RowOf
<1> QED BY <1>1, <1>2, <1>3 DEF Quiet

(* Two frames of a row with none between them have consecutive numbers.    *)
LEMMA RowSteps ==
  ASSUME NEW ts \in Seq(Task), NEW w \in Seq(Event),
         NEW sent, NEW o, NEW f, NEW a, Row(ts, w, o, sent, f, a),
         NEW z, z = ts \o w, NEW i \in 1 .. Len(z), NEW j \in 1 .. Len(z), i < j,
         z[i].n > 0, z[j].n > 0, \A k \in (i + 1) .. (j - 1) : z[k].n = 0
  PROVE  z[j].n = z[i].n + 1
<1> PICK N, L, M : N = Numbers(ts) \union Numbers(w) /\ L = Len(ts) /\ M = Len(w)
  OBVIOUS
<1>1. /\ L \in Nat /\ M \in Nat /\ Len(z) = L + M
      /\ \A k \in 1 .. L + M : z[k] = IF k <= L THEN ts[k] ELSE w[k - L]
  BY LenProperties, ConcatProperties
<1>2. /\ \A k \in 1 .. L : ts[k].n \in Nat /\ (ts[k].n > 0 => ts[k].n \in Numbers(ts))
      /\ \A n \in Numbers(ts) : \E k \in 1 .. L : n = ts[k].n /\ n > 0
      /\ DOMAIN ts = 1 .. L /\ Numbers(ts) \subseteq Nat \ {0}
  BY NumbersOf, NumberedLists
<1>3. /\ \A k \in 1 .. M : w[k].n \in Nat /\ (w[k].n > 0 => w[k].n \in Numbers(w))
      /\ \A n \in Numbers(w) : \E k \in 1 .. M : n = w[k].n /\ n > 0
      /\ DOMAIN w = 1 .. M /\ Numbers(w) \subseteq Nat \ {0}
  BY NumbersOf, NumberedLists
<1>4. Rising(ts) /\ Rising(w) /\ Before(ts, w) /\ Gapless(N)
  BY DEF Row, Lined
<1>5. \A k \in 1 .. L : k \in 1 .. L + M /\ z[k] = ts[k]
  BY ONLY <1>1
<1>6. ASSUME NEW k \in 1 .. M PROVE L + k \in 1 .. L + M /\ z[L + k] = w[k]
  <2>1. L + k \in 1 .. L + M /\ ~(L + k <= L) /\ (L + k) - L = k
    BY ONLY <1>1, k \in 1 .. M
  <2> QED BY ONLY <1>1, <2>1
<1>7. ASSUME NEW k \in 1 .. L + M, ~(k <= L) PROVE k - L \in 1 .. M /\ z[k] = w[k - L]
  BY ONLY <1>1, <1>7
<1>8. ASSUME NEW k \in 1 .. L + M PROVE z[k].n \in Nat /\ (z[k].n > 0 => z[k].n \in N)
  <2>1. CASE k <= L
    <3>1. k \in 1 .. L
      BY ONLY <1>1, <1>8, <2>1
    <3> QED BY <1>2, <1>5, <3>1
  <2>2. CASE ~(k <= L)
    <3> PICK l \in 1 .. M : z[k] = w[l]
      BY <1>7, <1>8, <2>2
    <3> QED BY <1>3
  <2> QED BY <2>1, <2>2
<1>9. ASSUME NEW n \in N PROVE \E k \in 1 .. L + M : n = z[k].n /\ n > 0
  <2>1. CASE n \in Numbers(ts)
    BY <1>2, <1>5, <2>1
  <2>2. CASE n \in Numbers(w)
    <3> PICK k \in 1 .. M : n = w[k].n /\ n > 0
      BY <1>3, <2>2
    <3>1. L + k \in 1 .. L + M /\ z[L + k] = w[k]
      BY <1>6
    <3> QED BY <3>1
  <2> QED BY <1>9, <2>1, <2>2
<1>10. ASSUME NEW k \in 1 .. L + M, NEW l \in 1 .. L + M, k < l, z[k].n > 0, z[l].n > 0
       PROVE  z[k].n < z[l].n
  <2>1. CASE l <= L
    <3>1. k \in 1 .. L /\ l \in 1 .. L
      BY ONLY <1>1, <1>10, <2>1
    <3> QED BY <1>2, <1>4, <1>5, <1>10, <3>1 DEF Rising
  <2>2. CASE k <= L /\ ~(l <= L)
    <3>1. k \in 1 .. L
      BY ONLY <1>1, <1>10, <2>2
    <3> PICK y \in 1 .. M : z[l] = w[y]
      BY <1>7, <1>10, <2>2
    <3>2. ts[k].n \in Numbers(ts) /\ w[y].n \in Numbers(w) /\ z[k] = ts[k]
      BY <1>2, <1>3, <1>5, <1>10, <3>1
    <3> QED BY <1>4, <3>2 DEF Before
  <2>3. CASE ~(k <= L)
    <3>1. ~(l <= L) /\ k - L < l - L
      BY ONLY <1>1, <1>10, <2>3
    <3> PICK x, y : x = k - L /\ y = l - L
      OBVIOUS
    <3>2. x \in 1 .. M /\ y \in 1 .. M /\ z[k] = w[x] /\ z[l] = w[y] /\ x < y
      BY <1>7, <1>10, <2>3, <3>1
    <3>3. x \in DOMAIN w /\ y \in DOMAIN w /\ w[x].n > 0 /\ w[y].n > 0
      BY <1>3, <1>10, <3>2
    <3>4. \A q, u \in DOMAIN w : q < u /\ w[q].n > 0 /\ w[u].n > 0 => w[q].n < w[u].n
      BY <1>4 DEF Rising
    <3>5. w[x].n < w[y].n
      BY ONLY <3>2, <3>3, <3>4
    <3> QED BY ONLY <3>2, <3>5
  <2> QED BY <2>1, <2>2, <2>3
<1>11. i \in 1 .. L + M /\ j \in 1 .. L + M /\ i \in Nat /\ j \in Nat
  BY <1>1
<1>12. z[i].n < z[j].n /\ z[i].n \in N /\ z[j].n \in N /\ z[i].n \in Nat /\ z[j].n \in Nat
  BY <1>8, <1>10, <1>11
<1> PICK m, n : m = z[i].n /\ n = z[j].n
  OBVIOUS
<1>13. ASSUME m + 1 < n PROVE FALSE
  <2>1. m + 1 \in m .. n
    BY ONLY <1>12, <1>13, m = z[i].n, n = z[j].n
  <2>2. m + 1 \in N
    BY <1>4, <1>12, <2>1 DEF Gapless
  <2> PICK k \in 1 .. L + M : m + 1 = z[k].n /\ m + 1 > 0
    BY <1>9, <2>2
  <2>3. k # i /\ k # j /\ m < m + 1 /\ m \in Nat /\ n \in Nat
    BY ONLY <1>12, <1>13, m = z[i].n, n = z[j].n, m + 1 = z[k].n
  <2>4. ~(k < i)
    <3> SUFFICES ASSUME k < i PROVE FALSE
      OBVIOUS
    <3>1. m + 1 < m
      BY <1>10, <1>11
    <3> QED BY ONLY <2>3, <3>1
  <2>5. ~(j < k)
    <3> SUFFICES ASSUME j < k PROVE FALSE
      OBVIOUS
    <3>1. n < m + 1
      BY <1>10, <1>11
    <3> QED BY ONLY <1>13, <2>3, <3>1
  <2>6. k \in (i + 1) .. (j - 1)
    BY ONLY <1>1, <1>11, <2>3, <2>4, <2>5, k \in 1 .. L + M
  <2>7. m + 1 = 0
    BY <2>6
  <2> QED BY <2>3, <2>7
<1> QED BY ONLY <1>12, <1>13, m = z[i].n, n = z[j].n

LEMMA OrderHolds == Spec => [](Shape /\ Pace /\ Goodbye /\ Hand /\ Order /\ Quiet)
BY InitShape, NextShape, InitPace, NextPace, InitHand, NextGoodbye, NextHand,
   InitOrder, NextOrder, PTL DEF Spec

(* "waiting for each ack guarantees the peer sees frames in order"         *)
(* (index.ts:92): a page deals with every frame of its peer in the order   *)
(* of the numbers, and misses none, whatever the relay does with each of   *)
(* them, whichever acks are late, and whichever page ends when.            *)
THEOREM FramesSeenInOrder == Spec => []SeenInOrder
<1>1. Shape /\ Order => SeenInOrder
  <2> SUFFICES ASSUME Shape, Order PROVE SeenInOrder
    OBVIOUS
  <2>1. \A p \in Side : tasks[p] \in Seq(Task) /\ wire[p] \in Seq(Event)
    BY DEF Shape, Typed
  <2>2. ASSUME NEW p \in Side, NEW i \in 1 .. Len(Coming(p)), NEW j \in 1 .. Len(Coming(p)),
               i < j, Coming(p)[i].n > 0, Coming(p)[j].n > 0,
               \A k \in (i + 1) .. (j - 1) : Coming(p)[k].n = 0
        PROVE  Coming(p)[j].n = Coming(p)[i].n + 1
    <3> PICK ts \in Seq(Task), w \in Seq(Event) : ts = tasks[p] /\ w = wire[p]
      BY <2>1
    <3> PICK sent, o, f, a : Row(ts, w, o, sent, f, a)
      BY DEF Order, RowOf
    <3> PICK z : z = Coming(p)
      OBVIOUS
    <3>1. z = ts \o w
      BY DEF Coming
    <3>2. /\ i \in 1 .. Len(z) /\ j \in 1 .. Len(z) /\ i < j /\ z[i].n > 0 /\ z[j].n > 0
          /\ \A k \in (i + 1) .. (j - 1) : z[k].n = 0
      BY <2>2
    <3>3. z[j].n = z[i].n + 1
      BY ONLY <3>1, <3>2, Row(ts, w, o, sent, f, a), ts \in Seq(Task), w \in Seq(Event), RowSteps
    <3> QED BY <3>3
  <2> QED BY <2>2 DEF SeenInOrder
<1> QED BY <1>1, OrderHolds, PTL

-----------------------------------------------------------------------------
(***************************************************************************)
(* Declining.  At most one request ever reaches the authority, as the page *)
(* of the supplicant asks once and no frame is sent twice.  So when the    *)
(* user is asked, or not asked yet, nothing was approved; and after a      *)
(* decline a close comes before any answer.                                *)
(***************************************************************************)
Ask == Send("request")
Answer == Send("authorize")

(* What a page has yet to deal with, and what is at the relay.             *)
Pending(p, m) == {x \in Elements(tasks[p]) \union Elements(wire[p]) : x.what = m}
Flown(p, m) == \E f \in From(p, air) : f.what = m /\ ~f.there

(* The request is yet to be asked for, to be sent, or to be dealt with.    *)
Before1st(step) == step \in {"connect", "probe", "request"}
Unasked(ts, r) == Ask \in Elements(ts) /\ ~(r # <<>> /\ Head(ts) = Ask)
Early == Before1st(flow["supp"])
Unsent == Unasked(tasks["supp"], run["supp"])
Ahead == Early \/ Unsent \/ Flown("supp", "request") \/ Pending("auth", "request") # {}

(* There is one request, in one place.                                     *)
Single ==
    /\ conn["supp"].state = "hello" /\ run["supp"] # <<>> => flow["supp"] = "connect"
    /\ Early => Ask \notin Elements(tasks["supp"])
    /\ Once(tasks["supp"], Ask)
    /\ Early \/ Unsent => ~Flown("supp", "request")
    /\ Early \/ Unsent \/ Flown("supp", "request") => Pending("auth", "request") = {}
    /\ \A x, y \in Pending("auth", "request") : x.n = y.n

(* The user approved: the answer is being made, sent or dealt with.        *)
Granted == Flown("auth", "authorize") \/ Pending("supp", "authorize") # {}
Approved ==
    \/ flow["auth"] \in {"code", "send"} \/ page["auth"] \in {"authorizing", "complete"}
    \/ Answer \in Elements(tasks["auth"]) \/ Granted \/ page["supp"] = "complete"

(* No answer can be sent: the close comes first.                           *)
Shielded(s) == \E i \in DOMAIN s : s[i] = Close /\ \A j \in 1 .. i : s[j] # Answer
Bars(c, r, ts) == Hushed(c, r) \/ c.socket = "shut" \/ Shielded(ts)

Decision ==
    /\ Ahead => page["auth"] # "confirming" /\ ~Approved
    /\ page["auth"] \in {"creating-channel", "showing-qr", "confirming"} => ~Approved
    /\ flow["auth"] = "connect" => page["auth"] = "creating-channel"
    /\ declined => /\ page["supp"] # "complete" /\ ~Granted
                   /\ conn["auth"].state # "none"
                   /\ Bars(conn["auth"], run["auth"], tasks["auth"])

LEMMA OnceJoint ==
  ASSUME NEW S, NEW s \in Seq(S), NEW t \in Seq(S), NEW a, a \notin Elements(t), Once(s, a)
  PROVE  Once(s \o t, a)
<1>1. /\ Len(s \o t) = Len(s) + Len(t) /\ Len(s) \in Nat /\ Len(t) \in Nat
      /\ \A i \in 1 .. Len(s) + Len(t) : (s \o t)[i] = IF i <= Len(s) THEN s[i] ELSE t[i - Len(s)]
      /\ DOMAIN s = 1 .. Len(s) /\ DOMAIN t = 1 .. Len(t)
      /\ DOMAIN (s \o t) = 1 .. Len(s) + Len(t)
  BY ConcatProperties, LenProperties
<1> PICK z, L, M : z = s \o t /\ L = Len(s) /\ M = Len(t)
  OBVIOUS
<1>2. \A i \in 1 .. M : t[i] # a
  BY <1>1 DEF Elements
<1>3. \A i, j \in 1 .. L : s[i] = a /\ s[j] = a => i = j
  BY <1>1 DEF Once
<1>4. ASSUME NEW i \in 1 .. L + M, z[i] = a PROVE i \in 1 .. L /\ s[i] = a
  <2>1. ASSUME ~(i <= L) PROVE FALSE
    <3>1. i - L \in 1 .. M /\ z[i] = t[i - L]
      BY ONLY <1>1, <2>1, z = s \o t, L = Len(s), M = Len(t), i \in 1 .. L + M
    <3> QED BY <1>2, <1>4, <3>1
  <2>2. i \in 1 .. L /\ z[i] = s[i]
    BY ONLY <1>1, <2>1, z = s \o t, L = Len(s), M = Len(t), i \in 1 .. L + M
  <2> QED BY <1>4, <2>2
<1>5. \A i, j \in 1 .. L + M : z[i] = a /\ z[j] = a => i = j
  BY <1>3, <1>4
<1> QED BY <1>1, <1>5 DEF Once

LEMMA ShieldedHead ==
  ASSUME NEW s \in Seq(Task), Shielded(s)
  PROVE  s # <<>> /\ Head(s) # Answer /\ Close \in Elements(s)
<1>1. Len(s) \in Nat /\ DOMAIN s = 1 .. Len(s)
  BY LenProperties
<1> PICK i \in 1 .. Len(s) : s[i] = Close /\ \A j \in 1 .. i : s[j] # Answer
  BY <1>1 DEF Shielded
<1>2. 1 \in 1 .. i /\ s # <<>>
  BY <1>1
<1>3. Head(s) = s[1]
  BY <1>2, HeadTailProperties
<1> QED BY <1>1, <1>2, <1>3 DEF Elements

LEMMA ShieldedTail ==
  ASSUME NEW s \in Seq(Task), Shielded(s), Head(s) # Close
  PROVE  Tail(s) \in Seq(Task) /\ Shielded(Tail(s))
<1>1. s # <<>>
  BY ShieldedHead
<1> PICK t, m, n : t = Tail(s) /\ m = Len(t) /\ n = Len(s)
  OBVIOUS
<1>2. /\ t \in Seq(Task) /\ m = n - 1 /\ Head(s) = s[1]
      /\ \A i \in 1 .. m : t[i] = s[i + 1]
      /\ n \in Nat \ {0} /\ DOMAIN s = 1 .. n /\ DOMAIN t = 1 .. m
  BY <1>1, HeadTailProperties, LenProperties, EmptySeq
<1> PICK i \in 1 .. n : s[i] = Close /\ \A j \in 1 .. i : s[j] # Answer
  BY <1>2 DEF Shielded
<1>3. i # 1
  BY <1>2
<1>4. i - 1 \in 1 .. m /\ t[i - 1] = s[i]
  <2>1. i - 1 \in 1 .. m /\ (i - 1) + 1 = i
    BY ONLY <1>2, <1>3, i \in 1 .. n
  <2> QED BY <1>2, <2>1
<1>5. ASSUME NEW j \in 1 .. i - 1 PROVE t[j] # Answer
  <2>1. j \in 1 .. m /\ j + 1 \in 1 .. i
    BY ONLY <1>2, <1>3, i \in 1 .. n, j \in 1 .. i - 1
  <2> QED BY <1>2, <2>1
<1> QED BY <1>2, <1>4, <1>5 DEF Shielded

LEMMA ShieldedJoint ==
  ASSUME NEW s \in Seq(Task), NEW t \in Seq(Task), Shielded(s)
  PROVE  Shielded(s \o t)
<1>1. /\ Len(s) \in Nat /\ Len(t) \in Nat /\ DOMAIN s = 1 .. Len(s)
      /\ \A i \in 1 .. Len(s) + Len(t) : (s \o t)[i] = IF i <= Len(s) THEN s[i] ELSE t[i - Len(s)]
      /\ DOMAIN (s \o t) = 1 .. Len(s) + Len(t)
  BY ConcatProperties, LenProperties
<1> PICK z, L, M : z = s \o t /\ L = Len(s) /\ M = Len(t)
  OBVIOUS
<1>2. \A i \in 1 .. L : i \in 1 .. L + M /\ z[i] = s[i]
  BY ONLY <1>1, z = s \o t, L = Len(s), M = Len(t)
<1> PICK i \in 1 .. L : s[i] = Close /\ \A j \in 1 .. i : s[j] # Answer
  BY <1>1 DEF Shielded
<1>3. \A j \in 1 .. i : j \in 1 .. L
  BY <1>1
<1>4. z[i] = Close /\ \A j \in 1 .. i : z[j] # Answer
  BY <1>2, <1>3
<1> QED BY <1>1, <1>2, <1>4 DEF Shielded

LEMMA ShieldedSure ==
  ASSUME NEW s \in Seq(Task), Close \in Elements(s), Answer \notin Elements(s)
  PROVE  Shielded(s)
<1>1. Len(s) \in Nat /\ DOMAIN s = 1 .. Len(s)
  BY LenProperties
<1> PICK i \in 1 .. Len(s) : s[i] = Close
  BY <1>1 DEF Elements
<1>2. ASSUME NEW j \in 1 .. i PROVE s[j] # Answer
  <2>1. j \in 1 .. Len(s)
    BY <1>1
  <2> QED BY <1>1, <2>1 DEF Elements
<1> QED BY <1>1, <1>2 DEF Shielded

(* What comes to a page came over the relay.                               *)
LEMMA PendingDeals ==
  ASSUME Shape, Goodbye, NEW p \in Side, Deals(p),
         NEW m, m \notin Says(p) \union {"close", "ack", "gone"},
         NEW x \in Elements(tasks'[p]) \union Elements(wire'[p]), x.what = m
  PROVE  \E y \in Pending(p, m) : y.n = x.n
<1>1. /\ \A t \in Elements(tasks'[p]) :
            \/ t \in Elements(tasks[p]) \/ t \in Outgoing(p)
            \/ \E e \in Elements(wire[p]) :
                  e \in Arriving(p) /\ t = [do |-> "recv", what |-> e.what, n |-> e.n]
      /\ Elements(wire'[p]) \subseteq Elements(wire[p]) \union {Ack, Gone}
  BY DealsHas DEF Goodbye
<1>2. x \notin Outgoing(p) /\ x \notin {Ack, Gone}
  BY DEF Outgoing, Send, Close, Ack, Gone
<1>3. CASE x \in Elements(tasks[p]) \union Elements(wire[p])
  BY <1>3 DEF Pending
<1>4. CASE x \notin Elements(tasks[p]) \union Elements(wire[p])
  <2> PICK e \in Elements(wire[p]) : x = [do |-> "recv", what |-> e.what, n |-> e.n]
    BY <1>1, <1>2, <1>4
  <2>1. e.what = m /\ e.n = x.n
    OBVIOUS
  <2> QED BY <2>1 DEF Pending
<1> QED BY <1>3, <1>4

LEMMA PendingNothing ==
  ASSUME Shape, Goodbye, NEW p \in Side, Deals(p),
         NEW m, m \notin Says(p) \union {"close", "ack", "gone"}, Pending(p, m) = {}
  PROVE  \A x \in Elements(tasks'[p]) \union Elements(wire'[p]) : x.what # m
<1> SUFFICES ASSUME NEW x \in Elements(tasks'[p]) \union Elements(wire'[p]), x.what = m PROVE FALSE
  OBVIOUS
<1> QED BY PendingDeals

(* Of frames with one number, none is left when one was dealt with.        *)
LEMMA PendingLast ==
  ASSUME Shape, Order, NEW p \in Side, tasks[p] # <<>>, First(p) \in Incoming(p),
         \A x, y \in Pending(p, First(p).what) : x.n = y.n
  PROVE  \A x \in Elements(Tail(tasks[p])) \union Elements(wire[p]) : x.what # First(p).what
<1> PICK m, k : m = First(p).what /\ k = First(p).n
  OBVIOUS
<1> SUFFICES ASSUME NEW x \in Elements(Tail(tasks[p])) \union Elements(wire[p]), x.what = m
             PROVE  FALSE
  OBVIOUS
<1>1. tasks[p] \in Seq(Task) /\ wire[p] \in Seq(Event) /\ k \in Nat \ {0}
  BY SideShape DEF Incoming
<1> PICK ts \in Seq(Task), w \in Seq(Event) : ts = tasks[p] /\ w = wire[p]
  BY <1>1
<1>2. Rising(ts) /\ Before(ts, w)
  BY DEF Order, RowOf, Row
<1> PICK us, l, r : us = Tail(ts) /\ l = Len(ts) /\ r = Len(us)
  OBVIOUS
<1>3. /\ us \in Seq(Task) /\ r = l - 1 /\ First(p) = ts[1]
      /\ \A i \in 1 .. r : us[i] = ts[i + 1]
      /\ l \in Nat \ {0} /\ DOMAIN ts = 1 .. l /\ DOMAIN us = 1 .. r
  BY HeadTailProperties, LenProperties, EmptySeq DEF First
<1>4. 1 \in 1 .. l /\ First(p) \in Elements(ts)
  BY <1>3 DEF Elements
<1>5. First(p) \in Pending(p, m)
  BY <1>4 DEF Pending
<1>6. CASE x \in Elements(us)
  <2> PICK i \in 1 .. r : x = us[i]
    BY <1>3, <1>6 DEF Elements
  <2>1. i + 1 \in 1 .. l /\ 1 < i + 1
    BY ONLY <1>3, i \in 1 .. r
  <2>2. x = ts[i + 1] /\ x \in Elements(ts)
    BY <1>3, <2>1 DEF Elements
  <2>3. x.n = k
    BY <1>5, <2>2 DEF Pending
  <2>4. \A g, h \in 1 .. l : g < h /\ ts[g].n > 0 /\ ts[h].n > 0 => ts[g].n < ts[h].n
    BY <1>2, <1>3 DEF Rising
  <2>5. ts[1].n = k /\ ts[i + 1].n = k
    BY <1>3, <2>2, <2>3
  <2> QED BY ONLY <1>1, <1>4, <2>1, <2>4, <2>5
<1>7. CASE x \in Elements(w)
  <2>1. x.n = k
    BY <1>5, <1>7 DEF Pending
  <2>2. k \in Numbers(ts) /\ k \in Numbers(w)
    BY <1>1, <1>4, <1>7, <2>1 DEF Numbers
  <2>3. k < k
    BY <1>2, <2>2 DEF Before
  <2> QED BY <1>1, <2>3
<1> QED BY <1>6, <1>7

(* The steps of one side again, the page's own one by one.                 *)
Chooses(p) ==
    \/ ConnectFails(p) \/ Leave(p)
    \/ p = "supp" /\ (Probe \/ Request)
    \/ p = "auth" /\ (GetCode \/ Approve \/ Decline)

Turn(p) ==
    \/ Works(p) \/ (p = "supp" /\ Waits4Hello)
    \/ HearFrame(p) \/ HearGone(p) \/ SocketCloses(p)
    \/ (p = "auth" /\ CreateChannel) \/ (p = "supp" /\ JoinChannel) \/ Vanish(p)
    \/ Chooses(p)

LEMMA NextTurn ==
  ASSUME Shape, [Next]_vars
  PROVE  \/ \E p \in Side : Turn(p)
         \/ \E f \in air : RelayFrame(f) \/ PostAck(f) \/ RelayDies(f)
         \/ UNCHANGED vars
<1>1. "auth" \in Side /\ "supp" \in Side
  BY DEF Side
<1>2. PageStep => \E p \in Side : Turn(p)
  BY <1>1 DEF PageStep, Turn, Chooses
<1> QED BY <1>1, <1>2, NextCases DEF Turn

LEMMA TurnElsewhere ==
  ASSUME Shape, Pace, NEW p \in Side, Turn(p), NEW q \in Side, q # p
  PROVE  /\ conn'[q] = conn[q] /\ tasks'[q] = tasks[q] /\ run'[q] = run[q] /\ wire'[q] = wire[q]
         /\ From(q, air') = From(q, air) /\ flow'[q] = flow[q] /\ page'[q] = page[q]
<1>1. CASE ~Chooses(p)
  <2>1. Acting(p)
    BY <1>1 DEF Turn, Acting
  <2> QED BY <2>1, Elsewhere DEF Same
<1>2. CASE Chooses(p)
  <2>1. UNCHANGED <<run, wire, air>>
    BY <1>2 DEF Chooses, ConnectFails, Leave, Probe, Request, GetCode, Approve, Decline
  <2>2. /\ conn \in [Side -> Channel] /\ tasks \in [Side -> Seq(Task)] /\ page \in [Side -> Page]
        /\ flow \in [Side -> {"connect", "probe", "request", "code", "send", "idle"}]
    BY DEF Shape, Typed
  <2>3. conn'[q] = conn[q] /\ tasks'[q] = tasks[q]
    BY <1>2, <2>2 DEF Chooses, ConnectFails, Leave, Probe, Request, GetCode, Approve, Decline, CloseWith
  <2>4. flow'[q] = flow[q] /\ page'[q] = page[q]
    BY <1>2, <2>2 DEF Chooses, ConnectFails, Leave, Probe, Request, GetCode, Approve, Decline, CloseWith, Show
  <2> QED BY <2>1, <2>3, <2>4
<1> QED BY <1>1, <1>2

(* What a message is sent for.                                             *)
LEMMA BeginsSaying ==
  ASSUME Shape, NEW p \in Side, NEW frames, Begins(p, frames), Head(frames) \in Message
  PROVE  run[p] = <<>> /\ Head(tasks[p]) = Send(Head(frames))
<1> PICK t : t = Head(tasks[p])
  OBVIOUS
<1>1. /\ frames \in Seq(What) /\ frames # <<>> /\ tasks[p] # <<>> /\ Alive(p)
      /\ Running(conn[p], tasks[p], run[p]) /\ run[p] \in Seq(What)
      /\ t.do # "recv" => frames = <<t.what>>
      /\ t.do = "recv" /\ frames # <<"alert">> => Elements(frames) \subseteq {"handshake"}
  BY BeginsTyped, SideShape DEF Begins, Sound
<1>2. Head(frames) \in Elements(frames)
  BY <1>1, HeadTail
<1>3. "handshake" \notin Message /\ "alert" \notin Message /\ "close" \notin Message
  BY DEF Message
<1>4. t.do # "recv" /\ t.what = Head(frames)
  BY <1>1, <1>2, <1>3
<1>5. t = Send(Head(frames))
  <2>1. /\ t \in Task
        /\ t.do = "send" => t = Send(t.what)
        /\ t.do = "close" => t = Close
    BY <1>1, FirstTyped DEF First
  <2>2. Close.what = "close"
    BY DEF Close
  <2> QED BY <1>3, <1>4, <2>1, <2>2 DEF Task
<1>6. ~(Len(run[p]) > 1)
  <2> SUFFICES ASSUME Len(run[p]) > 1 PROVE FALSE
    OBVIOUS
  <2>1. \A v : run[p] # <<v>>
    BY LongerThanOne
  <2>2. Len(<<>>) = 0
    OBVIOUS
  <2>3. run[p] # <<>>
    BY <2>2
  <2> QED BY <1>1, <1>4, <2>1, <2>3 DEF Running, Alive
<1> QED BY <1>5, <1>6 DEF Begins, Taken

(* The supplicant asks once: by a task that its flow queues, and that is   *)
(* gone when its frame was acknowledged, or was not.                       *)
LEMMA AskTurn ==
  ASSUME Shape, Pace, Single, Turn("supp")
  PROVE  /\ Early' => Early
         /\ Ask \in Elements(tasks'["supp"]) => Ask \in Elements(tasks["supp"]) \/ (Early /\ ~Early')
         /\ Once(tasks'["supp"], Ask)
         /\ Unsent' => Unsent \/ Early
         /\ \A f \in From("supp", air') : f.what = "request" => f \in air \/ (Unsent /\ ~Unsent')
         /\ conn'["supp"].state = "hello" /\ run'["supp"] # <<>> => flow'["supp"] = "connect"
         /\ page'["supp"] = "complete" =>
               page["supp"] = "complete" \/ Pending("supp", "authorize") # {}
<1> PICK s \in Side : s = "supp"
  BY DEF Side
<1>1. /\ conn[s] \in Channel /\ conn \in [Side -> Channel] /\ run \in [Side -> Seq(What)]
      /\ flow \in [Side -> {"connect", "probe", "request", "code", "send", "idle"}]
      /\ page \in [Side -> Page] /\ run[s] \in Seq(What)
      /\ tasks[s] \in Seq(Task) /\ tasks \in [Side -> Seq(Task)]
      /\ wire[s] \in Seq(Event) /\ wire \in [Side -> Seq(Event)]
      /\ Starting(s, flow[s], conn[s], tasks[s], run[s], wire[s])
      /\ Running(conn[s], tasks[s], run[s]) /\ Elements(<<>>) = {}
  BY SideShape, NoElements DEF Shape, Typed, Sound
<1>2. /\ conn[s].state = "hello" /\ run[s] # <<>> => flow[s] = "connect"
      /\ Before1st(flow[s]) => Ask \notin Elements(tasks[s])
      /\ Once(tasks[s], Ask)
  BY DEF Single, Early
<1>3. /\ Ask \in Task /\ Ask.do = "send" /\ Ask.what = "request" /\ Ask # Close
      /\ Send("metadata") # Ask /\ Send("got it") # Ask
  BY DEF Ask, Send, Close, Task, What, Message
<1> DEFINE Asks ==
       /\ Before1st(flow'[s]) => Before1st(flow[s])
       /\ Ask \in Elements(tasks'[s]) =>
             Ask \in Elements(tasks[s]) \/ (Before1st(flow[s]) /\ ~Before1st(flow'[s]))
       /\ Once(tasks'[s], Ask)
       /\ Unasked(tasks'[s], run'[s]) => Unasked(tasks[s], run[s]) \/ Before1st(flow[s])
       /\ \A f \in From(s, air') : f.what = "request" =>
             f \in air \/ (Unasked(tasks[s], run[s]) /\ ~Unasked(tasks'[s], run'[s]))
       /\ conn'[s].state = "hello" /\ run'[s] # <<>> => flow'[s] = "connect"
       /\ page'[s] = "complete" => page[s] = "complete" \/ Pending(s, "authorize") # {}
<1>4. SUFFICES Asks
  BY DEF Early, Unsent
(* When nothing that matters changes.                                      *)
<1>5. ASSUME tasks'[s] = tasks[s], run'[s] = run[s], UNCHANGED <<flow, air>>,
             conn'[s].state = "hello" => conn[s].state = "hello",
             page'[s] \in {page[s], "error", "left"}
      PROVE  Asks
  BY <1>2, <1>5 DEF From
<1>6. CASE Ends(s) /\ UNCHANGED <<relayed, declined>>
  <2> PICK c \in Channel, more \in Seq(Task), next \in Page, step \in {flow[s], "idle"},
         w \in Seq(Event) :
            /\ Ending(s, c, more, next, step) /\ tasks[s] # <<>> /\ UNCHANGED air
            /\ Acts(s, c, Tail(tasks[s]) \o more, <<>>, w)
    BY ONLY Shape, s \in Side, <1>6, EndsActs
  <2> PICK rest, ts : rest = Tail(tasks[s]) /\ ts = rest \o more
    OBVIOUS
  <2>1. Acts(s, c, ts, <<>>, w)
    OBVIOUS
  <2>2. conn'[s] = c /\ tasks'[s] = ts /\ run'[s] = <<>>
    BY ONLY Shape, s \in Side, <2>1, ActsOne
  <2>3. Becomes(s, c) /\ Answering(s, c, more) /\ flow'[s] = step /\ Shows(s, next) /\ Show(s, next)
    BY <1>1 DEF Ending, Over
  <2>4. /\ rest \in Seq(Task) /\ Elements(tasks[s]) = Elements(rest) \union {Head(tasks[s])}
        /\ Once(rest, Ask) /\ (Head(tasks[s]) = Ask => Ask \notin Elements(rest))
    <3>1. rest \in Seq(Task) /\ Elements(tasks[s]) = Elements(rest) \union {Head(tasks[s])}
      BY <1>1, HeadTail
    <3>2. Once(rest, Ask) /\ (Head(tasks[s]) = Ask => Ask \notin Elements(rest))
      BY <1>1, <1>2, OnceTail
    <3> QED BY <3>1, <3>2
  <2>5. Ask \notin Elements(more)
    BY <1>3, <2>3 DEF Answering
  <2>6. Once(ts, Ask) /\ Elements(ts) = Elements(rest) \union Elements(more)
    BY ONLY <2>4, <2>5, ts = rest \o more, more \in Seq(Task), Joint, OnceJoint
  <2>7. Before1st(step) => Before1st(flow[s])
    BY DEF Before1st
  <2>8. Unasked(ts, <<>>) => Unasked(tasks[s], run[s])
    BY <2>4, <2>5, <2>6 DEF Unasked
  <2>9. page'[s] = "complete" => page[s] = "complete" \/ Pending(s, "authorize") # {}
    <3>1. page'[s] \in {next, "left"}
      BY <2>3, ShowTyped
    <3>2. First(s) \in Elements(tasks[s])
      BY <2>4 DEF First
    <3>3. Sends(s) => First(s).what \in Says(s)
      BY FirstTyped DEF Sends
    <3>4. "authorize" \notin Says(s)
      BY DEF Says
    <3>5. Shows(s, next) /\ next = "complete" => page[s] = "complete" \/ First(s).what = "authorize"
      BY <3>3, <3>4 DEF Shows
    <3> QED BY <2>3, <3>1, <3>2, <3>5 DEF Pending
  <2> QED BY <1>2, <2>2, <2>3, <2>4, <2>5, <2>6, <2>7, <2>8, <2>9 DEF From
<1>7. ASSUME NEW frames, Begins(s, frames) PROVE Asks
  <2> PICK c \in Channel, w \in Seq(Event), f \in Frame :
            /\ c = [conn[s] EXCEPT !.sent = @ + 1]
            /\ Acts(s, c, tasks[s], frames, w)
            /\ f = [from |-> s, n |-> c.sent, what |-> Head(frames), there |-> FALSE]
            /\ air' = IF conn[s].socket = "open" THEN air \union {f} ELSE air
            /\ UNCHANGED <<page, flow, tasks>>
    BY <1>7, BeginsActs
  <2>1. conn'[s] = c /\ run'[s] = frames /\ f.what = Head(frames)
    BY ActsOne
  <2>2. c.state = conn[s].state
    BY <1>1 DEF Channel
  <2>3. frames \in Seq(What) /\ frames # <<>> /\ tasks[s] # <<>> /\ Alive(s)
    BY <1>7, BeginsTyped DEF Begins
  <2>4. ASSUME Head(frames) = "request" PROVE run[s] = <<>> /\ Head(tasks[s]) = Ask
    <3>1. Head(frames) \in Message
      BY <2>4 DEF Message
    <3> QED BY <1>7, <2>4, <3>1, BeginsSaying DEF Ask
  <2>5. ASSUME Head(frames) = "request" PROVE Unasked(tasks[s], run[s]) /\ ~Unasked(tasks[s], frames)
    <3>1. Head(tasks[s]) \in Elements(tasks[s])
      BY <1>1, <2>3, HeadTail
    <3> QED BY <2>3, <2>4, <2>5, <3>1 DEF Unasked
  <2>6. Unasked(tasks[s], frames) => Unasked(tasks[s], run[s])
    BY <2>3 DEF Unasked
  <2>7. conn'[s].state # "hello"
    BY <2>1, <2>2, <2>3 DEF Alive, Live
  <2> QED BY <1>2, <2>1, <2>5, <2>6, <2>7 DEF From
<1>8. ASSUME Drops(s) PROVE Asks
  BY <1>5, <1>8 DEF Drops
<1>9. CASE Waits4Hello
  <2>1. tasks[s] = <<>> /\ tasks' = tasks /\ UNCHANGED air /\ run'[s] = <<>>
    BY <1>1, <1>9 DEF Waits4Hello, Joins, Joined, GivesUp, Starting
  <2>2. Once(<<>>, Ask) /\ ~Unasked(<<>>, <<>>)
    BY <1>1 DEF Once, Unasked
  <2>3. Before1st(flow'[s]) => Before1st(flow[s])
    BY <1>1, <1>2, <1>9 DEF Waits4Hello, Joins, Joined, GivesUp, Before1st, Acknowledged
  <2>4. page'[s] \in {page[s], "error", "left"}
    BY <1>1, <1>9 DEF Waits4Hello, Joins, Joined, GivesUp, Show
  <2> QED BY <1>1, <2>1, <2>2, <2>3, <2>4 DEF From
<1>10. CASE HearFrame(s)
  <2>1. UNCHANGED <<page, flow, conn, run, air>> /\ wire[s] # <<>> /\ Head(wire[s]).what \in What
    BY <1>10 DEF HearFrame
  <2> PICK e : e = Head(wire[s])
    OBVIOUS
  <2>2. e \in Event
    BY <1>1, <2>1, HeadTail
  <2> PICK t : t = [do |-> "recv", what |-> e.what, n |-> e.n]
    OBVIOUS
  <2>3. t \in Task /\ t # Ask
    <3>1. t \in Task /\ t.do = "recv"
      BY <2>1, <2>2 DEF Task, Event
    <3> QED BY <1>3, <3>1
  <2> PICK ts : ts = Append(tasks[s], t)
    OBVIOUS
  <2>4. /\ ts \in Seq(Task) /\ Elements(ts) = Elements(tasks[s]) \union {t}
        /\ Once(ts, Ask)
    BY <1>1, <1>2, <2>3, TaskAdded, OnceAdded
  <2>5. Ask \in Elements(tasks[s]) => Head(ts) = Head(tasks[s])
    <3> SUFFICES ASSUME Ask \in Elements(tasks[s]) PROVE Head(ts) = Head(tasks[s])
      OBVIOUS
    <3>1. tasks[s] # <<>>
      BY <1>1
    <3> QED BY <1>1, <2>3, <3>1, AppendProperties, HeadTailProperties
  <2>6. tasks'[s] \in {tasks[s], ts}
    BY <1>1, <1>10 DEF HearFrame
  <2>7. CASE tasks'[s] = tasks[s]
    BY <1>5, <2>1, <2>7
  <2>8. CASE tasks'[s] = ts
    <3>1. Unasked(ts, run[s]) => Unasked(tasks[s], run[s])
      BY <2>3, <2>4, <2>5 DEF Unasked
    <3> QED BY <1>2, <2>1, <2>3, <2>4, <2>8, <3>1 DEF From
  <2> QED BY <2>6, <2>7, <2>8
<1>11. CASE HearGone(s) \/ SocketCloses(s)
  <2>1. UNCHANGED <<tasks, flow, run, air>>
    BY <1>11 DEF HearGone, SocketCloses
  <2> PICK c : c = conn'[s]
    OBVIOUS
  <2>2. c.state = conn[s].state
    <3>1. c = Shut(conn[s]) \/ c = [conn[s] EXCEPT !.socket = "lost"]
      BY <1>1, <1>11 DEF HearGone, SocketCloses
    <3> QED BY <1>1, <3>1 DEF Shut, Channel
  <2>3. page'[s] \in {page[s], "error", "left"}
    <3>1. CASE HearGone(s)
      BY <1>1, <3>1 DEF HearGone, Show, OnError
    <3>2. CASE SocketCloses(s)
      BY <3>2 DEF SocketCloses
    <3> QED BY <1>11, <3>1, <3>2
  <2> QED BY <1>5, <2>1, <2>2, <2>3
<1>12. CASE JoinChannel
  <2>1. tasks[s] = <<>> /\ tasks' = tasks /\ flow[s] = "connect" /\ UNCHANGED <<page, flow>>
    BY <1>1, <1>12 DEF JoinChannel, Starting
  <2> PICK f : f = [from |-> s, n |-> 1, what |-> "handshake", there |-> FALSE]
    OBVIOUS
  <2>2. air' = air \union {f} /\ f.what # "request"
    BY <1>12 DEF JoinChannel
  <2>3. Once(<<>>, Ask) /\ ~Unasked(<<>>, run'[s])
    BY <1>1 DEF Once, Unasked
  <2> QED BY <1>1, <2>1, <2>2, <2>3 DEF From
<1>13. CASE Vanish(s)
  <2>1. /\ tasks'[s] = <<>> /\ run'[s] = <<>> /\ flow'[s] = "idle" /\ page'[s] = "left"
        /\ UNCHANGED air
    BY <1>1, <1>13 DEF Vanish
  <2>2. Once(<<>>, Ask) /\ ~Unasked(<<>>, <<>>)
    BY <1>1 DEF Once, Unasked
  <2> QED BY <1>1, <2>1, <2>2 DEF From, Before1st
<1>14. CASE ConnectFails(s)
  <2>1. /\ UNCHANGED <<conn, tasks, run, air>> /\ flow'[s] = "idle" /\ conn[s].state = "none"
        /\ page'[s] \in {"error", "left"}
    BY <1>1, <1>14 DEF ConnectFails, Show
  <2> QED BY <1>2, <2>1 DEF From, Before1st
<1>15. CASE Leave(s)
  <2> PICK more : more = Queued(s, <<Close>>)
    OBVIOUS
  <2> PICK b \in BOOLEAN : b = (conn[s].selfClosed \/ Usable(conn[s]))
    BY <1>1 DEF Channel
  <2> PICK c : c = [conn[s] EXCEPT !.selfClosed = b]
    OBVIOUS
  <2>1. more \in Seq(Task) /\ Ask \notin Elements(more)
    <3>1. <<Close>> \in Seq(Task) /\ <<>> \in Seq(Task)
      BY DEF Close, Task, What
    <3> QED BY <1>1, <1>3, <3>1, OneElement DEF Queued
  <2> PICK ts : ts = tasks[s] \o more
    OBVIOUS
  <2>2. Once(ts, Ask) /\ Elements(ts) = Elements(tasks[s]) \union Elements(more)
    BY ONLY <1>1, <1>2, <2>1, ts = tasks[s] \o more, Joint, OnceJoint
  <2>3. Ask \in Elements(tasks[s]) => Head(ts) = Head(tasks[s])
    <3> SUFFICES ASSUME Ask \in Elements(tasks[s]) PROVE Head(ts) = Head(tasks[s])
      OBVIOUS
    <3>1. tasks[s] # <<>>
      BY <1>1
    <3> QED BY <1>1, <2>1, <3>1, HeadTailConcat
  <2>4. /\ tasks'[s] = ts /\ conn'[s] = c /\ UNCHANGED <<flow, run, air>> /\ page'[s] = "left"
        /\ flow[s] = "idle"
    BY <1>1, <1>15 DEF Leave
  <2>5. c.state = conn[s].state
    BY <1>1 DEF Channel
  <2>6. Unasked(ts, run[s]) => Unasked(tasks[s], run[s])
    BY <2>1, <2>2, <2>3 DEF Unasked
  <2> QED BY <1>2, <2>1, <2>2, <2>4, <2>5, <2>6 DEF From
<1>16. CASE Probe
  <2>1. /\ UNCHANGED <<conn, tasks, run, air>> /\ flow[s] = "probe"
        /\ page'[s] \in {page[s], "error", "left"}
    BY <1>1, <1>16 DEF Probe, Show
  <2> QED BY <1>2, <2>1 DEF From, Before1st
<1>17. CASE Request
  <2>1. /\ UNCHANGED <<conn, run, air>> /\ flow[s] = "request" /\ ~Before1st(flow'[s])
        /\ page'[s] \in {page[s], "error", "left"} /\ conn[s].state # "hello"
        /\ tasks'[s] \in {tasks[s], Append(tasks[s], Ask)}
    BY <1>1, <1>17 DEF Request, Show, Before1st, Ask
  <2>2. Before1st(flow[s])
    BY <2>1 DEF Before1st
  <2>3. Once(Append(tasks[s], Ask), Ask)
    BY <1>1, <1>2, <1>3, <2>2, OnceAdded
  <2> QED BY <1>2, <2>1, <2>2, <2>3 DEF From
<1> QED BY <1>6, <1>7, <1>8, <1>9, <1>10, <1>11, <1>12, <1>13, <1>14, <1>15, <1>16, <1>17
        DEF Turn, Works, Chooses

(* The authority answers when its user has approved, who is asked once for *)
(* each request; what bars an answer stays; and a decline bars it.         *)
LEMMA AnswerTurn ==
  ASSUME Shape, Pace, Turn("auth")
  PROVE  /\ Answer \in Elements(tasks'["auth"]) =>
               Answer \in Elements(tasks["auth"]) \/ flow["auth"] = "code"
         /\ flow'["auth"] \in {"code", "send"} =>
               flow["auth"] \in {"code", "send"} \/ (page["auth"] = "confirming" /\ page'["auth"] = "authorizing")
         /\ page'["auth"] \in {"authorizing", "complete"} =>
               \/ page["auth"] \in {"authorizing", "complete"} \/ Answer \in Elements(tasks["auth"])
               \/ (page["auth"] = "confirming" /\ page'["auth"] = "authorizing")
         /\ page'["auth"] \in {"creating-channel", "showing-qr", "confirming"} =>
               \/ page'["auth"] = page["auth"]
               \/ flow["auth"] = "connect" /\ page'["auth"] = "showing-qr"
               \/ /\ tasks["auth"] # <<>> /\ First("auth").what = "request"
                  /\ First("auth") \in Incoming("auth")
                  /\ \A x \in Elements(tasks'["auth"]) \union Elements(wire'["auth"]) :
                        x.what = "request" =>
                           x \in Elements(Tail(tasks["auth"])) \union Elements(wire["auth"])
         /\ flow'["auth"] = "connect" => flow["auth"] = "connect" /\ page'["auth"] = page["auth"]
         /\ \A f \in From("auth", air') : f.what = "authorize" =>
               \/ f \in air
               \/ /\ Answer \in Elements(tasks["auth"])
                  /\ ~Bars(conn["auth"], run["auth"], tasks["auth"])
         /\ conn["auth"].state # "none" => conn'["auth"].state # "none"
         /\ conn["auth"].state # "none" /\ Bars(conn["auth"], run["auth"], tasks["auth"]) =>
               Bars(conn'["auth"], run'["auth"], tasks'["auth"])
         /\ declined' =>
               \/ declined
               \/ /\ page["auth"] \in {"showing-qr", "confirming"} /\ page'["auth"] = "error"
                  /\ conn["auth"].state # "none"
                  /\ Answer \notin Elements(tasks["auth"]) =>
                        Bars(conn'["auth"], run'["auth"], tasks'["auth"])
<1> PICK a \in Side : a = "auth"
  BY DEF Side
<1>1. /\ conn[a] \in Channel /\ conn \in [Side -> Channel] /\ run \in [Side -> Seq(What)]
      /\ flow \in [Side -> {"connect", "probe", "request", "code", "send", "idle"}]
      /\ page \in [Side -> Page] /\ run[a] \in Seq(What) /\ page[a] \in Page
      /\ tasks[a] \in Seq(Task) /\ tasks \in [Side -> Seq(Task)]
      /\ wire[a] \in Seq(Event) /\ wire \in [Side -> Seq(Event)]
      /\ Starting(a, flow[a], conn[a], tasks[a], run[a], wire[a])
      /\ Running(conn[a], tasks[a], run[a])
      /\ Spoken(a, tasks[a], run[a], wire[a])
      /\ flow[a] = "connect" => conn[a].state = "none" /\ tasks[a] = <<>> /\ wire[a] = <<>>
      /\ Elements(<<>>) = {}
  BY SideShape, NoElements DEF Shape, Typed, Sound, Starting
<1>2. /\ Answer \in Task /\ Answer.do = "send" /\ Answer.what = "authorize" /\ Answer # Close
      /\ Close \in Task /\ Close.do = "close" /\ Close.what = "close"
      /\ \A m \in Message : Send(m) \in Task /\ Send(m).do = "send" /\ Send(m).what = m
  BY DEF Answer, Send, Close, Task, What, Message
<1> DEFINE Agrees == page[a] = "confirming" /\ page'[a] = "authorizing"
           Dealt == /\ tasks[a] # <<>> /\ First(a).what = "request" /\ First(a) \in Incoming(a)
                    /\ \A x \in Elements(tasks'[a]) \union Elements(wire'[a]) :
                          x.what = "request" =>
                             x \in Elements(Tail(tasks[a])) \union Elements(wire[a])
           Answers ==
              /\ Answer \in Elements(tasks'[a]) => Answer \in Elements(tasks[a]) \/ flow[a] = "code"
              /\ flow'[a] \in {"code", "send"} => flow[a] \in {"code", "send"} \/ Agrees
              /\ page'[a] \in {"authorizing", "complete"} =>
                    \/ page[a] \in {"authorizing", "complete"} \/ Answer \in Elements(tasks[a])
                    \/ Agrees
              /\ page'[a] \in {"creating-channel", "showing-qr", "confirming"} =>
                    \/ page'[a] = page[a]
                    \/ flow[a] = "connect" /\ page'[a] = "showing-qr"
                    \/ Dealt
              /\ flow'[a] = "connect" => flow[a] = "connect" /\ page'[a] = page[a]
              /\ \A f \in From(a, air') : f.what = "authorize" =>
                    f \in air \/ (Answer \in Elements(tasks[a]) /\ ~Bars(conn[a], run[a], tasks[a]))
              /\ conn[a].state # "none" => conn'[a].state # "none"
              /\ conn[a].state # "none" /\ Bars(conn[a], run[a], tasks[a]) =>
                    Bars(conn'[a], run'[a], tasks'[a])
              /\ declined' =>
                    \/ declined
                    \/ /\ page[a] \in {"showing-qr", "confirming"} /\ page'[a] = "error"
                       /\ conn[a].state # "none"
                       /\ Answer \notin Elements(tasks[a]) => Bars(conn'[a], run'[a], tasks'[a])
<1>3. SUFFICES Answers
  OBVIOUS
<1>4. ASSUME ~Chooses(a)
      PROVE  Deed(a)
  <2>1. Acting(a)
    BY <1>4 DEF Turn, Acting
  <2> QED BY <2>1, ActingAlone DEF Alone
(* What bars an answer, apart from the queue.                              *)
<1>5. ASSUME ~Chooses(a), Hushed(conn[a], run[a]) \/ conn[a].socket = "shut"
      PROVE  Hushed(conn'[a], run'[a]) \/ conn'[a].socket = "shut"
  BY <1>4, <1>5, HushStays DEF Deed, Shuts
(* When nothing that matters changes.                                      *)
<1>6. ASSUME tasks'[a] = tasks[a], UNCHANGED <<flow, air, declined>>,
             conn'[a].state = conn[a].state, ~Chooses(a),
             page'[a] \in {page[a], "error", "left"}, flow[a] = "connect" => page'[a] = page[a]
      PROVE  Answers
  BY <1>5, <1>6 DEF From, Bars
<1>7. CASE Ends(a) /\ UNCHANGED <<relayed, declined>> /\ ~Chooses(a)
  <2> PICK c \in Channel, more \in Seq(Task), next \in Page, step \in {flow[a], "idle"},
         w \in Seq(Event) :
            /\ Ending(a, c, more, next, step) /\ tasks[a] # <<>> /\ UNCHANGED air
            /\ Acts(a, c, Tail(tasks[a]) \o more, <<>>, w) /\ Elements(w) \subseteq Elements(wire[a])
    BY ONLY Shape, a \in Side, <1>7, EndsActs
  <2> PICK rest, ts : rest = Tail(tasks[a]) /\ ts = rest \o more
    OBVIOUS
  <2>1. Acts(a, c, ts, <<>>, w)
    OBVIOUS
  <2>2. conn'[a] = c /\ tasks'[a] = ts /\ run'[a] = <<>> /\ wire'[a] = w
    BY ONLY Shape, a \in Side, <2>1, ActsOne
  <2>3. Becomes(a, c) /\ Answering(a, c, more) /\ flow'[a] = step /\ Shows(a, next) /\ Show(a, next)
    BY <1>1 DEF Ending, Over
  <2>4. /\ rest \in Seq(Task) /\ Elements(tasks[a]) = Elements(rest) \union {Head(tasks[a])}
        /\ First(a) = Head(tasks[a])
    BY <1>1, HeadTail DEF First
  <2>5. Elements(ts) = Elements(rest) \union Elements(more)
    BY ONLY <2>4, ts = rest \o more, more \in Seq(Task), Joint
  <2>6. Elements(more) \subseteq {Send("metadata"), Send("got it"), Close}
    BY <2>3 DEF Answering
  <2>7. /\ Answer \notin Elements(more)
        /\ \A x \in Elements(more) : x.what # "request"
    <3>1. /\ Send("metadata") # Answer /\ Send("metadata").what # "request"
          /\ Send("got it") # Answer /\ Send("got it").what # "request"
      BY DEF Answer, Send
    <3>2. Answer # Close /\ Close.what # "request"
      BY <1>2
    <3> QED BY <2>6, <3>1, <3>2
  <2>8. page'[a] \in {next, "left"}
    BY <2>3, ShowTyped
  <2>9. /\ First(a).do = "recv" => First(a) \in Incoming(a)
        /\ First(a).do = "send" => First(a).what \in Says(a) /\ First(a) = Send(First(a).what)
        /\ First(a).do = "close" => First(a) = Close
    BY FirstTyped
  <2>10. First(a).do = "recv" => First(a).what \notin {"metadata", "authorize"}
    <3>1. \A m \in Frames(Peer(a)) : m \notin {"metadata", "authorize"}
      BY DEF Frames, Says, Peer
    <3> QED BY <2>9, <3>1 DEF Incoming
  <2>11. ASSUME First(a).what = "request", Receives(a) PROVE Dealt
    <3>1. First(a).do = "recv"
      BY <2>11 DEF Receives, Receiving
    <3>2. \A x \in Elements(ts) \union Elements(w) : x.what = "request" =>
             x \in Elements(rest) \union Elements(wire[a])
      BY <2>5, <2>7
    <3> QED BY <2>2, <2>9, <2>11, <3>1, <3>2
  <2>12. /\ next \in {page[a], "error"} \/ next \in {"waiting", "complete", "confirming"}
         /\ next = "complete" => page[a] = "complete" \/ Answer \in Elements(tasks[a])
         /\ next = "confirming" => page[a] = "confirming" \/ Dealt
    <3>1. CASE next \in {page[a], "error"}
      BY <3>1
    <3>2. CASE Sends(a) /\ First(a).what = "request"
      <4>1. First(a).what \notin Says(a)
        BY <3>2 DEF Says
      <4> QED BY <2>9, <3>2, <4>1 DEF Sends
    <3>3. CASE Sends(a) /\ First(a).what = "authorize" /\ next = "complete"
      <4>1. First(a) = Answer
        BY <2>9, <3>3 DEF Sends, Answer
      <4> QED BY <2>4, <3>3, <4>1
    <3>4. CASE Receives(a) /\ First(a).what \in {"request", "metadata"} /\ next = "confirming"
      <4>1. First(a).what = "request"
        BY <2>10, <3>4 DEF Receives, Receiving
      <4> QED BY <2>11, <3>4, <4>1
    <3>5. CASE Receives(a) /\ First(a).what = "authorize"
      BY <2>10, <3>5 DEF Receives, Receiving
    <3> QED BY <2>3, <3>1, <3>2, <3>3, <3>4, <3>5 DEF Shows
  <2>13. Bars(conn[a], run[a], tasks[a]) => Bars(c, <<>>, ts)
    <3>1. CASE Hushed(conn[a], run[a]) \/ conn[a].socket = "shut"
      BY <1>5, <1>7, <2>2, <3>1 DEF Bars
    <3>2. CASE Shielded(tasks[a]) /\ Head(tasks[a]) # Close
      <4>1. rest \in Seq(Task) /\ Shielded(rest)
        BY <1>1, <3>2, ShieldedTail
      <4>2. Shielded(ts)
        BY ONLY <4>1, ts = rest \o more, more \in Seq(Task), ShieldedJoint
      <4> QED BY <4>2 DEF Bars
    <3>3. CASE Head(tasks[a]) = Close
      <4>1. ~Receives(a) /\ ~Closes(a) /\ ~Sends(a)
        BY <1>2, <2>4, <3>3 DEF Receives, Closes, Sends, Receiving
      <4>2. CASE FailsAt(a) \/ Refuses(a)
        <5>1. CASE FailsAt(a)
          BY <1>2, <2>4, <3>3, <5>1 DEF FailsAt, Receiving
        <5>2. CASE Taken(a) /\ Unsendable(a)
          <6>1. Hushed(conn[a], run[a])
            BY <5>2 DEF Unsendable, Hushed
          <6> QED BY <1>5, <1>7, <2>2, <6>1 DEF Bars
        <5>3. CASE InVain(a) /\ EndRefused(a, [conn[a] EXCEPT !.state = "failed"])
          <6> PICK d : d = [conn[a] EXCEPT !.state = "failed"]
            OBVIOUS
          <6>1. d.state = "failed"
            BY <1>1 DEF Channel
          <6>2. conn'[a] = d
            BY <1>1, <5>3 DEF EndRefused, Over
          <6> QED BY <2>2, <6>1, <6>2 DEF Bars, Hushed
        <5> QED BY <4>2, <5>1, <5>2, <5>3 DEF Refuses
      <4>3. CASE Finishes(a)
        <5>1. run[a] # <<>> /\ Alive(a)
          BY <4>3 DEF Finishes, Acknowledged
        <5>2. run[a] = <<"close">>
          BY <1>1, <1>2, <3>3, <5>1 DEF Running, Alive
        <5>3. Hushed(conn[a], run[a])
          BY <5>2 DEF Hushed
        <5> QED BY <1>5, <1>7, <2>2, <5>3 DEF Bars
      <4> QED BY <1>7, <4>1, <4>2, <4>3 DEF Ends
    <3> QED BY <3>1, <3>2, <3>3 DEF Bars
  <2>14. flow[a] # "connect" /\ step # "connect" /\ c.state # "none"
    BY <1>1, <2>3 DEF Becomes
  <2>15. Answer \in Elements(ts) => Answer \in Elements(tasks[a])
    BY <2>4, <2>5, <2>7
  <2> QED BY <1>7, <2>2, <2>3, <2>8, <2>12, <2>13, <2>14, <2>15 DEF From
<1>8. ASSUME NEW frames, Begins(a, frames), ~Chooses(a), UNCHANGED declined PROVE Answers
  <2> PICK c \in Channel, w \in Seq(Event), f \in Frame :
            /\ c = [conn[a] EXCEPT !.sent = @ + 1] /\ c.sent = conn[a].sent + 1
            /\ Acts(a, c, tasks[a], frames, w)
            /\ f = [from |-> a, n |-> c.sent, what |-> Head(frames), there |-> FALSE]
            /\ air' = IF conn[a].socket = "open" THEN air \union {f} ELSE air
            /\ UNCHANGED <<page, flow, tasks>>
    BY <1>8, BeginsActs
  <2>1. conn'[a] = c /\ tasks'[a] = tasks[a] /\ run'[a] = frames /\ f.what = Head(frames)
    BY ActsOne
  <2>2. c.state = conn[a].state
    BY <1>1 DEF Channel
  <2>3. ASSUME Head(frames) = "authorize", conn[a].socket = "open"
        PROVE  Answer \in Elements(tasks[a]) /\ ~Bars(conn[a], run[a], tasks[a])
    <3>1. Head(frames) \in Message
      BY <2>3 DEF Message
    <3>2. Head(tasks[a]) = Answer
      BY <1>8, <2>3, <3>1, BeginsSaying DEF Answer
    <3>3. tasks[a] # <<>>
      BY <1>8 DEF Begins
    <3>4. Answer \in Elements(tasks[a])
      BY <1>1, <3>2, <3>3, HeadTail
    <3>5. ~Shielded(tasks[a])
      BY <1>1, <3>2, ShieldedHead
    <3>6. ~Hushed(conn[a], run[a])
      <4>1. conn[a].sent \in Nat
        BY <1>1 DEF Channel
      <4>2. conn[a].sent + 1 # conn[a].sent
        BY <4>1
      <4> QED BY <1>4, <1>8, <2>1, <4>2, HushStays
    <3> QED BY <2>3, <3>4, <3>5, <3>6 DEF Bars
  <2>4. Bars(conn[a], run[a], tasks[a]) => Bars(c, frames, tasks[a])
    BY <1>5, <1>8, <2>1 DEF Bars
  <2>5. \A g \in From(a, air') : g.what = "authorize" =>
           g \in air \/ (Answer \in Elements(tasks[a]) /\ ~Bars(conn[a], run[a], tasks[a]))
    BY <2>1, <2>3 DEF From
  <2> QED BY <1>8, <2>1, <2>2, <2>4, <2>5
<1>9. ASSUME Drops(a), ~Chooses(a), UNCHANGED declined PROVE Answers
  BY <1>6, <1>9 DEF Drops
<1>10. CASE HearFrame(a) /\ ~Chooses(a)
  <2>1. /\ UNCHANGED <<page, flow, conn, run, air, declined>>
        /\ wire[a] # <<>> /\ Head(wire[a]).what \in What
    BY <1>10 DEF HearFrame
  <2> PICK e : e = Head(wire[a])
    OBVIOUS
  <2>2. e \in Event
    BY <1>1, <2>1, HeadTail
  <2> PICK t : t = [do |-> "recv", what |-> e.what, n |-> e.n]
    OBVIOUS
  <2>3. t \in Task /\ t # Answer
    <3>1. t \in Task /\ t.do = "recv"
      BY <2>1, <2>2 DEF Task, Event
    <3> QED BY <1>2, <3>1
  <2> PICK ts, more : ts = tasks[a] \o more /\ more = <<t>>
    OBVIOUS
  <2>4. more \in Seq(Task) /\ Elements(more) = {t} /\ Append(tasks[a], t) = ts
    <3>1. more \in Seq(Task) /\ Elements(more) = {t}
      BY <2>3, OneElement
    <3>2. Append(tasks[a], t) = tasks[a] \o <<t>>
      BY <1>1, <2>3, Added
    <3> QED BY <3>1, <3>2
  <2>5. Elements(ts) = Elements(tasks[a]) \union {t}
    BY ONLY <1>1, <2>4, ts = tasks[a] \o more, Joint
  <2>6. tasks'[a] \in {tasks[a], ts}
    BY <1>1, <1>10, <2>4 DEF HearFrame
  <2>7. Shielded(tasks[a]) => Shielded(ts)
    BY ONLY <1>1, <2>4, ts = tasks[a] \o more, ShieldedJoint
  <2>8. CASE tasks'[a] = tasks[a]
    BY <1>6, <1>10, <2>1, <2>8
  <2>9. CASE tasks'[a] = ts
    <3>1. Bars(conn[a], run[a], tasks[a]) => Bars(conn[a], run[a], ts)
      BY <2>7 DEF Bars
    <3> QED BY <2>1, <2>3, <2>5, <2>9, <3>1 DEF From
  <2> QED BY <2>6, <2>8, <2>9
<1>11. CASE (HearGone(a) \/ SocketCloses(a)) /\ ~Chooses(a)
  <2>1. UNCHANGED <<tasks, flow, run, air, declined>> /\ flow[a] # "connect"
    <3>1. CASE HearGone(a)
      BY <1>1, <3>1 DEF HearGone, Hears
    <3>2. CASE SocketCloses(a)
      BY <1>1, <3>2 DEF SocketCloses, Starting, NoChannel
    <3> QED BY <1>11, <3>1, <3>2
  <2> PICK c : c = conn'[a]
    OBVIOUS
  <2>2. c.state = conn[a].state
    <3>1. c = Shut(conn[a]) \/ c = [conn[a] EXCEPT !.socket = "lost"]
      BY <1>1, <1>11 DEF HearGone, SocketCloses
    <3> QED BY <1>1, <3>1 DEF Shut, Channel
  <2>3. page'[a] \in {page[a], "error", "left"}
    <3>1. CASE HearGone(a)
      BY <1>1, <3>1 DEF HearGone, Show, OnError
    <3>2. CASE SocketCloses(a)
      BY <3>2 DEF SocketCloses
    <3> QED BY <1>11, <3>1, <3>2
  <2> QED BY <1>6, <1>11, <2>1, <2>2, <2>3
<1>12. CASE CreateChannel
  <2>1. conn[a].state = "none" /\ flow[a] = "connect"
    BY <1>1, <1>12 DEF CreateChannel
  <2> PICK c : c = [NoChannel EXCEPT !.state = "handshake", !.socket = "open", !.heard = TRUE]
    OBVIOUS
  <2>2. /\ conn'[a] = c /\ tasks' = tasks /\ UNCHANGED <<air, declined>> /\ flow'[a] = "idle"
        /\ page'[a] \in {"left", "showing-qr"}
    BY <1>1, <1>12 DEF CreateChannel, Show
  <2>3. c.state # "none"
    BY DEF NoChannel
  <2> QED BY <2>1, <2>2, <2>3 DEF From
<1>13. CASE Vanish(a) /\ ~Chooses(a)
  <2> PICK c : c = [conn[a] EXCEPT !.state = "failed", !.socket = "shut"]
    OBVIOUS
  <2>1. c.state = "failed"
    BY <1>1 DEF Channel
  <2>2. /\ tasks'[a] = <<>> /\ conn'[a] = c /\ flow'[a] = "idle" /\ page'[a] = "left"
        /\ UNCHANGED <<air, declined>>
    BY <1>1, <1>13 DEF Vanish
  <2> QED BY <1>1, <2>1, <2>2 DEF From, Bars, Hushed
<1>14. CASE ConnectFails(a)
  <2>1. /\ UNCHANGED <<conn, tasks, run, air, declined>> /\ flow'[a] = "idle"
        /\ page'[a] \in {"error", "left"}
    BY <1>1, <1>14 DEF ConnectFails, Show
  <2> QED BY <2>1 DEF From
<1>15. ASSUME NEW more \in Seq(Task), NEW c \in Channel,
              tasks'[a] = tasks[a] \o more, conn'[a] = c, run' = run, air' = air,
              c.state = conn[a].state, c.socket = conn[a].socket,
              c.sendClosed = conn[a].sendClosed
       PROVE  /\ Elements(tasks'[a]) = Elements(tasks[a]) \union Elements(more)
              /\ \A f \in From(a, air') : f \in air
              /\ conn[a].state # "none" => conn'[a].state # "none"
              /\ Bars(conn[a], run[a], tasks[a]) => Bars(conn'[a], run'[a], tasks'[a])
  <2> PICK ts : ts = tasks[a] \o more
    OBVIOUS
  <2>1. Elements(ts) = Elements(tasks[a]) \union Elements(more)
    BY ONLY <1>1, ts = tasks[a] \o more, more \in Seq(Task), Joint
  <2>2. Shielded(tasks[a]) => Shielded(ts)
    BY ONLY <1>1, ts = tasks[a] \o more, more \in Seq(Task), ShieldedJoint
  <2> QED BY <1>15, <2>1, <2>2 DEF From, Bars, Hushed
<1>16. ASSUME NEW b, NEW c, c = [conn[a] EXCEPT !.selfClosed = b], b \in BOOLEAN
       PROVE  /\ c \in Channel /\ c.state = conn[a].state /\ c.socket = conn[a].socket
              /\ c.sendClosed = conn[a].sendClosed
  BY <1>1, <1>16 DEF Channel
<1>17. /\ <<Close>> \in Seq(Task) /\ Elements(<<Close>>) = {Close} /\ Answer # Close
       /\ <<>> \in Seq(Task) /\ Elements(<<>>) = {}
  BY <1>2, OneElement, NoElements
<1>18. CASE Leave(a)
  <2> PICK more : more = Queued(a, <<Close>>)
    OBVIOUS
  <2> PICK b \in BOOLEAN : b = (conn[a].selfClosed \/ Usable(conn[a]))
    BY <1>1 DEF Channel
  <2> PICK c : c = [conn[a] EXCEPT !.selfClosed = b]
    OBVIOUS
  <2>1. more \in Seq(Task) /\ Answer \notin Elements(more)
    BY <1>17 DEF Queued
  <2>2. /\ tasks'[a] = tasks[a] \o more /\ conn'[a] = c /\ UNCHANGED <<flow, run, air, declined>>
        /\ page'[a] = "left" /\ flow[a] = "idle"
    BY <1>1, <1>18 DEF Leave
  <2>3. /\ Elements(tasks'[a]) = Elements(tasks[a]) \union Elements(more)
        /\ \A f \in From(a, air') : f \in air
        /\ conn[a].state # "none" => conn'[a].state # "none"
        /\ Bars(conn[a], run[a], tasks[a]) => Bars(conn'[a], run'[a], tasks'[a])
    <3>1. /\ c \in Channel /\ c.state = conn[a].state /\ c.socket = conn[a].socket
          /\ c.sendClosed = conn[a].sendClosed
      BY <1>16
    <3>2. run' = run /\ air' = air
      BY <2>2
    <3> QED BY ONLY <1>15, <2>1, <2>2, <3>1, <3>2
  <2> QED BY <2>1, <2>2, <2>3
<1>19. CASE Approve
  <2>1. /\ UNCHANGED <<conn, tasks, run, air, declined>> /\ flow'[a] = "code" /\ Agrees
    BY <1>1, <1>19 DEF Approve
  <2> QED BY <2>1 DEF From
<1>20. CASE GetCode
  <2>1. /\ UNCHANGED <<conn, run, air, declined>> /\ flow[a] = "code"
        /\ flow'[a] \in {"send", "idle"} /\ page'[a] \in {page[a], "error", "left"}
        /\ tasks'[a] \in {tasks[a], Append(tasks[a], Answer)}
    BY <1>1, <1>20 DEF GetCode, Show, Answer
  <2>2. CASE tasks'[a] = tasks[a]
    BY <2>1, <2>2 DEF From
  <2>3. CASE tasks'[a] = Append(tasks[a], Answer)
    <3> PICK more : more = <<Answer>>
      OBVIOUS
    <3>1. more \in Seq(Task) /\ Append(tasks[a], Answer) = tasks[a] \o more
      BY <1>1, <1>2, Added
    <3>2. /\ \A f \in From(a, air') : f \in air
          /\ conn[a].state # "none" => conn'[a].state # "none"
          /\ Bars(conn[a], run[a], tasks[a]) => Bars(conn'[a], run'[a], tasks'[a])
      BY <1>1, <1>15, <2>1, <2>3, <3>1
    <3> QED BY <2>1, <3>2
  <2> QED BY <2>1, <2>2, <2>3
<1>21. CASE Decline
  <2> PICK sends : sends \in {<<>>, <<Send("cancel"), Send("decline")>>} /\ CloseWith(sends)
    BY <1>21 DEF Decline
  <2> PICK all : all = <<Close>> \o sends
    OBVIOUS
  <2> PICK more : more = Queued(a, all)
    OBVIOUS
  <2> PICK b \in BOOLEAN : b = (conn[a].selfClosed \/ Usable(conn[a]))
    BY <1>1 DEF Channel
  <2> PICK c : c = [conn[a] EXCEPT !.selfClosed = b]
    OBVIOUS
  <2>1. sends \in Seq(Task) /\ Answer \notin Elements(sends)
    <3>1. "cancel" \in Message /\ "decline" \in Message
      BY DEF Message
    <3>2. <<Send("cancel"), Send("decline")>> \in Seq(Task)
      BY <1>2, <3>1
    <3>3. Elements(<<Send("cancel"), Send("decline")>>) = {Send("cancel"), Send("decline")}
      BY DEF Elements
    <3>4. Send("cancel") # Answer /\ Send("decline") # Answer
      BY DEF Answer, Send
    <3>5. CASE sends = <<>>
      BY <1>1, <3>5
    <3>6. CASE sends = <<Send("cancel"), Send("decline")>>
      BY <3>2, <3>3, <3>4, <3>6
    <3> QED BY <3>5, <3>6
  <2>2. all \in Seq(Task) /\ Elements(all) = Elements(sends) \union {Close}
    <3> PICK last : last = <<Close>>
      OBVIOUS
    <3>1. last \in Seq(Task) /\ Elements(last) = {Close} /\ all = last \o sends
      BY <1>17
    <3> QED BY ONLY <2>1, <3>1, Joint
  <2>3. more \in Seq(Task) /\ Answer \notin Elements(more)
    BY <1>17, <2>1, <2>2 DEF Queued
  <2>4. /\ tasks'[a] = tasks[a] \o more /\ conn'[a] = c /\ UNCHANGED <<flow, run, air>>
        /\ page'[a] = "error" /\ page[a] # "left" /\ conn[a].state # "none"
        /\ declined' = (declined \/ page[a] \in {"showing-qr", "confirming"})
    BY <1>1, <1>21 DEF Decline, CloseWith, Show
  <2>5. /\ Elements(tasks'[a]) = Elements(tasks[a]) \union Elements(more)
        /\ \A f \in From(a, air') : f \in air
        /\ conn[a].state # "none" => conn'[a].state # "none"
        /\ Bars(conn[a], run[a], tasks[a]) => Bars(conn'[a], run'[a], tasks'[a])
    <3>1. /\ c \in Channel /\ c.state = conn[a].state /\ c.socket = conn[a].socket
          /\ c.sendClosed = conn[a].sendClosed
      BY <1>16
    <3>2. run' = run /\ air' = air
      BY <2>4
    <3> QED BY ONLY <1>15, <2>3, <2>4, <3>1, <3>2
  <2>6. ASSUME Answer \notin Elements(tasks[a]) PROVE Bars(conn'[a], run'[a], tasks'[a])
    <3>1. CASE conn[a].socket = "shut"
      BY <1>16, <2>4, <3>1 DEF Bars
    <3>2. CASE conn[a].socket # "shut"
      <4>1. Usable(conn[a])
        BY <1>1, <2>4, <3>2 DEF Usable, Channel, Starting
      <4>2. Close \in Elements(tasks'[a]) /\ Answer \notin Elements(tasks'[a])
        BY <2>2, <2>3, <2>5, <2>6, <4>1 DEF Queued
      <4>3. tasks'[a] \in Seq(Task)
        <5> PICK ts : ts = tasks[a] \o more
          OBVIOUS
        <5>1. ts \in Seq(Task)
          BY ONLY <1>1, <2>3, ts = tasks[a] \o more, Joint
        <5> QED BY <2>4, <5>1
      <4>4. Shielded(tasks'[a])
        BY <4>2, <4>3, ShieldedSure
      <4> QED BY <4>4 DEF Bars
    <3> QED BY <3>1, <3>2
  <2>7. flow[a] # "connect"
    BY <1>1, <2>4
  <2> QED BY <2>3, <2>4, <2>5, <2>6, <2>7
<1>22. CASE ~Chooses(a)
  BY <1>7, <1>8, <1>9, <1>10, <1>11, <1>12, <1>13, <1>22 DEF Turn, Works
<1> QED BY <1>14, <1>18, <1>19, <1>20, <1>21, <1>22 DEF Chooses

LEMMA NextSingle ==
  ASSUME Shape, Pace, Goodbye, Single, [Next]_vars
  PROVE  Single' /\ (Ahead' => Ahead)
<1> PICK a \in Side, s \in Side : a = "auth" /\ s = "supp"
  BY DEF Side
<1> DEFINE Early1 == Before1st(flow'[s])
           Unsent1 == Unasked(tasks'[s], run'[s])
           Flown1 == \E f \in From(s, air') : f.what = "request" /\ ~f.there
           Pend1 == {x \in Elements(tasks'[a]) \union Elements(wire'[a]) : x.what = "request"}
           Good == /\ conn'[s].state = "hello" /\ run'[s] # <<>> => flow'[s] = "connect"
                   /\ Early1 => Ask \notin Elements(tasks'[s])
                   /\ Once(tasks'[s], Ask)
                   /\ Early1 \/ Unsent1 => ~Flown1
                   /\ Early1 \/ Unsent1 \/ Flown1 => Pend1 = {}
                   /\ \A x, y \in Pend1 : x.n = y.n
                   /\ Early1 \/ Unsent1 \/ Flown1 \/ Pend1 # {} => Ahead
<1>1. SUFFICES Good
  BY DEF Single, Ahead, Early, Unsent, Flown, Pending
<1> HIDE DEF Early1, Unsent1, Flown1, Pend1
<1>2. /\ conn[s].state = "hello" /\ run[s] # <<>> => flow[s] = "connect"
      /\ Early => Ask \notin Elements(tasks[s]) /\ ~Unsent
      /\ Once(tasks[s], Ask)
      /\ Early \/ Unsent => ~Flown(s, "request")
      /\ Early \/ Unsent \/ Flown(s, "request") => Pending(a, "request") = {}
      /\ \A x, y \in Pending(a, "request") : x.n = y.n
      /\ Early = Before1st(flow[s]) /\ Unsent = Unasked(tasks[s], run[s])
  BY DEF Single, Early, Unsent, Unasked
<1>3. Ahead = (Early \/ Unsent \/ Flown(s, "request") \/ Pending(a, "request") # {})
  BY DEF Ahead
(* The supplicant stays as it was, and nothing comes to the authority.     *)
<1>4. ASSUME conn'[s] = conn[s], run'[s] = run[s], tasks'[s] = tasks[s], flow'[s] = flow[s],
             Flown1 => Flown(s, "request"),
             \A x \in Pend1 : \E y \in Pending(a, "request") : y.n = x.n
      PROVE  Good
  <2>1. Early1 = Early /\ Unsent1 = Unsent
    BY <1>2, <1>4 DEF Early1, Unsent1
  <2>2. Pending(a, "request") = {} => Pend1 = {}
    BY <1>4
  <2>3. \A x, y \in Pend1 : x.n = y.n
    BY <1>2, <1>4
  <2> QED BY <1>2, <1>3, <1>4, <2>1, <2>2, <2>3
<1>5. CASE \E f \in air : RelayFrame(f)
  <2> PICK f \in air : RelayFrame(f)
    BY <1>5
  <2> PICK p \in Side, e \in Event :
            /\ f.from = p /\ Peer(p) \in Side /\ Peer(p) # p /\ Peer(Peer(p)) = p
            /\ e.what = f.what
            /\ UNCHANGED <<conn, tasks, run>> /\ wire'[p] = wire[p]
            /\ wire'[Peer(p)] = IF conn[Peer(p)].socket = "open" THEN Append(wire[Peer(p)], e)
                                ELSE wire[Peer(p)]
            /\ ~Flies(From(p, air')) /\ From(Peer(p), air') = From(Peer(p), air)
    BY RelayActs
  <2>1. UNCHANGED <<conn, tasks, run, flow>>
    BY DEF RelayFrame
  <2>2. CASE p = a
    <3>1. Peer(p) = s
      BY <2>2 DEF Peer
    <3>2. Flown1 => Flown(s, "request")
      BY <3>1 DEF Flown, Flown1
    <3>3. Pend1 = Pending(a, "request")
      BY <2>1, <2>2 DEF Pending, Pend1
    <3> QED BY <1>4, <2>1, <3>2, <3>3
  <2>3. CASE p = s
    <3>1. Peer(p) = a
      BY <2>3 DEF Peer
    <3>2. ~Flown1
      BY <2>3 DEF Flies, Flown1
    <3>3. wire[a] \in Seq(Event)
      BY SideShape
    <3>4. Elements(wire'[a]) \subseteq Elements(wire[a]) \union {e}
      BY <3>1, <3>3, EventAdded
    <3>5. CASE f.what = "request"
      <4>1. Flown(s, "request")
        BY <2>3, <3>5 DEF Flown, From, RelayFrame
      <4>2. Pending(a, "request") = {} /\ ~Early /\ ~Unsent
        BY <1>2, <4>1
      <4>3. \A x \in Pend1 : x = e
        BY <2>1, <3>4, <4>2 DEF Pending, Pend1
      <4>4. ~Early1 /\ ~Unsent1
        BY <1>2, <2>1, <4>2 DEF Early1, Unsent1
      <4> QED BY <1>2, <1>3, <2>1, <3>2, <4>1, <4>3, <4>4
    <3>6. CASE f.what # "request"
      <4>1. \A x \in Pend1 : x \in Pending(a, "request")
        BY <2>1, <3>4, <3>6 DEF Pending, Pend1
      <4> QED BY <1>4, <2>1, <3>2, <4>1
    <3> QED BY <3>5, <3>6
  <2> QED BY <2>2, <2>3 DEF Side
<1>6. CASE \A p \in Side : Deed(p)
  <2>1. \A x \in Pend1 : \E y \in Pending(a, "request") : y.n = x.n
    <3>1. "request" \notin Says(a) \union {"close", "ack", "gone"}
      BY DEF Says
    <3>2. Deals(a)
      BY <1>6 DEF Deed
    <3> QED BY <3>1, <3>2, PendingDeals DEF Pend1
  <2>2. CASE Turn(s)
    <3>1. /\ Early1 => Early
          /\ Ask \in Elements(tasks'[s]) => Ask \in Elements(tasks[s]) \/ (Early /\ ~Early1)
          /\ Once(tasks'[s], Ask)
          /\ Unsent1 => Unsent \/ Early
          /\ \A f \in From(s, air') : f.what = "request" => f \in air \/ (Unsent /\ ~Unsent1)
          /\ conn'[s].state = "hello" /\ run'[s] # <<>> => flow'[s] = "connect"
      BY <2>2, AskTurn DEF Early, Unsent, Early1, Unsent1
    <3>2. Flown1 => Flown(s, "request") \/ (Unsent /\ ~Unsent1)
      BY <3>1 DEF Flown, From, Flown1
    <3>3. tasks'[a] = tasks[a] /\ wire'[a] = wire[a]
      BY <2>2, TurnElsewhere
    <3>4. Pend1 = Pending(a, "request")
      BY <3>3 DEF Pending, Pend1
    <3> QED BY <1>2, <1>3, <3>1, <3>2, <3>4
  <2>3. CASE Turn(a)
    <3>1. /\ conn'[s] = conn[s] /\ run'[s] = run[s] /\ tasks'[s] = tasks[s] /\ flow'[s] = flow[s]
          /\ From(s, air') = From(s, air)
      BY <2>3, TurnElsewhere
    <3>2. Flown1 => Flown(s, "request")
      BY <3>1 DEF Flown, Flown1
    <3> QED BY <1>4, <2>1, <3>1, <3>2
  <2>4. CASE \E f \in air : PostAck(f) \/ RelayDies(f)
    <3>1. UNCHANGED <<conn, tasks, run, flow>> /\ air' \subseteq air
      BY <2>4 DEF PostAck, RelayDies
    <3>2. Flown1 => Flown(s, "request")
      BY <3>1 DEF Flown, From, Flown1
    <3> QED BY <1>4, <2>1, <3>1, <3>2
  <2>5. CASE UNCHANGED vars
    BY <1>4, <2>1, <2>5 DEF vars, Flown, Flown1
  <2> QED BY <1>5, <2>2, <2>3, <2>4, <2>5, NextTurn DEF Side
<1> QED BY <1>5, <1>6, NextDeeds

LEMMA NextDecision ==
  ASSUME Shape, Pace, Goodbye, Order, Single, Decision, [Next]_vars
  PROVE  Decision'
<1> PICK a \in Side, s \in Side : a = "auth" /\ s = "supp"
  BY DEF Side
<1>1. /\ Ahead => page[a] # "confirming" /\ ~Approved
      /\ page[a] \in {"creating-channel", "showing-qr", "confirming"} => ~Approved
      /\ flow[a] = "connect" => page[a] = "creating-channel"
      /\ declined => /\ page[s] # "complete" /\ ~Granted /\ conn[a].state # "none"
                     /\ Bars(conn[a], run[a], tasks[a])
  BY DEF Decision
<1> DEFINE Decided ==
         /\ Ahead' => page'[a] # "confirming" /\ ~Approved'
         /\ page'[a] \in {"creating-channel", "showing-qr", "confirming"} => ~Approved'
         /\ flow'[a] = "connect" => page'[a] = "creating-channel"
         /\ declined' => /\ page'[s] # "complete" /\ ~Granted' /\ conn'[a].state # "none"
                         /\ Bars(conn'[a], run'[a], tasks'[a])
<1>2. SUFFICES Decided
  BY DEF Decision
<1>3. Ahead' => Ahead
  BY NextSingle
<1>4. /\ Approved = \/ flow[a] \in {"code", "send"} \/ page[a] \in {"authorizing", "complete"}
                    \/ Answer \in Elements(tasks[a]) \/ Granted \/ page[s] = "complete"
      /\ Approved' = \/ flow'[a] \in {"code", "send"} \/ page'[a] \in {"authorizing", "complete"}
                     \/ Answer \in Elements(tasks'[a]) \/ Granted' \/ page'[s] = "complete"
  BY DEF Approved
<1>5. /\ Granted = \/ \E f \in From(a, air) : f.what = "authorize" /\ ~f.there
                   \/ \E x \in Elements(tasks[s]) \union Elements(wire[s]) : x.what = "authorize"
      /\ Granted' = \/ \E f \in From(a, air') : f.what = "authorize" /\ ~f.there
                    \/ \E x \in Elements(tasks'[s]) \union Elements(wire'[s]) : x.what = "authorize"
  BY DEF Granted, Flown, Pending
(* The authority stays as it was.                                          *)
<1>6. ASSUME conn'[a] = conn[a], run'[a] = run[a], tasks'[a] = tasks[a], flow'[a] = flow[a],
             page'[a] = page[a], declined' = declined, Granted' => Granted,
             page'[s] = "complete" => page[s] = "complete" \/ Granted
      PROVE  Decided
  <2>1. Approved' => Approved
    BY <1>4, <1>6
  <2> QED BY <1>1, <1>3, <1>6, <2>1
<1>7. "authorize" \notin Says(s) \union {"close", "ack", "gone"}
  BY DEF Says
<1>8. CASE \E f \in air : RelayFrame(f)
  <2> PICK f \in air : RelayFrame(f)
    BY <1>8
  <2> PICK p \in Side, e \in Event :
            /\ f.from = p /\ Peer(p) \in Side /\ Peer(p) # p /\ Peer(Peer(p)) = p
            /\ e.what = f.what
            /\ UNCHANGED <<conn, tasks, run>> /\ wire'[p] = wire[p]
            /\ wire'[Peer(p)] = IF conn[Peer(p)].socket = "open" THEN Append(wire[Peer(p)], e)
                                ELSE wire[Peer(p)]
            /\ ~Flies(From(p, air')) /\ From(Peer(p), air') = From(Peer(p), air)
    BY RelayActs
  <2>1. UNCHANGED <<conn, tasks, run, flow, page, declined>> /\ ~f.there
    BY DEF RelayFrame
  <2>2. CASE p = a
    <3>1. Peer(p) = s
      BY <2>2 DEF Peer
    <3>2. wire[s] \in Seq(Event)
      BY SideShape
    <3>3. Elements(wire'[s]) \subseteq Elements(wire[s]) \union {e}
      BY <3>1, <3>2, EventAdded
    <3>4. f.what = "authorize" => Granted
      BY <1>5, <2>1, <2>2 DEF From
    <3>5. ~\E g \in From(a, air') : g.what = "authorize" /\ ~g.there
      BY <2>2 DEF Flies
    <3>6. tasks'[s] = tasks[s]
      OBVIOUS
    <3>7. Granted' => Granted
      BY <1>5, <3>3, <3>4, <3>5, <3>6
    <3> QED BY <1>6, <2>1, <3>7
  <2>3. CASE p = s
    <3>1. Peer(p) = a
      BY <2>3 DEF Peer
    <3>2. From(a, air') = From(a, air) /\ tasks'[s] = tasks[s] /\ wire'[s] = wire[s]
      BY <2>3, <3>1
    <3>3. Granted' => Granted
      BY <1>5, <3>2
    <3> QED BY <1>6, <2>1, <3>3
  <2> QED BY <2>2, <2>3 DEF Side
<1>9. CASE \A p \in Side : Deed(p)
  <2>1. ASSUME \A f \in From(a, air') : f.what = "authorize" /\ ~f.there => f \in From(a, air)
        PROVE  Granted' => Granted
    <3> SUFFICES ASSUME ~Granted PROVE ~Granted'
      OBVIOUS
    <3>1. Pending(s, "authorize") = {}
      BY <1>5 DEF Pending
    <3>2. Deals(s)
      BY <1>9 DEF Deed
    <3>3. \A x \in Elements(tasks'[s]) \union Elements(wire'[s]) : x.what # "authorize"
      BY <1>7, <3>1, <3>2, PendingNothing
    <3> QED BY <1>5, <2>1, <3>3
  <2>2. CASE Turn(s)
    <3>1. /\ conn'[a] = conn[a] /\ run'[a] = run[a] /\ tasks'[a] = tasks[a]
          /\ flow'[a] = flow[a] /\ page'[a] = page[a] /\ From(a, air') = From(a, air)
      BY <2>2, TurnElsewhere
    <3>2. declined' = declined
      BY <2>2 DEF Turn, Works, Waits4Hello, HearFrame, HearGone, SocketCloses, JoinChannel, Vanish,
                  Chooses, ConnectFails, Leave, Probe, Request
    <3>3. page'[s] = "complete" => page[s] = "complete" \/ Granted
      <4>1. page'[s] = "complete" => page[s] = "complete" \/ Pending(s, "authorize") # {}
        BY <2>2, AskTurn
      <4> QED BY <4>1 DEF Granted
    <3> QED BY <1>6, <2>1, <3>1, <3>2, <3>3
  <2>3. CASE Turn(a)
    <3>1. page'[s] = page[s] /\ tasks'[s] = tasks[s] /\ wire'[s] = wire[s]
      BY <2>3, TurnElsewhere
    <3>2. /\ Answer \in Elements(tasks'[a]) => Answer \in Elements(tasks[a]) \/ flow[a] = "code"
          /\ flow'[a] \in {"code", "send"} =>
                flow[a] \in {"code", "send"} \/ (page[a] = "confirming" /\ page'[a] = "authorizing")
          /\ page'[a] \in {"authorizing", "complete"} =>
                \/ page[a] \in {"authorizing", "complete"} \/ Answer \in Elements(tasks[a])
                \/ (page[a] = "confirming" /\ page'[a] = "authorizing")
          /\ flow'[a] = "connect" => flow[a] = "connect" /\ page'[a] = page[a]
          /\ conn[a].state # "none" => conn'[a].state # "none"
          /\ conn[a].state # "none" /\ Bars(conn[a], run[a], tasks[a]) =>
                Bars(conn'[a], run'[a], tasks'[a])
      BY <2>3, AnswerTurn
    <3>3. page'[a] \in {"creating-channel", "showing-qr", "confirming"} =>
             \/ page'[a] = page[a]
             \/ flow[a] = "connect" /\ page'[a] = "showing-qr"
             \/ Ahead /\ ~Ahead'
      <4> SUFFICES ASSUME page'[a] \in {"creating-channel", "showing-qr", "confirming"},
                          page'[a] # page[a], ~(flow[a] = "connect" /\ page'[a] = "showing-qr")
                   PROVE  Ahead /\ ~Ahead'
        OBVIOUS
      <4>1. /\ tasks[a] # <<>> /\ First(a).what = "request" /\ First(a) \in Incoming(a)
            /\ \A x \in Elements(tasks'[a]) \union Elements(wire'[a]) :
                  x.what = "request" => x \in Elements(Tail(tasks[a])) \union Elements(wire[a])
        BY <2>3, AnswerTurn
      <4>2. First(a) \in Pending(a, "request")
        <5>1. First(a) \in Elements(tasks[a])
          BY <4>1, SideShape, HeadTail DEF First
        <5> QED BY <4>1, <5>1 DEF Pending
      <4>3. /\ ~Early /\ ~Unsent /\ ~Flown(s, "request")
            /\ \A x, y \in Pending(a, "request") : x.n = y.n
        BY <4>2 DEF Single
      <4>4. \A x \in Elements(Tail(tasks[a])) \union Elements(wire[a]) : x.what # "request"
        BY <4>1, <4>3, PendingLast
      <4>5. \A x \in Elements(tasks'[a]) \union Elements(wire'[a]) : x.what # "request"
        BY <4>1, <4>4
      <4>6. /\ flow'[s] = flow[s] /\ tasks'[s] = tasks[s] /\ run'[s] = run[s]
            /\ From(s, air') = From(s, air)
        BY <2>3, TurnElsewhere
      <4>7. ~Ahead'
        <5>1. /\ ~Before1st(flow'[s]) /\ ~Unasked(tasks'[s], run'[s])
              /\ ~\E f \in From(s, air') : f.what = "request" /\ ~f.there
          BY <4>3, <4>6 DEF Early, Unsent, Flown
        <5> QED BY <4>5, <5>1 DEF Ahead, Early, Unsent, Flown, Pending
      <4> QED BY <4>2, <4>7 DEF Ahead
    <3>4. /\ Granted' => Granted \/ Answer \in Elements(tasks[a])
          /\ Bars(conn[a], run[a], tasks[a]) /\ Granted' => Granted
      <4>1. \A f \in From(a, air') : f.what = "authorize" =>
               f \in air \/ (Answer \in Elements(tasks[a]) /\ ~Bars(conn[a], run[a], tasks[a]))
        BY <2>3, AnswerTurn
      <4>2. CASE Answer \in Elements(tasks[a]) /\ ~Bars(conn[a], run[a], tasks[a])
        BY <4>2
      <4>3. CASE \A f \in From(a, air') : f.what = "authorize" => f \in air
        <5>1. Granted' => Granted
          BY <2>1, <4>3 DEF From
        <5> QED BY <5>1
      <4> QED BY <4>1, <4>2, <4>3
    <3>5. declined' =>
             \/ declined
             \/ /\ page[a] \in {"showing-qr", "confirming"} /\ page'[a] = "error"
                /\ conn[a].state # "none"
                /\ Answer \notin Elements(tasks[a]) => Bars(conn'[a], run'[a], tasks'[a])
      BY <2>3, AnswerTurn
    <3>6. Approved' => Approved \/ (page[a] = "confirming" /\ page'[a] = "authorizing")
      BY <1>4, <3>1, <3>2, <3>4
    <3>7. /\ Ahead' => page'[a] # "confirming" /\ ~Approved'
          /\ page'[a] \in {"creating-channel", "showing-qr", "confirming"} => ~Approved'
          /\ flow'[a] = "connect" => page'[a] = "creating-channel"
      BY <1>1, <1>3, <3>2, <3>3, <3>6
    <3>8. ASSUME declined'
          PROVE  /\ page'[s] # "complete" /\ ~Granted' /\ conn'[a].state # "none"
                 /\ Bars(conn'[a], run'[a], tasks'[a])
      <4>1. CASE declined
        BY <1>1, <3>1, <3>2, <3>4, <4>1
      <4>2. CASE ~declined
        <5>1. /\ page[a] \in {"showing-qr", "confirming"} /\ page'[a] = "error"
              /\ conn[a].state # "none"
              /\ Answer \notin Elements(tasks[a]) => Bars(conn'[a], run'[a], tasks'[a])
          BY <3>5, <3>8, <4>2
        <5>2. ~Approved /\ ~Approved'
          BY <1>1, <3>6, <5>1
        <5>3. Answer \notin Elements(tasks[a]) /\ ~Granted' /\ page'[s] # "complete"
          BY <1>4, <5>2
        <5> QED BY <3>2, <5>1, <5>3
      <4> QED BY <4>1, <4>2
    <3> QED BY <3>7, <3>8
  <2>4. CASE \E f \in air : PostAck(f) \/ RelayDies(f)
    <3>1. UNCHANGED <<conn, tasks, run, flow, page, declined>> /\ air' \subseteq air
      BY <2>4 DEF PostAck, RelayDies
    <3>2. Granted' => Granted
      BY <2>1, <3>1 DEF From
    <3> QED BY <1>6, <3>1, <3>2
  <2>5. CASE UNCHANGED vars
    <3>1. Granted' => Granted
      BY <2>1, <2>5 DEF vars
    <3> QED BY <1>6, <2>5, <3>1 DEF vars
  <2> QED BY <1>8, <2>2, <2>3, <2>4, <2>5, NextTurn DEF Side
<1> QED BY <1>8, <1>9, NextDeeds

LEMMA InitDecision == Init => Single /\ Decision
<1> SUFFICES ASSUME Init PROVE Single /\ Decision
  OBVIOUS
<1>1. /\ tasks["auth"] = <<>> /\ tasks["supp"] = <<>> /\ wire["auth"] = <<>> /\ wire["supp"] = <<>>
      /\ run["auth"] = <<>> /\ run["supp"] = <<>> /\ air = {} /\ declined = FALSE
      /\ flow["auth"] = "connect" /\ flow["supp"] = "connect"
      /\ page["auth"] = "creating-channel" /\ page["supp"] = "connecting"
      /\ Elements(<<>>) = {}
  BY NoElements DEF Init, Side
<1>2. /\ Pending("auth", "request") = {} /\ Pending("supp", "authorize") = {}
      /\ ~Flown("supp", "request") /\ ~Flown("auth", "authorize")
  BY <1>1 DEF Pending, Flown, From
<1>3. Once(<<>>, Ask)
  BY DEF Once
<1>4. Single
  BY <1>1, <1>2, <1>3 DEF Single, Early, Unsent, Unasked
<1>5. ~Approved
  BY <1>1, <1>2 DEF Approved, Granted
<1> QED BY <1>1, <1>4, <1>5 DEF Decision

(* A pairing that the user declined before approving it does not go        *)
(* through, for any number of faults.  The page of the supplicant asks     *)
(* once, so as long as the authority may still be asked nothing was        *)
(* approved; a decline closes the channel ahead of any answer, and nothing *)
(* is sent after a close (channel.close, handleDecline).                   *)
THEOREM DeclinedStaysDeclined == Spec => []DeclineHolds
<1>1. Shape /\ Pace /\ Goodbye /\ Order /\ Single /\ Decision /\ [Next]_vars =>
         Single' /\ Decision'
  BY NextSingle, NextDecision
<1>2. Decision => DeclineHolds
  BY DEF Decision, DeclineHolds
<1> QED BY <1>1, <1>2, InitDecision, OrderHolds, PTL DEF Spec
=============================================================================
