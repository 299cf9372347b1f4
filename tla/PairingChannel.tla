--------------------------- MODULE PairingChannel ---------------------------
(***************************************************************************)
(* The browser side of pairing: two pages, the authority that shows a QR   *)
(* code and the supplicant that scanned it, each with a PairingChannel     *)
(* (lib/pairing-channel/index.ts) over a TLS connection with a pre-shared  *)
(* key (tlsconnection.ts, states.ts, recordlayer.ts) over a WebSocket to   *)
(* the relay of module ChannelService.                                     *)
(*                                                                         *)
(* One action is one event of a browser's event loop with everything that  *)
(* runs until the next wait.  Frames have the number they have in their    *)
(* direction.  Keys and ciphers only matter in that a frame out of its     *)
(* order is not understood.                                                *)
(***************************************************************************)
EXTENDS Naturals, Sequences

CONSTANT MaxFaults      \* a bound: what goes wrong in a behaviour

ASSUME FaultsAssumption == MaxFaults \in Nat

VARIABLES
    page,       \* what the user sees; "left" once the component is unmounted
    flow,       \* where initConnection, initChannel or handleApprove waits
    conn,       \* the channel, its TLS state and its socket
    tasks,      \* the _synchronized queue of each connection
    run,        \* frames its first task has to send; the first one is sent
    wire,       \* events on the way to each page
    air,        \* frames at the relay, one Lambda invocation each
    relayed,    \* of the request and the answer, what was relayed so far
    declined,   \* the user declined before approving, so far
    faults      \* what went wrong, so far

vars == <<page, flow, conn, tasks, run, wire, air, relayed, declined, faults>>

Side == {"auth", "supp"}
Peer(p) == IF p = "auth" THEN "supp" ELSE "auth"

Message == {"request", "metadata", "authorize", "got it", "cancel", "decline"}
What == Message \union {"handshake", "close", "alert"}

Page ==
    {"creating-channel", "showing-qr", "connecting", "waiting", "confirming",
     "authorizing", "complete", "error", "left"}

Event == [what : What \union {"ack", "gone"}, n : Nat]
Task == [do : {"recv", "send", "close"}, what : What, n : Nat]

(* "hello" waits for the relay's answer to the ClientHello before there is *)
(* a PairingChannel; heard is whether the page has attached its listeners. *)
Channel ==
    [state : {"none", "hello", "handshake", "connected", "failed"},
     socket : {"none", "open", "lost", "shut"},
     sent : Nat, got : Nat, heard : BOOLEAN,
     selfClosed : BOOLEAN, sendClosed : BOOLEAN, peerClosed : BOOLEAN]

NoChannel ==
    [state |-> "none", socket |-> "none", sent |-> 0, got |-> 0, heard |-> FALSE,
     selfClosed |-> FALSE, sendClosed |-> FALSE, peerClosed |-> FALSE]

Init ==
    /\ page = [p \in Side |-> IF p = "auth" THEN "creating-channel" ELSE "connecting"]
    /\ flow = [p \in Side |-> "connect"]
    /\ conn = [p \in Side |-> NoChannel]
    /\ tasks = [p \in Side |-> <<>>]
    /\ run = [p \in Side |-> <<>>]
    /\ wire = [p \in Side |-> <<>>]
    /\ air = {}
    /\ relayed = {}
    /\ declined = FALSE
    /\ faults = 0

(* Something goes wrong. *)
Fails == faults < MaxFaults /\ faults' = faults + 1

(* There is a channel object, and it has not been shut down. *)
Usable(c) == c.state \in {"handshake", "connected", "failed"} /\ c.socket # "shut"

Show(p, step) == page' = [page EXCEPT ![p] = IF @ = "left" THEN @ ELSE step]

Send(m) == [do |-> "send", what |-> m, n |-> 0]
Close == [do |-> "close", what |-> "close", n |-> 0]

(* channel.send and channel.close: into the queue, or a TypeError when the *)
(* connection is gone.  A send waits for "connected" first, if only for a  *)
(* microtask, and a close does not: of what one handler starts and does    *)
(* not wait for, the close is ahead, in whichever order it is written.     *)
Queued(p, ts) == IF Usable(conn[p]) THEN ts ELSE <<>>

(* socket.send: a closed socket discards what it is given. *)
Transmit(p, what) ==
    air' = IF conn[p].socket # "open" THEN air
           ELSE air \union {[from |-> p, n |-> conn[p].sent + 1, what |-> what,
                             there |-> FALSE]}

(***************************************************************************)
(* Opening the channel                                                     *)
(***************************************************************************)
(* The relay's first message: ServerConnection.create sends nothing, and   *)
(* the page attaches its listeners at once.                                *)
CreateChannel ==
    /\ flow["auth"] = "connect"
    /\ conn' = [conn EXCEPT !["auth"] =
                   [NoChannel EXCEPT !.state = "handshake", !.socket = "open", !.heard = TRUE]]
    /\ Show("auth", "showing-qr")
    /\ flow' = [flow EXCEPT !["auth"] = "idle"]
    /\ UNCHANGED <<tasks, run, wire, air, relayed, declined, faults>>

(* A slip: the ClientHello's ack is not waited for. *)
JoinUnawaited ==
    /\ flow["supp"] = "connect" /\ conn["supp"].state = "none"
    /\ conn["auth"].state # "none"
    /\ conn' = [conn EXCEPT !["supp"] =
                   [NoChannel EXCEPT !.state = "handshake", !.socket = "open", !.sent = 1]]
    /\ run' = [run EXCEPT !["supp"] = <<"handshake">>]
    /\ flow' = [flow EXCEPT !["supp"] = "probe"]
    /\ air' = air \union {[from |-> "supp", n |-> 1, what |-> "handshake", there |-> FALSE]}
    /\ UNCHANGED <<page, tasks, wire, relayed, declined, faults>>

(* ClientConnection.create sends the ClientHello and waits for its ack. *)
JoinChannel ==
    /\ flow["supp"] = "connect" /\ conn["supp"].state = "none"
    /\ conn["auth"].state # "none"
    /\ conn' = [conn EXCEPT !["supp"] =
                   [NoChannel EXCEPT !.state = "hello", !.socket = "open", !.sent = 1]]
    /\ run' = [run EXCEPT !["supp"] = <<"handshake">>]
    /\ air' = air \union {[from |-> "supp", n |-> 1, what |-> "handshake", there |-> FALSE]}
    /\ UNCHANGED <<page, flow, tasks, wire, relayed, declined, faults>>

(* No first message within CHANNEL_HANDSHAKE_TIMEOUT_MS, or the socket     *)
(* closes before.                                                          *)
ConnectFails(p) ==
    /\ flow[p] = "connect" /\ conn[p].state = "none"
    /\ Show(p, "error")
    /\ flow' = [flow EXCEPT ![p] = "idle"]
    /\ UNCHANGED <<conn, tasks, run, wire, air, relayed, declined, faults>>

(* getPairingOAuthParams has answered, or its ten seconds are over.        *)
(* channel.send then waits for the TLS connection, without a time limit.   *)
Probe ==
    /\ flow["supp"] = "probe"
    /\ IF Usable(conn["supp"])
          THEN flow' = [flow EXCEPT !["supp"] = "request"] /\ UNCHANGED page
          ELSE flow' = [flow EXCEPT !["supp"] = "idle"] /\ Show("supp", "error")
    /\ UNCHANGED <<conn, tasks, run, wire, air, relayed, declined, faults>>

Request ==
    /\ flow["supp"] = "request"
    /\ \/ /\ conn["supp"].state = "connected"
          /\ tasks' = [tasks EXCEPT !["supp"] = Append(@, Send("request"))]
          /\ flow' = [flow EXCEPT !["supp"] = "send"]
          /\ UNCHANGED page
       \/ /\ conn["supp"].state = "failed"
          /\ Show("supp", "error")
          /\ flow' = [flow EXCEPT !["supp"] = "idle"]
          /\ UNCHANGED tasks
    /\ UNCHANGED <<conn, run, wire, air, relayed, declined, faults>>

(***************************************************************************)
(* What users do                                                           *)
(***************************************************************************)
Approve ==
    /\ page["auth"] = "confirming" /\ flow["auth"] = "idle"
    /\ page' = [page EXCEPT !["auth"] = "authorizing"]
    /\ flow' = [flow EXCEPT !["auth"] = "code"]
    /\ UNCHANGED <<conn, tasks, run, wire, air, relayed, declined, faults>>

(* The keys are wrapped and the OAuth code is there, or something failed. *)
GetCode ==
    /\ flow["auth"] = "code"
    /\ \/ /\ Usable(conn["auth"])
          /\ tasks' = [tasks EXCEPT !["auth"] = Append(@, Send("authorize"))]
          /\ flow' = [flow EXCEPT !["auth"] = "send"]
          /\ UNCHANGED page
       \/ /\ Show("auth", "error")
          /\ flow' = [flow EXCEPT !["auth"] = "idle"]
          /\ UNCHANGED tasks
    /\ UNCHANGED <<conn, run, wire, air, relayed, declined, faults>>

(* A slip: the channel is left open. *)
DeclineOnly(sends) ==
    /\ Show("auth", "error")
    /\ UNCHANGED <<conn, tasks>>

(* channel.close sets _selfClosed at once.  The sends come after it and    *)
(* are refused.                                                            *)
CloseWith(sends) ==
    /\ Show("auth", "error")
    /\ conn' = [conn EXCEPT !["auth"].selfClosed = @ \/ Usable(conn["auth"])]
    /\ tasks' = [tasks EXCEPT !["auth"] = @ \o Queued("auth", <<Close>> \o sends)]

(* handleDecline, or fxaccounts:pair_decline, which may come at any time;  *)
(* only the first one is followed.                                         *)
Decline ==
    /\ conn["auth"].state # "none" /\ page["auth"] # "left" /\ ~conn["auth"].selfClosed
    /\ \/ page["auth"] = "confirming" /\ CloseWith(<<Send("cancel"), Send("decline")>>)
       \/ CloseWith(<<>>)
    /\ declined' = (declined \/ page["auth"] \in {"showing-qr", "confirming"})
    /\ UNCHANGED <<flow, run, wire, air, relayed, faults>>

(* The component is unmounted while it waits for nothing. *)
Leave(p) ==
    /\ page[p] # "left" /\ flow[p] = "idle"
    /\ Fails
    /\ page' = [page EXCEPT ![p] = "left"]
    /\ conn' = [conn EXCEPT ![p].selfClosed = @ \/ Usable(conn[p])]
    /\ tasks' = [tasks EXCEPT ![p] = @ \o Queued(p, <<Close>>)]
    /\ UNCHANGED <<flow, run, wire, air, relayed, declined>>

(* The document goes: reloaded, closed, or on to sign-in. *)
Vanish(p) ==
    /\ page[p] # "left" \/ conn[p].socket = "open"
    /\ Fails
    /\ page' = [page EXCEPT ![p] = "left"]
    /\ flow' = [flow EXCEPT ![p] = "idle"]
    /\ conn' = [conn EXCEPT ![p] = [@ EXCEPT !.state = "failed", !.socket = "shut"]]
    /\ tasks' = [tasks EXCEPT ![p] = <<>>]
    /\ run' = [run EXCEPT ![p] = <<>>]
    /\ wire' = [wire EXCEPT ![p] = <<>>]
    /\ UNCHANGED <<air, relayed, declined>>

(***************************************************************************)
(* The task at the head of the queue                                       *)
(***************************************************************************)
First(p) == Head(tasks[p])
Ready(p) == tasks[p] # <<>> /\ run[p] = <<>>

(* The task is over: the channel becomes c, other tasks follow, the page   *)
(* shows a step.                                                           *)
Over(p, c, more, step) ==
    /\ conn' = [conn EXCEPT ![p] = c]
    /\ tasks' = [tasks EXCEPT ![p] = Tail(@) \o more]
    /\ run' = [run EXCEPT ![p] = <<>>]
    /\ Show(p, step)

(* The events that a channel dispatches to its page. *)
OnError(p) == IF conn[p].heard THEN "error" ELSE page[p]

OnClose(p) ==
    IF conn[p].heard /\ page[p] \in {"showing-qr", "waiting", "confirming"}
       THEN "error" ELSE page[p]

OnMessage(p, m) ==
    CASE ~conn[p].heard -> page[p]
      [] conn[p].heard /\ m \in {"request", "metadata"} -> "confirming"
      [] conn[p].heard /\ m = "authorize" -> "complete"
      [] conn[p].heard /\ m \in {"cancel", "decline"} -> "error"
      [] OTHER -> page[p]

(* What its listeners start, in the order of the queue: the answer to      *)
(* "authorize" is refused after the close.  The supplicant page is ready   *)
(* for "cancel" and "decline", which the authority page never gets out.    *)
Reaction(p, m) ==
    CASE ~conn[p].heard -> <<>>
      [] conn[p].heard /\ m = "request" -> <<Send("metadata")>>
      [] conn[p].heard /\ m = "authorize" -> <<Close, Send("got it")>>
      [] conn[p].heard /\ m \in {"cancel", "decline"} -> <<Close>>
      [] OTHER -> <<>>

Shut(c) == [c EXCEPT !.socket = "shut"]

(* TLSCloseNotify: the peer's, or one's own when something has to be sent  *)
(* after it.                                                               *)
EndClosed(p) ==
    LET c == [conn[p] EXCEPT !.peerClosed = TRUE]
    IN  Over(p, IF c.selfClosed THEN Shut(c) ELSE c, <<>>, OnClose(p))

(* Any other error: the alert was sent if it could be. *)
EndFailed(p) == Over(p, [conn[p] EXCEPT !.state = "failed"], <<>>, OnError(p))

(* A handshake message or an application message was dealt with. *)
EndReceived(p) ==
    LET t == First(p)
        c == [conn[p] EXCEPT !.got = t.n]
    IN  IF t.what = "handshake"
           THEN Over(p, IF t.n = 3 THEN [c EXCEPT !.state = "connected"] ELSE c, <<>>, page[p])
           ELSE LET more == Reaction(p, t.what)
                    closes == more # <<>> /\ Head(more) = Close
                IN  Over(p, [c EXCEPT !.selfClosed = @ \/ (closes /\ Usable(c))],
                         Queued(p, more), OnMessage(p, t.what))

(* Whoever waits for a message to be sent. *)
Waits(p, m) == flow[p] = "send" /\ m \in {"request", "authorize"}

(* A slip: the listeners come to nothing. *)
EndSentUnheard(p) ==
    LET m == First(p).what
    IN  /\ Over(p, conn[p], <<>>,
                CASE m = "request" -> "waiting"
                  [] m = "authorize" -> "complete"
                  [] OTHER -> page[p])
        /\ flow' = [flow EXCEPT ![p] = IF Waits(p, m) THEN "idle" ELSE @]

(* The supplicant page attaches its listeners when its request was         *)
(* acknowledged.                                                           *)
EndSent(p) ==
    LET m == First(p).what
    IN  /\ Over(p, IF m = "request" THEN [conn[p] EXCEPT !.heard = TRUE] ELSE conn[p], <<>>,
                CASE m = "request" -> "waiting"
                  [] m = "authorize" -> "complete"
                  [] OTHER -> page[p])
        /\ flow' = [flow EXCEPT ![p] = IF Waits(p, m) THEN "idle" ELSE @]

EndClosing(p) ==
    LET c == [conn[p] EXCEPT !.sendClosed = TRUE]
    IN  Over(p, IF c.peerClosed THEN Shut(c) ELSE c, <<>>, page[p])

(* The send or the close throws; closes and most sends ignore it. *)
EndRefused(p, c) ==
    LET m == First(p).what
    IN  /\ Over(p, c, <<>>, IF Waits(p, m) THEN "error" ELSE page[p])
        /\ flow' = [flow EXCEPT ![p] = IF Waits(p, m) THEN "idle" ELSE @]

(* What a handshake message is answered with: ServerHello, the change of   *)
(* cipher and the rest; a change of cipher; Finished.                      *)
Flight(p, n) ==
    CASE p = "auth" /\ n = 1 -> <<"handshake", "handshake", "handshake">>
      [] p = "supp" /\ n \in {1, 3} -> <<"handshake">>
      [] OTHER -> <<>>

(* A frame of a connection that is still good, in its order. *)
Understood(p) ==
    /\ Ready(p) /\ First(p).do = "recv"
    /\ conn[p].state # "failed" /\ ~conn[p].peerClosed
    /\ First(p).n = conn[p].got + 1 /\ First(p).what # "alert"

Begin(p, frames) ==
    /\ run' = [run EXCEPT ![p] = frames]
    /\ Transmit(p, frames[1])
    /\ conn' = [conn EXCEPT ![p].sent = @ + 1]
    /\ UNCHANGED <<page, tasks, flow>>

ReceiveHandshake(p) ==
    /\ Understood(p) /\ First(p).what = "handshake"
    /\ LET frames == Flight(p, First(p).n)
       IN  \/ frames = <<>> /\ EndReceived(p) /\ UNCHANGED <<air, flow>>
           \/ frames # <<>> /\ conn[p].sendClosed /\ EndClosed(p) /\ UNCHANGED <<air, flow>>
           \/ frames # <<>> /\ ~conn[p].sendClosed /\ Begin(p, frames)
    /\ UNCHANGED <<wire, relayed, declined, faults>>

ReceiveMessage(p) ==
    /\ Understood(p) /\ First(p).what \in Message
    /\ EndReceived(p)
    /\ UNCHANGED <<flow, wire, air, relayed, declined, faults>>

ReceiveClose(p) ==
    /\ Ready(p) /\ First(p).do = "recv" /\ conn[p].state # "failed"
    /\ conn[p].peerClosed \/ (Understood(p) /\ First(p).what = "close")
    /\ EndClosed(p)
    /\ UNCHANGED <<flow, wire, air, relayed, declined, faults>>

(* Out of order, an alert, or a connection that has failed before. *)
ReceiveBad(p) ==
    /\ Ready(p) /\ First(p).do = "recv" /\ ~Understood(p)
    /\ conn[p].state = "failed" \/ ~conn[p].peerClosed
    /\ IF conn[p].state = "failed" \/ conn[p].sendClosed
          THEN EndFailed(p) /\ UNCHANGED <<air, flow>>
          ELSE Begin(p, <<"alert">>)
    /\ UNCHANGED <<wire, relayed, declined, faults>>

Unsendable(p) == conn[p].state = "failed" \/ conn[p].sendClosed

(* A slip: sending does not wait for the ack. *)
SendAndForget(p) ==
    /\ Ready(p) /\ First(p).do \in {"send", "close"}
    /\ IF Unsendable(p) THEN EndRefused(p, conn[p]) /\ UNCHANGED air
       ELSE IF First(p).do = "send" THEN EndSent(p) /\ Transmit(p, First(p).what)
       ELSE Begin(p, <<"close">>)
    /\ UNCHANGED <<wire, relayed, declined, faults>>

SendOrClose(p) ==
    /\ Ready(p) /\ First(p).do \in {"send", "close"}
    /\ IF Unsendable(p) THEN EndRefused(p, conn[p]) /\ UNCHANGED air
       ELSE Begin(p, <<First(p).what>>)
    /\ UNCHANGED <<wire, relayed, declined, faults>>

(***************************************************************************)
(* Events of the socket                                                    *)
(***************************************************************************)
Hears(p, what) == wire[p] # <<>> /\ Head(wire[p]).what = what
Heard(p) == wire' = [wire EXCEPT ![p] = Tail(@)]

(* The last frame of the task was acknowledged. *)
Accomplished(p) ==
    LET t == First(p)
    IN  CASE t.do = "send" -> EndSent(p)
          [] t.do = "close" -> EndClosing(p) /\ UNCHANGED flow
          [] t.do = "recv" /\ run[p] = <<"alert">> -> EndFailed(p) /\ UNCHANGED flow
          [] t.do = "recv" /\ run[p] # <<"alert">> -> EndReceived(p) /\ UNCHANGED flow

(* The ClientHello was acknowledged: now there is a channel, and someone   *)
(* listens to the socket.                                                  *)
Joined ==
    /\ conn' = [conn EXCEPT !["supp"].state = "handshake"]
    /\ run' = [run EXCEPT !["supp"] = <<>>]
    /\ flow' = [flow EXCEPT !["supp"] = "probe"]
    /\ UNCHANGED <<page, tasks, air>>

(* The next frame goes out, or the task is over; an ack that nobody waits  *)
(* for any more is dropped.                                                *)
HearAck(p) ==
    /\ Hears(p, "ack") /\ Heard(p)
    /\ \/ run[p] = <<>> /\ UNCHANGED <<page, flow, conn, tasks, run, air>>
       \/ Len(run[p]) > 1 /\ Begin(p, Tail(run[p]))
       \/ Len(run[p]) = 1 /\ conn[p].state = "hello" /\ Joined
       \/ Len(run[p]) = 1 /\ conn[p].state # "hello" /\ Accomplished(p) /\ UNCHANGED air
    /\ UNCHANGED <<relayed, declined, faults>>

(* A frame for a socket nobody listens to is lost. *)
HearFrame(p) ==
    /\ wire[p] # <<>> /\ Head(wire[p]).what \in What /\ Heard(p)
    /\ tasks' = IF Usable(conn[p])
                   THEN [tasks EXCEPT ![p] = Append(@, [do |-> "recv", what |-> Head(wire[p]).what,
                                                        n |-> Head(wire[p]).n])]
                   ELSE tasks
    /\ UNCHANGED <<page, flow, conn, run, air, relayed, declined, faults>>

(* A slip: the page is not told. *)
HearGoneQuietly(p) ==
    /\ Hears(p, "gone") /\ Heard(p)
    /\ conn' = [conn EXCEPT ![p] = Shut(@)]
    /\ UNCHANGED <<page, flow, tasks, run, air, relayed, declined, faults>>

(* The socket's close event. *)
HearGone(p) ==
    /\ Hears(p, "gone") /\ Heard(p)
    /\ conn' = [conn EXCEPT ![p] = Shut(@)]
    /\ Show(p, IF Usable(conn[p]) /\ ~conn[p].peerClosed THEN OnError(p) ELSE page[p])
    /\ UNCHANGED <<flow, tasks, run, air, relayed, declined, faults>>

(* A slip: after ACK_TIMEOUT_MS the next one goes on regardless. *)
GoOn(p) ==
    /\ run[p] # <<>> /\ conn[p].state # "hello"
    /\ IF Len(run[p]) > 1 THEN Begin(p, Tail(run[p])) ELSE Accomplished(p) /\ UNCHANGED air
    /\ UNCHANGED <<wire, relayed, declined, faults>>

(* The relay's answer is still on its way. *)
Late(p) ==
    \/ \E f \in air : f.from = p
    \/ \E i \in 1..Len(wire[p]) : wire[p][i].what = "ack"

(* ACK_TIMEOUT_MS are over.  The alert that tells the peer waits for the   *)
(* same ack and is not sent, nor is anything after it.                     *)
AckTimeout(p) ==
    /\ run[p] # <<>>
    /\ IF Late(p) THEN Fails ELSE UNCHANGED faults
    /\ IF conn[p].state = "hello"
          THEN /\ Show(p, "error")
               /\ flow' = [flow EXCEPT ![p] = "idle"]
               /\ run' = [run EXCEPT ![p] = <<>>]
               /\ UNCHANGED <<conn, tasks>>
          ELSE IF First(p).do = "recv" THEN EndFailed(p) /\ UNCHANGED flow
          ELSE EndRefused(p, [conn[p] EXCEPT !.state = "failed"])
    /\ UNCHANGED <<wire, air, relayed, declined>>

(***************************************************************************)
(* The relay: it posts a frame to the peer, then an ack to its sender, or  *)
(* dies before either.                                                     *)
(***************************************************************************)
Post(p, e) ==
    wire' = IF conn[p].socket = "open" THEN [wire EXCEPT ![p] = Append(@, e)] ELSE wire

RelayFrame(f) ==
    /\ ~f.there
    /\ Post(Peer(f.from), [what |-> f.what, n |-> f.n])
    /\ relayed' = relayed \union ({f.what} \intersect {"request", "authorize"})
    /\ air' = (air \ {f}) \union {[f EXCEPT !.there = TRUE]}
    /\ UNCHANGED <<page, flow, conn, tasks, run, declined, faults>>

PostAck(f) ==
    /\ f.there
    /\ Post(f.from, [what |-> "ack", n |-> 0])
    /\ air' = air \ {f}
    /\ UNCHANGED <<page, flow, conn, tasks, run, relayed, declined, faults>>

RelayDies(f) ==
    /\ Fails
    /\ air' = air \ {f}
    /\ UNCHANGED <<page, flow, conn, tasks, run, wire, relayed, declined>>

SocketCloses(p) ==
    /\ conn[p].socket = "open"
    /\ conn' = [conn EXCEPT ![p].socket = "lost"]
    /\ wire' = [wire EXCEPT ![p] = Append(@, [what |-> "gone", n |-> 0])]
    /\ UNCHANGED <<page, flow, tasks, run, air, relayed, declined>>

(* The network breaks a connection at any time; the gateway closes those   *)
(* that are idle.                                                          *)
NetworkBreaks(p) == SocketCloses(p) /\ Fails

GatewayCloses(p) ==
    /\ air = {}
    /\ \A q \in Side : wire[q] = <<>> /\ tasks[q] = <<>> /\ run[q] = <<>>
    /\ SocketCloses(p) /\ UNCHANGED faults

Open == CreateChannel \/ JoinChannel \/ \E p \in Side : ConnectFails(p)

Receive(p) == ReceiveHandshake(p) \/ ReceiveMessage(p) \/ ReceiveClose(p) \/ ReceiveBad(p)

Work(p) == Receive(p) \/ SendOrClose(p) \/ HearAck(p) \/ HearFrame(p) \/ HearGone(p)

User == Approve \/ Decline \/ \E p \in Side : Leave(p) \/ Vanish(p)

Relay == \E f \in air : RelayFrame(f) \/ PostAck(f) \/ RelayDies(f)

Next ==
    \/ Open \/ Probe \/ Request \/ GetCode
    \/ User
    \/ \E p \in Side : Work(p) \/ AckTimeout(p)
    \/ \E p \in Side : NetworkBreaks(p) \/ GatewayCloses(p)
    \/ Relay

(* Event loops run, timers fire, the OAuth server answers or not, so does  *)
(* an invocation of the relay, and the gateway closes idle connections.    *)
(* Nobody has to do anything.                                              *)
Fairness ==
    /\ WF_vars(CreateChannel \/ ConnectFails("auth"))
    /\ WF_vars(GetCode)
    /\ WF_vars(Relay)
    /\ \A p \in Side : WF_vars(Work(p)) /\ WF_vars(AckTimeout(p)) /\ WF_vars(GatewayCloses(p))

Spec == Init /\ [][Next]_vars /\ Fairness

(***************************************************************************)
(* Properties                                                              *)
(***************************************************************************)
(* Every variable has its type, and whoever waits for the ack of a frame   *)
(* has the task it belongs to: no ack, early, late or lost, makes a        *)
(* connection send for a task that is over (tlsconnection.ts:106).         *)
TypeOK ==
    /\ page \in [Side -> Page]
    /\ flow \in [Side -> {"connect", "probe", "request", "code", "send", "idle"}]
    /\ conn \in [Side -> Channel]
    /\ \A p \in Side :
          /\ tasks[p] \in Seq(Task) /\ run[p] \in Seq(What) /\ wire[p] \in Seq(Event)
          /\ run[p] # <<>> => tasks[p] # <<>> \/ conn[p].state = "hello"
    /\ \A f \in air : f.from \in Side /\ f.n \in Nat /\ f.what \in What
    /\ relayed \subseteq {"request", "authorize"}
    /\ declined \in BOOLEAN
    /\ faults \in 0..MaxFaults

(* What a page has not dealt with yet; the frames among it have numbers.   *)
Coming(p) == tasks[p] \o wire[p]

(* "waiting for each ack guarantees the peer sees frames in order"         *)
(* (index.ts:92): what a page has not dealt with yet are frames with       *)
(* consecutive numbers, although each is relayed by an invocation of its   *)
(* own, which may still be at it when the sender stops waiting.            *)
SeenInOrder ==
    \A p \in Side : \A i, j \in 1..Len(Coming(p)) :
        /\ i < j /\ Coming(p)[i].n > 0 /\ Coming(p)[j].n > 0
        /\ \A k \in (i + 1)..(j - 1) : Coming(p)[k].n = 0
        => Coming(p)[j].n = Coming(p)[i].n + 1

(* A page that goes on because a message was sent is right: the relay has  *)
(* posted it, whatever acks came late or not at all.                       *)
DoneMeansRelayed ==
    /\ page["auth"] = "complete" => "authorize" \in relayed
    /\ page["supp"] \in {"waiting", "confirming", "complete"} => "request" \in relayed

(* A pairing that the user declined before approving it does not go        *)
(* through, even when the request comes afterwards and the page asks       *)
(* again: the channel sends nothing after its close.                       *)
DeclineHolds == declined => page["supp"] # "complete"

Settled(p) == page[p] \in {"complete", "error", "left"}
AsksInVain(p) == page[p] = "confirming" /\ conn[p].socket = "shut"

(* "If the supplicant never finishes, end on a terminal error rather than  *)
(* spin" (PairAuthorityPage.tsx:150): the authority page always ends,      *)
(* whatever the supplicant, the relay, the network and the user do.  One   *)
(* case is left out: a request that was being decrypted when the socket    *)
(* went asks the user on a channel that is gone.                           *)
AuthoritySettles == ~Settled("auth") /\ ~AsksInVain("auth") ~> Settled("auth")

Waiting(p) == page[p] \in {"waiting", "confirming"}

(* The supplicant page that waits ends too, unless the other side closed   *)
(* the channel before the page had attached its listeners.                 *)
SupplicantSettles ==
    Waiting("supp") /\ ~conn["supp"].peerClosed /\ ~AsksInVain("supp") ~> Settled("supp")
=============================================================================
