------------------------ MODULE ChannelRequirements -------------------------
(***************************************************************************)
(* What the pairing relay has to guarantee.                                *)
(***************************************************************************)
EXTENDS ChannelService

Members(ch) == IF channel[ch] = None THEN {} ELSE ToSet(channel[ch].connections)

\* The type invariant, and the two limits the conditional updates keep however
\* many invocations run: MAX_CONNECTIONS_PER_CHANNEL, MAX_MESSAGES_PER_CHANNEL.
TypeOK ==
  /\ channel \in [Channels -> Channel \cup {None}]
  /\ \A ch \in Channels : channel[ch] # None =>
       /\ Len(channel[ch].connections) <= MaxConnections
       /\ channel[ch].messageCount <= MaxMessages
  /\ lookup \in [Connections -> Channels \cup {None}]
  /\ minted \subseteq Channels
  /\ socket \in [Connections -> Sockets]
  /\ chanid \in [Connections -> Channels \cup {None}]
  /\ sent \in [Connections -> Nat] /\ acked \in [Connections -> Nat]
  /\ refused \subseteq Connections
  /\ got \in [Connections -> [Connections -> Seq(Nat)]]
  /\ events \subseteq Event
  /\ handler \in [Workers -> Handler]
  /\ failures \in Nat

\* "Ack the sender after the relay so the client sends one frame at a time,
\* preserving order": whoever receives frames of a sender receives them in
\* order, each once and with no gap.
FramesInOrder ==
  \A c, s \in Connections : \A i \in 2 .. Len(got[c][s]) :
    got[c][s][i] = got[c][s][i - 1] + 1

\* An acknowledged frame reached everyone who was already receiving from its
\* sender and is still connected and on the list.
AckedWasRelayed ==
  \A c, s \in Connections :
    (/\ c # s /\ got[c][s] # <<>> /\ socket[c] = "open"
     /\ lookup[c] # None /\ c \in Members(lookup[c]))
      => Last(got[c][s]) >= acked[s]

\* "Delete reverse lookup first (idempotent guard against double-disconnect)":
\* the clean-up after a connection takes no other connection off the list.
RemovesOnlyTheLeaving ==
  [][\A w \in Workers, ch \in Channels :
       DropIndex(w) => Members(ch) \ Members(ch)' \subseteq {handler[w].leaving}]_vars

\* A frame is acknowledged or refused, unless its sender hangs up; but only as
\* long as no invocation fails: nobody sends the frame or its ack again.
FrameSettled ==
  \A c \in Connections :
    sent[c] > acked[c] ~> sent[c] = acked[c] \/ c \in refused \/ socket[c] = "closed"
=============================================================================
