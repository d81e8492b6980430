----------------------------- MODULE HidMessages -----------------------------
(***************************************************************************)
(* What CTAPHIDDevice promises about the packets it receives, without its  *)
(* receive buffers: which frames go to the server, and how each packet is  *)
(* answered, is read off the log of everything received so far.            *)
(*                                                                         *)
(* A message on a channel is an initial packet and the continuation        *)
(* packets it needs: in order, with no other packet on the channel between *)
(* them, no pause of INACTIVITY after one that a later packet could        *)
(* notice, and no closing of the last handle.  Packets on other channels   *)
(* do not matter.                                                          *)
(*                                                                         *)
(* Byte k of the packet that is entry i of the log is <<i, k>>, so no two  *)
(* packets carry the same bytes.                                           *)
(***************************************************************************)
EXTENDS Integers, SequencesExt

CONSTANTS
  Channels,       \* channel identifiers
  BROADCAST,      \* BROADCAST_CHANNEL
  InFirst,        \* payload bytes of a received initial packet: 57
  InNext,         \* payload bytes of a received continuation packet: 59
  NonceLength,    \* bytes of an INIT request: 8
  INACTIVITY,     \* INACTIVITY_CLEANUP_SECONDS
  MAX_CONNECTIONS \* MAX_SIMULTANEOUS_CONNECTIONS

VARIABLES
  log,       \* packets received, and closings of the last handle
  relayed,   \* frames given to the transport
  answers    \* for each message sent to the host: after which entry, where, what

messageVars == <<log, relayed, answers>>

----------------------------------------------------------------------------
(* Messages in a log l. *)

IsStart(e) == e.kind = "initial" /\ e.cmd # "unknown"

\* The packets that concern the message under way on channel c.  An initial
\* packet with an unknown command is answered and forgotten.
Concerns(e, c) == e.ch = c /\ (IsStart(e) \/ e.kind = "next")

\* The packets since the last initial one on channel c, up to entry j.
Parts(l, c, j) ==
  {k \in 1 .. j : /\ Concerns(l[k], c)
                  /\ \A i \in k + 1 .. j : ~(l[i].ch = c /\ IsStart(l[i]))}

\* Nothing between entries p and j makes the message of p forgotten.
Remembered(l, p, j) ==
  \A q \in p + 1 .. j : l[q].kind # "closed" /\ l[q].time - l[p].time < INACTIVITY

\* A packet's place in its message, and the bytes there are up to a place.
Place(e) == IF IsStart(e) THEN -1 ELSE e.seq
Held(n) == IF n < -1 THEN 0 ELSE InFirst + (n + 1) * InNext

Start(l, parts) == l[CHOOSE k \in parts : IsStart(l[k])]
IsLast(k, parts) == \A i \in parts : i <= k

\* Packet k comes next after packet p, and soon enough.
Follows(l, parts, p, k) ==
  /\ p < k
  /\ \A i \in parts : i <= p \/ k <= i
  /\ Place(l[k]) = Place(l[p]) + 1
  /\ Remembered(l, p, k)

InOrder(l, parts) ==
  /\ \E k \in parts : IsStart(l[k])
  /\ \A k \in parts : IsStart(l[k]) \/ \E p \in parts : Follows(l, parts, p, k)

\* Of the message of these parts: the last of them, and no other, completes it;
\* at entry j it still waits for more.
Complete(l, parts) ==
  /\ InOrder(l, parts)
  /\ \A k \in parts : IsLast(k, parts) <=> Held(Place(l[k])) >= Start(l, parts).len
Waiting(l, parts, j) ==
  /\ InOrder(l, parts)
  /\ \A k \in parts : /\ Held(Place(l[k])) < Start(l, parts).len
                      /\ IsLast(k, parts) => Remembered(l, k, j)

\* Packet k of the message holds its byte m.
Holds(l, k, m) == Held(Place(l[k]) - 1) < m /\ m <= Held(Place(l[k]))

\* The bytes of a complete message.
Payload(l, parts) ==
  [m \in 1 .. Start(l, parts).len |->
     LET holder == CHOOSE k \in parts : Holds(l, k, m)
     IN <<holder, m - Held(Place(l[holder]) - 1)>>]

\* The channels on which a message waits after entry j.
Busy(l, j) == {d \in Channels : Waiting(l, Parts(l, d, j), j)}

----------------------------------------------------------------------------
Answers(c, kind) == answers' = Append(answers, [at |-> Len(log'), ch |-> c, kind |-> kind])

\* How a complete message is answered.  It is ERR_OTHER when the response is too
\* long to be sent, or when no identifier is found for a new channel.
Served(c, cmd, len, busy) ==
  \/ cmd = "CBOR" /\ \E kind \in {"CBOR", "ERR_OTHER"} : Answers(c, kind)
  \/ cmd \in {"PING", "WINK", "CANCEL", "KEEPALIVE"} /\ Answers(c, cmd)
  \/ cmd \in {"MSG", "ERROR"} /\ Answers(c, "INVALID_CMD")
  \/ cmd = "INIT" /\ len # NonceLength /\ Answers(BROADCAST, "INVALID_LEN")
  \/ /\ cmd = "INIT"
     /\ len = NonceLength
     /\ IF c # BROADCAST THEN Answers(c, "INIT")
        ELSE IF Cardinality(busy) > MAX_CONNECTIONS THEN Answers(c, "CHANNEL_BUSY")
        ELSE \E kind \in {"INIT", "ERR_OTHER"} : Answers(c, kind)

Closes == Last(log').kind = "closed" /\ UNCHANGED <<relayed, answers>>

RefusesCommand ==
  LET e == Last(log') IN
  /\ e.kind = "initial" /\ e.cmd = "unknown"
  /\ Answers(e.ch, "INVALID_CMD")
  /\ UNCHANGED relayed

Serves ==
  LET c == Last(log').ch
      parts == Parts(log', c, Len(log'))
      start == Start(log', parts)
  IN
  /\ Concerns(Last(log'), c)
  /\ Complete(log', parts)
  /\ Served(c, start.cmd, start.len, Busy(log', Len(log')))
  /\ relayed' = IF start.cmd = "CBOR"
                  THEN Append(relayed, [at |-> Len(log'), ch |-> c,
                                        frame |-> Payload(log', parts)])
                  ELSE relayed

Collects ==
  LET c == Last(log').ch IN
  /\ Concerns(Last(log'), c)
  /\ Waiting(log', Parts(log', c, Len(log')), Len(log'))
  /\ UNCHANGED <<relayed, answers>>

RefusesPacket ==
  LET c == Last(log').ch
      j == Len(log')
      parts == Parts(log', c, j)
  IN
  /\ Last(log').kind = "next"
  /\ ~Complete(log', parts)
  /\ ~Waiting(log', parts, j)
  /\ Answers(c, IF Waiting(log', Parts(log', c, j - 1), j)
                  THEN "INVALID_SEQ" ELSE "INVALID_CHANNEL")
  /\ UNCHANGED relayed

MessagesInit == log = <<>> /\ relayed = <<>> /\ answers = <<>>

\* One entry more, and its consequences.
MessagesNext ==
  /\ Len(log') = Len(log) + 1
  /\ Front(log') = log
  /\ Closes \/ RefusesCommand \/ Serves \/ Collects \/ RefusesPacket

MessagesSpec == MessagesInit /\ [][MessagesNext]_messageVars
=============================================================================
