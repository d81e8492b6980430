------------------------------- MODULE CtapHid -------------------------------
(***************************************************************************)
(* ctap_hid_device.py: the CTAPHID device as the event loop drives it.     *)
(* Every packet, open and close is one callback, and runs to its end: the  *)
(* request to the server blocks the loop.  Between callbacks the clock     *)
(* moves, and not always forward: it is time.time().                       *)
(*                                                                         *)
(* A byte is a pair: <<i, k>> is byte k of the packet that is entry i of   *)
(* the log, <<-1, k>> byte k of a response of the server, <<0, x>> the     *)
(* value x.  Packets have the full size of a report.                       *)
(***************************************************************************)
EXTENDS HidWire, FiniteSets

CONSTANTS
  Channels,        \* channel identifiers other than zero
  BROADCAST,       \* BROADCAST_CHANNEL
  InFirst,         \* payload bytes of a received initial packet: 57
  InNext,          \* payload bytes of a received continuation packet: 59
  NonceLength,     \* bytes of an INIT request: 8
  INACTIVITY,      \* INACTIVITY_CLEANUP_SECONDS
  MAX_CONNECTIONS, \* MAX_SIMULTANEOUS_CONNECTIONS
  Initials,        \* initial packets that hosts send: <<channel, command, length>>
  Subsequents,     \* continuation packets: <<channel, sequence number>>
  ResponseLengths, \* bytes of the server's responses
  MaxSteps,        \* bound on callbacks and clock steps together
  MaxOpen          \* bound on open handles

\* "unknown" is a command byte that is not in CommandType.
CommandType == {"PING", "MSG", "INIT", "WINK", "CBOR", "CANCEL", "KEEPALIVE", "ERROR"}

ASSUME HidAssumption ==
  /\ BROADCAST \in Channels
  /\ InFirst \in Nat \ {0}
  /\ InNext \in Nat \ {0}
  /\ NonceLength \in Nat
  /\ INACTIVITY \in Nat \ {0}
  /\ MAX_CONNECTIONS \in Nat
  /\ Initials \subseteq Channels \X (CommandType \cup {"unknown"}) \X Nat
  /\ Subsequents \subseteq Channels \X (0 .. SeqLimit - 1)
  /\ ResponseLengths \subseteq Nat
  /\ MaxSteps \in Nat
  /\ MaxOpen \in Nat
  /\ NonceLength + 2 <= OutFirst + 2 * SeqLimit * OutNext
  /\ InFirst + SeqLimit * InNext <= OutFirst + 2 * SeqLimit * OutNext

VARIABLES
  channels,         \* channels_to_state: cmd, len, seq, data, at
  reference_count,
  now,              \* time.time()
  steps,            \* callbacks and clock steps so far
  reply,            \* what the last callback meant to say: no message or one
  sent,             \* the packets that it sent
  log,              \* packets received, and closings of the last handle
  relayed,          \* frames given to transport.call
  answers           \* messages sent: after which entry, on which channel, what

vars == <<channels, reference_count, now, steps, reply, sent, log, relayed, answers>>

Code == [INVALID_CMD |-> 1, INVALID_LEN |-> 3, INVALID_SEQ |-> 4, CHANNEL_BUSY |-> 6,
         INVALID_CHANNEL |-> 11, ERR_OTHER |-> 127]

Init ==
  /\ channels = <<>>
  /\ reference_count = 0
  /\ now = 0
  /\ steps = 0
  /\ reply = {}
  /\ sent = <<>>
  /\ log = <<>>
  /\ relayed = <<>>
  /\ answers = <<>>

----------------------------------------------------------------------------
(* Sending. *)

Silent == reply' = {} /\ sent' = <<>> /\ UNCHANGED answers

Send(c, kind, cmd, data) ==
  /\ reply' = {[ch |-> c, cmd |-> cmd, data |-> data]}
  /\ sent' = Encode(c, cmd, data)
  /\ answers' = Append(answers, [at |-> Len(log) + 1, ch |-> c, kind |-> kind])

SendError(c, error) == Send(c, error, "ERROR", <<<<0, Code[error]>>>>)

\* The except clause of finish_receiving answers a response that cannot be
\* encoded.
Respond(c, cmd, data) ==
  IF Encodable(data) THEN Send(c, cmd, cmd, data) ELSE SendError(c, "ERR_OTHER")

----------------------------------------------------------------------------
(* Handlers of complete messages; others are the unfinished ones. *)

Response(n) == [k \in 1 .. n |-> <<-1, k>>]

\* The server's response, or CTAP2_ERR_OTHER for a TransportError.
HandleCbor(c, data) ==
  /\ relayed' = Append(relayed, [at |-> Len(log) + 1, ch |-> c, frame |-> data])
  /\ \/ \E n \in ResponseLengths : Respond(c, "CBOR", Response(n))
     \/ Respond(c, "CBOR", <<<<0, 127>>>>)

InitResponse(nonce, c) == nonce \o <<<<0, c>>, <<0, 2>>>>

HandleInit(c, data, others) ==
  \/ /\ Len(data) # NonceLength
     /\ SendError(BROADCAST, "INVALID_LEN")
  \/ /\ Len(data) = NonceLength
     /\ c # BROADCAST
     /\ Respond(c, "INIT", InitResponse(data, c))
  \/ /\ Len(data) = NonceLength
     /\ c = BROADCAST
     /\ IF Cardinality(DOMAIN others) > MAX_CONNECTIONS
          THEN SendError(c, "CHANNEL_BUSY")
          ELSE \* Ten random identifiers may all be in use or reserved.
               \/ \E new \in Channels \ ({BROADCAST} \cup DOMAIN others) :
                    Respond(c, "INIT", InitResponse(data, new))
               \/ SendError(c, "ERR_OTHER")

Handle(c, cmd, data, others) ==
  \/ cmd = "CBOR" /\ HandleCbor(c, data)
  \/ /\ cmd # "CBOR"
     /\ UNCHANGED relayed
     /\ \/ cmd = "INIT" /\ HandleInit(c, data, others)
        \/ cmd = "PING" /\ Respond(c, cmd, data)
        \/ cmd \in {"WINK", "CANCEL"} /\ Respond(c, cmd, <<>>)
        \/ cmd = "KEEPALIVE" /\ Respond(c, cmd, <<<<0, 1>>>>)
        \/ cmd \in {"MSG", "ERROR"} /\ SendError(c, "INVALID_CMD")

----------------------------------------------------------------------------
(* Receiving. *)

Without(bufs, c) == Restrict(bufs, DOMAIN bufs \ {c})

With(bufs, c, buf) == [d \in DOMAIN bufs \cup {c} |-> IF d = c THEN buf ELSE bufs[d]]

Fresh_Unaged == channels

\* The buffers left after the removal of the stale ones.
Fresh == Restrict(channels, {c \in DOMAIN channels : now - channels[c].at < INACTIVITY})

\* The message is complete, or its buffer waits for more.
Store(bufs, c, buf) ==
  IF Len(buf.data) = buf.len
    THEN /\ channels' = Without(bufs, c)
         /\ Handle(c, buf.cmd, buf.data, Without(bufs, c))
    ELSE /\ channels' = With(bufs, c, buf)
         /\ Silent
         /\ UNCHANGED relayed

Bytes(n) == [k \in 1 .. n |-> <<Len(log) + 1, k>>]

ReceiveInitial(c, cmd, len) ==
  /\ log' = Append(log, [kind |-> "initial", ch |-> c, cmd |-> cmd, len |-> len,
                         seq |-> 0, time |-> now])
  /\ IF cmd = "unknown"
       THEN /\ channels' = Fresh
            /\ SendError(c, "INVALID_CMD")
            /\ UNCHANGED relayed
       ELSE Store(Fresh, c, [cmd |-> cmd, len |-> len, seq |-> -1, at |-> now,
                             data |-> Bytes(IF len < InFirst THEN len ELSE InFirst)])

Extended_Untruncated(buf, seq) ==
  [buf EXCEPT !.seq = seq, !.at = now, !.data = @ \o Bytes(InNext)]

\* new_data[:remaining]
Extended(buf, seq) ==
  LET remaining == buf.len - Len(buf.data) IN
  [buf EXCEPT !.seq = seq, !.at = now,
              !.data = @ \o Bytes(IF remaining < InNext THEN remaining ELSE InNext)]

ReceiveNext(c, seq) ==
  /\ log' = Append(log, [kind |-> "next", ch |-> c, cmd |-> "unknown", len |-> 0,
                         seq |-> seq, time |-> now])
  /\ \/ /\ c \notin DOMAIN Fresh
        /\ channels' = Fresh
        /\ SendError(c, "INVALID_CHANNEL")
        /\ UNCHANGED relayed
     \/ /\ c \in DOMAIN Fresh
        /\ seq # Fresh[c].seq + 1
        /\ channels' = Without(Fresh, c)
        /\ SendError(c, "INVALID_SEQ")
        /\ UNCHANGED relayed
     \/ /\ c \in DOMAIN Fresh
        /\ seq = Fresh[c].seq + 1
        /\ Store(Fresh, c, Extended(Fresh[c], seq))

ReceiveOutput ==
  /\ \/ \E p \in Initials : ReceiveInitial(p[1], p[2], p[3])
     \/ \E p \in Subsequents : ReceiveNext(p[1], p[2])
  /\ UNCHANGED <<reference_count, now>>

----------------------------------------------------------------------------
ProcessOpen ==
  /\ reference_count < MaxOpen
  /\ reference_count' = reference_count + 1
  /\ Silent
  /\ UNCHANGED <<channels, now, log, relayed>>

Released_Unguarded == reference_count - 1

Released == IF reference_count > 0 THEN reference_count - 1 ELSE reference_count

\* The last close clears all state.
ProcessClose ==
  /\ reference_count' = Released
  /\ \/ /\ Released # 0
        /\ UNCHANGED <<channels, log>>
     \/ /\ Released = 0
        /\ channels' = <<>>
        /\ log' = Append(log, [kind |-> "closed", ch |-> BROADCAST, cmd |-> "unknown",
                               len |-> 0, seq |-> 0, time |-> now])
  /\ Silent
  /\ UNCHANGED <<now, relayed>>

\* Time passes, or the wall clock is set.
ClockMoves ==
  /\ now' \in {now - 1, now + 1}
  /\ Silent
  /\ UNCHANGED <<channels, reference_count, log, relayed>>

Next ==
  /\ steps < MaxSteps
  /\ steps' = steps + 1
  /\ ReceiveOutput \/ ProcessOpen \/ ProcessClose \/ ClockMoves

Spec == Init /\ [][Next]_vars

----------------------------------------------------------------------------
(* Properties. *)

Buffer ==
  [cmd : CommandType, len : Nat, seq : -1 .. SeqLimit - 1, data : Seq(Nat \X Nat), at : Int]

\* Types of the variables: a channel's buffer carries a known command, and the
\* count of open handles never goes below zero (process_close).
TypeOK ==
  /\ DOMAIN channels \subseteq Channels
  /\ \A c \in DOMAIN channels : channels[c] \in Buffer
  /\ reference_count \in 0 .. MaxOpen
  /\ now \in Int
  /\ steps \in 0 .. MaxSteps
  /\ log \in Seq([kind : {"initial", "next", "closed"}, ch : Channels,
                  cmd : CommandType \cup {"unknown"}, len : Nat, seq : 0 .. SeqLimit - 1,
                  time : Int])
  /\ relayed \in Seq([at : Nat, ch : Channels, frame : Seq(Nat \X Nat)])

\* These bytes are whole packets' worth, in the order of the log, and from
\* packets of channel c.
FromChannel(data, c) ==
  /\ \A k \in 1 .. Len(data) : data[k][1] \in 1 .. Len(log) /\ log[data[k][1]].ch = c
  /\ \A k \in 2 .. Len(data) :
       \/ data[k] = <<data[k - 1][1], data[k - 1][2] + 1>>
       \/ data[k][1] > data[k - 1][1] /\ data[k][2] = 1

\* However packets of several channels interleave, repeat or go missing: a
\* buffer holds an unfinished message, as many bytes of it as its sequence
\* number says, and like every relayed frame only bytes of its own channel in
\* the order they came (process_hid_message).
BytesOfOneChannel ==
  /\ \A c \in DOMAIN channels :
       LET buf == channels[c] IN
       /\ Len(buf.data) = InFirst + (buf.seq + 1) * InNext
       /\ Len(buf.data) < buf.len
       /\ FromChannel(buf.data, c)
  /\ \A i \in 1 .. Len(relayed) : FromChannel(relayed[i].frame, relayed[i].ch)

\* A reply of at most OutFirst + SeqLimit * OutNext bytes is read back by the host
\* exactly, its padding removed, and so is every error; a longer one is never taken
\* for a message, as the high bit of its last sequence numbers is set
\* (encode_response_packets).
HostReadsReply ==
  \A r \in reply :
    HostReads(sent) = IF Len(r.data) <= OutFirst + SeqLimit * OutNext THEN {r} ELSE {}

Messages == INSTANCE HidMessages

\* The receive buffers implement HidMessages: the frames relayed and the
\* answers are those that the log of packets calls for.
ImplementsHidMessages == Messages!MessagesSpec
=============================================================================
