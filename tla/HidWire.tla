------------------------------- MODULE HidWire -------------------------------
(***************************************************************************)
(* The packets of a response: encode_response_packets of                   *)
(* ctap_hid_device.py, and how the host puts them together again.          *)
(*                                                                         *)
(* A byte is a pair.  A sequence number is written in one byte, whose high *)
(* bit tells an initial packet from a continuation packet.                 *)
(***************************************************************************)
EXTENDS Integers, SequencesExt

CONSTANTS
  OutFirst,  \* payload bytes of a sent initial packet: 64 - 7
  OutNext,   \* payload bytes of a sent continuation packet: 64 - 5
  SeqLimit   \* 0x80: sequence numbers below it leave the high bit clear

ASSUME WireAssumption ==
  OutFirst \in Nat \ {0} /\ OutNext \in Nat \ {0} /\ SeqLimit \in Nat \ {0}

Padding == <<0, 0>>

\* The part of data from offset on that fits, padded to the packet.
Chunk(data, offset, capacity) ==
  [k \in 1 .. capacity |-> IF offset + k <= Len(data) THEN data[offset + k] ELSE Padding]

FirstPacket(ch, cmd, data) ==
  [initial |-> TRUE, ch |-> ch, cmd |-> cmd, len |-> Len(data), seq |-> 0,
   data |-> Chunk(data, 0, OutFirst)]

NextPacket(ch, seq, data) ==
  [initial |-> seq >= SeqLimit, ch |-> ch, cmd |-> "", len |-> 0, seq |-> seq,
   data |-> Chunk(data, OutFirst + seq * OutNext, OutNext)]

Continuations(data) ==
  IF Len(data) <= OutFirst THEN 0 ELSE (Len(data) - OutFirst + OutNext - 1) \div OutNext

\* bytes([seq - 1]) raises ValueError above 255.
Encodable(data) == Continuations(data) <= 2 * SeqLimit

Encode_SeqFromOne(ch, cmd, data) ==
  [n \in 1 .. 1 + Continuations(data) |->
     IF n = 1 THEN FirstPacket(ch, cmd, data) ELSE NextPacket(ch, n - 1, data)]

Encode(ch, cmd, data) ==
  [n \in 1 .. 1 + Continuations(data) |->
     IF n = 1 THEN FirstPacket(ch, cmd, data) ELSE NextPacket(ch, n - 2, data)]

\* A CTAPHID host: the message it reads from these packets, if any.  Byte m of
\* the message is where the packets' payloads, one after the other, have it.
HostReads(packets) ==
  LET first == packets[1]
      Byte(m) ==
        IF m <= OutFirst THEN first.data[m]
        ELSE packets[2 + (m - OutFirst - 1) \div OutNext].data[1 + ((m - OutFirst - 1) % OutNext)]
  IN
  IF /\ first.initial
     /\ \A n \in 2 .. Len(packets) :
          ~packets[n].initial /\ packets[n].ch = first.ch /\ packets[n].seq = n - 2
     /\ first.len <= OutFirst + (Len(packets) - 1) * OutNext
    THEN {[ch |-> first.ch, cmd |-> first.cmd, data |-> [m \in 1 .. first.len |-> Byte(m)]]}
    ELSE {}
=============================================================================
