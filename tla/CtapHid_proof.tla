---------------------------- MODULE CtapHid_proof ----------------------------
(* Proofs about CtapHid. *)
EXTENDS CtapHid, TLAPS

ByteSeq == Seq(Nat \X Nat)

Entries ==
  [kind : {"initial", "next", "closed"}, ch : Channels,
   cmd : CommandType \cup {"unknown"}, len : Nat, seq : 0 .. SeqLimit - 1, time : Int]

\* FromChannel over a given log.
From(l, data, c) ==
  /\ \A k \in 1 .. Len(data) : data[k][1] \in 1 .. Len(l) /\ l[data[k][1]].ch = c
  /\ \A k \in 2 .. Len(data) :
       \/ data[k] = <<data[k - 1][1], data[k - 1][2] + 1>>
       \/ data[k][1] > data[k - 1][1] /\ data[k][2] = 1

\* A buffer that holds the part of an unfinished message that has come so far.
Partial(l, buf, c) ==
  /\ Len(buf.data) = InFirst + (buf.seq + 1) * InNext
  /\ Len(buf.data) < buf.len
  /\ From(l, buf.data, c)

\* Buffers and relayed frames, for the logs and variables of either state.
GoodBuffers(bufs, l) ==
  /\ DOMAIN bufs \subseteq Channels
  /\ \A c \in DOMAIN bufs : bufs[c] \in Buffer /\ Partial(l, bufs[c], c)

GoodFrames(frames, l) ==
  /\ frames \in Seq([at : Nat, ch : Channels, frame : ByteSeq])
  /\ \A i \in 1 .. Len(frames) : From(l, frames[i].frame, frames[i].ch)

Inv ==
  /\ log \in Seq(Entries)
  /\ GoodBuffers(channels, log)
  /\ GoodFrames(relayed, log)
  /\ reference_count \in 0 .. MaxOpen
  /\ now \in Int
  /\ steps \in 0 .. MaxSteps

LEMMA InvImplies == Inv => TypeOK /\ BytesOfOneChannel
BY DEF Inv, TypeOK, BytesOfOneChannel, GoodBuffers, GoodFrames, Partial, From, FromChannel,
       Entries, ByteSeq

LEMMA Constants ==
  /\ InFirst \in Nat \ {0} /\ InNext \in Nat \ {0} /\ SeqLimit \in Nat \ {0}
  /\ NonceLength \in Nat /\ MaxOpen \in Nat /\ MaxSteps \in Nat
  /\ BROADCAST \in Channels
BY HidAssumption, WireAssumption

----------------------------------------------------------------------------
(* A longer log. *)

LEMMA ElementOf ==
  ASSUME NEW S, NEW s \in Seq(S), NEW i \in 1 .. Len(s)
  PROVE  s[i] \in S
OBVIOUS

LEMMA FromLonger ==
  ASSUME NEW l \in Seq(Entries), NEW e \in Entries, NEW data \in ByteSeq, NEW c,
         From(l, data, c)
  PROVE  From(Append(l, e), data, c)
<1>1. /\ Len(Append(l, e)) = Len(l) + 1
      /\ \A i \in 1 .. Len(l) : Append(l, e)[i] = l[i]
  OBVIOUS
<1>2. Len(l) \in Nat
  OBVIOUS
<1>. QED BY <1>1, <1>2 DEF From

LEMMA BuffersLonger ==
  ASSUME NEW l \in Seq(Entries), NEW e \in Entries, NEW bufs, GoodBuffers(bufs, l)
  PROVE  GoodBuffers(bufs, Append(l, e))
<1>1. ASSUME NEW c \in DOMAIN bufs
      PROVE  Partial(Append(l, e), bufs[c], c)
  <2>1. bufs[c].data \in ByteSeq
    BY DEF GoodBuffers, Buffer, ByteSeq
  <2>. QED BY <2>1, FromLonger DEF GoodBuffers, Partial
<1>. QED BY <1>1 DEF GoodBuffers

LEMMA FramesLonger ==
  ASSUME NEW l \in Seq(Entries), NEW e \in Entries, NEW frames, GoodFrames(frames, l)
  PROVE  GoodFrames(frames, Append(l, e))
<1>1. ASSUME NEW i \in 1 .. Len(frames)
      PROVE  From(Append(l, e), frames[i].frame, frames[i].ch)
  <2>1. frames[i] \in [at : Nat, ch : Channels, frame : ByteSeq]
    <3>1. frames \in Seq([at : Nat, ch : Channels, frame : ByteSeq])
      BY DEF GoodFrames
    <3>. QED BY <3>1, ElementOf
  <2>2. frames[i].frame \in ByteSeq
    BY <2>1
  <2>. QED BY <2>2, FromLonger DEF GoodFrames
<1>. QED BY <1>1 DEF GoodFrames

LEMMA FramesAppend ==
  ASSUME NEW l \in Seq(Entries), NEW frames, GoodFrames(frames, l),
         NEW r \in [at : Nat, ch : Channels, frame : ByteSeq], From(l, r.frame, r.ch)
  PROVE  GoodFrames(Append(frames, r), l)
<1>1. frames \in Seq([at : Nat, ch : Channels, frame : ByteSeq])
  BY DEF GoodFrames
<1>2. /\ Len(Append(frames, r)) = Len(frames) + 1
      /\ \A i \in 1 .. Len(frames) : Append(frames, r)[i] = frames[i]
      /\ Append(frames, r)[Len(frames) + 1] = r
      /\ Len(frames) \in Nat
  BY <1>1
<1>3. Append(frames, r) \in Seq([at : Nat, ch : Channels, frame : ByteSeq])
  BY <1>1
<1>. QED BY <1>2, <1>3 DEF GoodFrames

----------------------------------------------------------------------------
(* Operations on the buffers. *)

LEMMA RestrictGood ==
  ASSUME NEW bufs, NEW l, GoodBuffers(bufs, l), NEW S, S \subseteq DOMAIN bufs
  PROVE  GoodBuffers(Restrict(bufs, S), l)
BY DEF GoodBuffers, Restrict

LEMMA WithoutGood ==
  ASSUME NEW bufs, NEW l, GoodBuffers(bufs, l), NEW c
  PROVE  GoodBuffers(Without(bufs, c), l)
BY RestrictGood DEF Without

LEMMA WithGood ==
  ASSUME NEW bufs, NEW l, GoodBuffers(bufs, l), NEW c \in Channels,
         NEW buf \in Buffer, Partial(l, buf, c)
  PROVE  GoodBuffers(With(bufs, c, buf), l)
BY DEF GoodBuffers, With

----------------------------------------------------------------------------
(* The bytes of a packet. *)

LEMMA BytesFrom ==
  ASSUME NEW l \in Seq(Entries), NEW e \in Entries, NEW n \in Nat, log = l
  PROVE  /\ Bytes(n) \in ByteSeq
         /\ Len(Bytes(n)) = n
         /\ From(Append(l, e), Bytes(n), e.ch)
<1>1. Len(l) \in Nat /\ Append(l, e)[Len(l) + 1] = e /\ Len(Append(l, e)) = Len(l) + 1
  OBVIOUS
<1>2. Bytes(n) = [k \in 1 .. n |-> <<Len(l) + 1, k>>]
  BY DEF Bytes
<1>3. Bytes(n) \in ByteSeq /\ Len(Bytes(n)) = n
  BY <1>1, <1>2 DEF ByteSeq
<1>4. \A k \in 1 .. n : Bytes(n)[k][1] = Len(l) + 1 /\ Bytes(n)[k][2] = k
  BY <1>2
<1>5. \A k \in 2 .. n : Bytes(n)[k] = <<Bytes(n)[k - 1][1], Bytes(n)[k - 1][2] + 1>>
  BY <1>2, <1>4
<1>. QED BY <1>1, <1>3, <1>4, <1>5 DEF From

\* The bytes of the next packet go after those there are.
LEMMA ConcatFrom ==
  ASSUME NEW l \in Seq(Entries), NEW e \in Entries, NEW n \in Nat, log = l,
         NEW data \in ByteSeq, From(l, data, e.ch)
  PROVE  /\ data \o Bytes(n) \in ByteSeq
         /\ Len(data \o Bytes(n)) = Len(data) + n
         /\ From(Append(l, e), data \o Bytes(n), e.ch)
<1>. DEFINE new == Bytes(n)
            both == data \o new
<1>1. /\ new \in ByteSeq /\ Len(new) = n
      /\ new = [k \in 1 .. n |-> <<Len(l) + 1, k>>]
  BY BytesFrom DEF Bytes
<1>2. From(Append(l, e), data, e.ch)
  BY FromLonger
<1>3. /\ Len(l) \in Nat /\ Len(data) \in Nat
      /\ Append(l, e)[Len(l) + 1] = e /\ Len(Append(l, e)) = Len(l) + 1
  BY DEF ByteSeq
<1>. HIDE DEF new
<1>4. /\ both \in ByteSeq /\ Len(both) = Len(data) + n
      /\ \A k \in 1 .. Len(data) : both[k] = data[k]
      /\ \A k \in Len(data) + 1 .. Len(data) + n : both[k] = new[k - Len(data)]
  BY <1>1 DEF ByteSeq
<1>. HIDE DEF both
<1>5. \A k \in Len(data) + 1 .. Len(data) + n : both[k] = <<Len(l) + 1, k - Len(data)>>
  BY <1>1, <1>3, <1>4
<1>6. \A k \in 1 .. Len(both) : both[k][1] \in 1 .. Len(Append(l, e)) /\ Append(l, e)[both[k][1]].ch = e.ch
  <2>. SUFFICES ASSUME NEW k \in 1 .. Len(both)
                PROVE  both[k][1] \in 1 .. Len(Append(l, e)) /\ Append(l, e)[both[k][1]].ch = e.ch
    OBVIOUS
  <2>1. CASE k <= Len(data)
    BY <1>2, <1>3, <1>4, <2>1 DEF From
  <2>2. CASE k > Len(data)
    <3>1. both[k] = <<Len(l) + 1, k - Len(data)>>
      BY <1>3, <1>4, <1>5, <2>2
    <3>. QED BY <1>3, <3>1
  <2>. QED BY <1>3, <1>4, <2>1, <2>2
<1>7. \A k \in 2 .. Len(both) :
        \/ both[k] = <<both[k - 1][1], both[k - 1][2] + 1>>
        \/ both[k][1] > both[k - 1][1] /\ both[k][2] = 1
  <2>. SUFFICES ASSUME NEW k \in 2 .. Len(both)
                PROVE  \/ both[k] = <<both[k - 1][1], both[k - 1][2] + 1>>
                       \/ both[k][1] > both[k - 1][1] /\ both[k][2] = 1
    OBVIOUS
  <2>1. CASE k <= Len(data)
    <3>1. both[k] = data[k] /\ both[k - 1] = data[k - 1]
      BY <1>3, <1>4, <2>1
    <3>2. k \in 2 .. Len(data)
      BY <1>3, <2>1
    <3>. QED BY <3>1, <3>2 DEF From
  <2>2. CASE k = Len(data) + 1
    <3>1. both[k] = <<Len(l) + 1, 1>>
      BY <1>3, <1>4, <1>5, <2>2
    <3>2. Len(data) \in 1 .. Len(data) /\ k - 1 = Len(data)
      BY <1>3, <2>2
    <3>3. both[k - 1][1] \in 1 .. Len(l)
      BY <1>4, <3>2 DEF From
    <3>. QED BY <1>3, <3>1, <3>3
  <2>3. CASE k > Len(data) + 1
    <3>1. both[k] = <<Len(l) + 1, k - Len(data)>>
      BY <1>3, <1>4, <1>5, <2>3
    <3>2. both[k - 1] = <<Len(l) + 1, k - 1 - Len(data)>>
      <4>1. k - 1 \in Len(data) + 1 .. Len(data) + n
        BY <1>3, <1>4, <2>3
      <4>. QED BY <1>5, <4>1
    <3>3. (k - 1 - Len(data)) + 1 = k - Len(data)
      BY <1>3
    <3>. QED BY <3>1, <3>2, <3>3
  <2>. QED BY <1>3, <1>4, <2>1, <2>2, <2>3
<1>. QED BY <1>4, <1>6, <1>7 DEF From, both, new

----------------------------------------------------------------------------
(* The actions. *)

LEMMA FreshGood == Inv => GoodBuffers(Fresh, log)
BY RestrictGood DEF Inv, Fresh

LEMMA HandleRelays ==
  ASSUME NEW c, NEW cmd, NEW data, NEW others, Handle(c, cmd, data, others)
  PROVE  \/ relayed' = relayed
         \/ relayed' = Append(relayed, [at |-> Len(log) + 1, ch |-> c, frame |-> data])
BY DEF Handle, HandleCbor

\* What Store does with a buffer that is complete or that waits for more.
LEMMA StoreGood ==
  ASSUME Inv, NEW e \in Entries, log' = Append(log, e),
         NEW bufs, GoodBuffers(bufs, log), NEW buf,
         buf.data \in ByteSeq, From(log', buf.data, e.ch),
         Len(buf.data) # buf.len => buf \in Buffer /\ Partial(log', buf, e.ch),
         Store(bufs, e.ch, buf)
  PROVE  GoodBuffers(channels', log') /\ GoodFrames(relayed', log')
<1>1. GoodBuffers(bufs, log') /\ GoodFrames(relayed, log') /\ log' \in Seq(Entries)
  BY BuffersLonger, FramesLonger DEF Inv
<1>2. e.ch \in Channels
  BY DEF Entries
<1>3. CASE Len(buf.data) = buf.len
  <2>1. GoodBuffers(channels', log')
    BY <1>1, <1>3, WithoutGood DEF Store
  <2>2. \/ relayed' = relayed
        \/ relayed' = Append(relayed, [at |-> Len(log) + 1, ch |-> e.ch, frame |-> buf.data])
    BY <1>3, HandleRelays DEF Store
  <2>3. [at |-> Len(log) + 1, ch |-> e.ch, frame |-> buf.data]
           \in [at : Nat, ch : Channels, frame : ByteSeq]
    BY <1>2 DEF Inv
  <2>4. GoodFrames(Append(relayed, [at |-> Len(log) + 1, ch |-> e.ch, frame |-> buf.data]), log')
    BY <1>1, <2>3, FramesAppend
  <2>. QED BY <1>1, <2>1, <2>2, <2>4
<1>4. CASE Len(buf.data) # buf.len
  <2>1. channels' = With(bufs, e.ch, buf) /\ relayed' = relayed
    BY <1>4 DEF Store
  <2>. QED BY <1>1, <1>2, <1>4, <2>1, WithGood
<1>. QED BY <1>3, <1>4

LEMMA InitialGood ==
  ASSUME Inv, NEW c \in Channels, NEW cmd \in CommandType \cup {"unknown"}, NEW len \in Nat,
         ReceiveInitial(c, cmd, len)
  PROVE  log' \in Seq(Entries) /\ GoodBuffers(channels', log') /\ GoodFrames(relayed', log')
<1>. DEFINE e == [kind |-> "initial", ch |-> c, cmd |-> cmd, len |-> len, seq |-> 0, time |-> now]
            n == IF len < InFirst THEN len ELSE InFirst
            buf == [cmd |-> cmd, len |-> len, seq |-> -1, at |-> now, data |-> Bytes(n)]
<1>1. e \in Entries /\ log' = Append(log, e) /\ e.ch = c
  BY Constants DEF ReceiveInitial, Inv, Entries
<1>2. log' \in Seq(Entries)
  BY <1>1 DEF Inv
<1>3. n \in Nat /\ n <= len /\ (n # len => n = InFirst /\ n < len)
  BY Constants
<1>. HIDE DEF e, n
<1>4. CASE cmd = "unknown"
  <2>1. channels' = Fresh /\ relayed' = relayed
    BY <1>4 DEF ReceiveInitial
  <2>. QED BY <1>1, <1>2, <2>1, FreshGood, BuffersLonger, FramesLonger DEF Inv
<1>5. CASE cmd # "unknown"
  <2>1. Store(Fresh, c, buf)
    BY <1>5 DEF ReceiveInitial, n
  <2>2. /\ Bytes(n) \in ByteSeq /\ Len(Bytes(n)) = n
        /\ From(log', Bytes(n), c)
    BY <1>1, <1>3, BytesFrom DEF Inv
  <2>3. ASSUME n # len PROVE buf \in Buffer /\ Partial(log', buf, c)
    <3>1. buf \in Buffer
      BY <1>5, <2>2, Constants DEF Buffer, Inv, ByteSeq
    <3>2. InFirst + (-1 + 1) * InNext = InFirst
      BY Constants
    <3>. QED BY <1>3, <2>2, <2>3, <3>1, <3>2 DEF Partial
  <2>. QED BY <1>1, <1>2, <2>1, <2>2, <2>3, FreshGood, StoreGood
<1>. QED BY <1>4, <1>5

LEMMA NextGood ==
  ASSUME Inv, NEW c \in Channels, NEW seq \in 0 .. SeqLimit - 1, ReceiveNext(c, seq)
  PROVE  log' \in Seq(Entries) /\ GoodBuffers(channels', log') /\ GoodFrames(relayed', log')
<1>. DEFINE e == [kind |-> "next", ch |-> c, cmd |-> "unknown", len |-> 0, seq |-> seq,
                  time |-> now]
<1>1. e \in Entries /\ log' = Append(log, e) /\ e.ch = c
  BY Constants DEF ReceiveNext, Inv, Entries
<1>2. log' \in Seq(Entries)
  BY <1>1 DEF Inv
<1>. HIDE DEF e
<1>3. GoodBuffers(Fresh, log)
  BY FreshGood
<1>4. CASE channels' \in {Fresh, Without(Fresh, c)} /\ relayed' = relayed
  <2>1. GoodBuffers(channels', log)
    BY <1>3, <1>4, WithoutGood
  <2>. QED BY <1>1, <1>2, <1>4, <2>1, BuffersLonger, FramesLonger DEF Inv
<1>5. CASE /\ c \in DOMAIN Fresh
           /\ seq = Fresh[c].seq + 1
           /\ Store(Fresh, c, Extended(Fresh[c], seq))
  <2>. DEFINE old == Fresh[c]
              remaining == old.len - Len(old.data)
              n == IF remaining < InNext THEN remaining ELSE InNext
              buf == Extended(old, seq)
  <2>1. old \in Buffer /\ Partial(log, old, c)
    BY <1>3, <1>5 DEF GoodBuffers
  <2>2. /\ old.data \in ByteSeq /\ old.len \in Nat /\ Len(old.data) \in Nat
        /\ old.seq \in Int /\ seq = old.seq + 1
        /\ Len(old.data) = InFirst + (old.seq + 1) * InNext
        /\ Len(old.data) < old.len
        /\ From(log, old.data, c)
    BY <1>5, <2>1 DEF Buffer, ByteSeq, Partial
  <2>. HIDE DEF old
  <2>3. n \in Nat /\ Len(old.data) + n <= old.len
        /\ (Len(old.data) + n # old.len => n = InNext /\ Len(old.data) + n < old.len)
    <3>1. \A had \in Nat, all \in Nat, next \in Nat :
            had < all =>
              LET m == IF all - had < next THEN all - had ELSE next IN
              m \in Nat /\ had + m <= all /\ (had + m # all => m = next /\ had + m < all)
      OBVIOUS
    <3>2. InNext \in Nat
      BY Constants
    <3>. QED BY <2>2, <3>1, <3>2
  <2>4. buf = [cmd |-> old.cmd, len |-> old.len, seq |-> seq, at |-> now,
               data |-> old.data \o Bytes(n)]
    <3>1. old = [cmd |-> old.cmd, len |-> old.len, seq |-> old.seq, at |-> old.at,
                 data |-> old.data]
      BY <2>1 DEF Buffer
    <3>2. buf = [old EXCEPT !.seq = seq, !.at = now, !.data = old.data \o Bytes(n)]
      BY DEF Extended
    <3>. HIDE DEF n, buf
    <3>. QED BY <3>1, <3>2
  <2>. HIDE DEF n, buf
  <2>5. /\ buf.data \in ByteSeq /\ Len(buf.data) = Len(old.data) + n
        /\ From(log', buf.data, c)
    BY <1>1, <2>2, <2>3, <2>4, ConcatFrom DEF Inv
  <2>6. ASSUME Len(buf.data) # buf.len PROVE buf \in Buffer /\ Partial(log', buf, c)
    <3>1. buf \in Buffer
      BY <2>1, <2>4, <2>5, Constants DEF Buffer, Inv, ByteSeq
    <3>2. InFirst + (old.seq + 1) * InNext + InNext = InFirst + (seq + 1) * InNext
      BY <2>2, Constants
    <3>3. Len(buf.data) = InFirst + (buf.seq + 1) * InNext /\ Len(buf.data) < buf.len
      BY <2>2, <2>3, <2>4, <2>5, <2>6, <3>2
    <3>. QED BY <2>5, <3>1, <3>3 DEF Partial
  <2>7. Store(Fresh, c, buf)
    BY <1>5 DEF buf, old
  <2>. QED BY <1>1, <1>2, <1>3, <2>5, <2>6, <2>7, StoreGood
<1>. QED BY <1>4, <1>5 DEF ReceiveNext

LEMMA InvInit == Init => Inv
<1>. SUFFICES ASSUME Init PROVE Inv
  OBVIOUS
<1>1. DOMAIN channels = {} /\ log = <<>> /\ relayed = <<>>
  BY DEF Init
<1>. QED BY <1>1, Constants DEF Init, Inv, GoodBuffers, GoodFrames

LEMMA InvNext == Inv /\ [Next]_vars => Inv'
<1>. SUFFICES ASSUME Inv, [Next]_vars PROVE Inv'
  OBVIOUS
<1>1. CASE UNCHANGED vars
  BY <1>1 DEF vars, Inv
<1>2. CASE Next
  <2>1. steps' \in 0 .. MaxSteps
    BY <1>2, Constants DEF Next, Inv
  <2>2. CASE ReceiveOutput
    <3>1. reference_count' = reference_count /\ now' = now
      BY <2>2 DEF ReceiveOutput
    <3>2. log' \in Seq(Entries) /\ GoodBuffers(channels', log') /\ GoodFrames(relayed', log')
      <4>1. ASSUME NEW p \in Initials, ReceiveInitial(p[1], p[2], p[3])
            PROVE  log' \in Seq(Entries) /\ GoodBuffers(channels', log')
                   /\ GoodFrames(relayed', log')
        BY <4>1, InitialGood, HidAssumption
      <4>2. ASSUME NEW p \in Subsequents, ReceiveNext(p[1], p[2])
            PROVE  log' \in Seq(Entries) /\ GoodBuffers(channels', log')
                   /\ GoodFrames(relayed', log')
        BY <4>2, NextGood, HidAssumption
      <4>. QED BY <2>2, <4>1, <4>2 DEF ReceiveOutput
    <3>. QED BY <2>1, <3>1, <3>2 DEF Inv, GoodBuffers, GoodFrames
  <2>3. CASE ProcessOpen
    <3>1. UNCHANGED <<channels, now, log, relayed>> /\ reference_count' \in 0 .. MaxOpen
      BY <2>3, Constants DEF ProcessOpen, Inv
    <3>. QED BY <2>1, <3>1 DEF Inv, GoodBuffers, GoodFrames
  <2>4. CASE ProcessClose
    <3>1. reference_count' \in 0 .. MaxOpen /\ now' = now /\ relayed' = relayed
      BY <2>4, Constants DEF ProcessClose, Released, Inv
    <3>2. CASE UNCHANGED <<channels, log>>
      BY <2>1, <3>1, <3>2 DEF Inv, GoodBuffers, GoodFrames
    <3>3. CASE channels' = <<>> /\ \E e \in Entries : log' = Append(log, e)
      <4>1. GoodBuffers(channels', log')
        BY <3>3 DEF GoodBuffers
      <4>2. GoodFrames(relayed', log') /\ log' \in Seq(Entries)
        BY <3>1, <3>3, FramesLonger DEF Inv
      <4>. QED BY <2>1, <3>1, <4>1, <4>2 DEF Inv, GoodBuffers, GoodFrames
    <3>4. [kind |-> "closed", ch |-> BROADCAST, cmd |-> "unknown", len |-> 0, seq |-> 0,
           time |-> now] \in Entries
      BY Constants DEF Entries, Inv
    <3>. QED BY <2>4, <3>2, <3>3, <3>4 DEF ProcessClose
  <2>5. CASE ClockMoves
    <3>1. UNCHANGED <<channels, reference_count, log, relayed>> /\ now' \in Int
      BY <2>5 DEF ClockMoves, Inv
    <3>. QED BY <2>1, <3>1 DEF Inv, GoodBuffers, GoodFrames
  <2>. QED BY <1>2, <2>2, <2>3, <2>4, <2>5 DEF Next
<1>. QED BY <1>1, <1>2

----------------------------------------------------------------------------

\* Every variable keeps its type, the buffers' commands and counts included.
THEOREM TypeCorrect == Spec => []TypeOK
BY InvInit, InvNext, InvImplies, PTL DEF Spec

\* Buffers and relayed frames are in-order bytes of one channel, for any channels,
\* packet sizes and interleaving.
THEOREM BytesUnmixed == Spec => []BytesOfOneChannel
BY InvInit, InvNext, InvImplies, PTL DEF Spec

----------------------------------------------------------------------------
(* What the host reads. *)

LEMMA DivMod ==
  ASSUME NEW a \in Nat, NEW b \in Nat \ {0}
  PROVE  /\ a \div b \in Nat
         /\ a % b \in 0 .. b - 1
         /\ b * (a \div b) + (a % b) = a
<1>1. a % b = a - b * (a \div b)
  OBVIOUS
<1>2. a \div b \in Nat /\ a % b \in 0 .. b - 1
  OBVIOUS
<1>. QED BY <1>1, <1>2

\* Continuation packets are enough, and no more than the sequence numbers are.
LEMMA Count ==
  ASSUME NEW S, NEW data \in Seq(S), Len(data) <= OutFirst + SeqLimit * OutNext
  PROVE  /\ Continuations(data) \in 0 .. SeqLimit
         /\ Len(data) <= OutFirst + Continuations(data) * OutNext
         /\ \A m \in OutFirst + 1 .. Len(data) :
              (m - OutFirst - 1) \div OutNext < Continuations(data)
<1>1. /\ OutFirst \in Nat \ {0} /\ OutNext \in Nat \ {0} /\ SeqLimit \in Nat \ {0}
      /\ Len(data) \in Nat
  BY WireAssumption
<1>2. CASE Len(data) <= OutFirst
  BY <1>1, <1>2 DEF Continuations
<1>3. CASE Len(data) > OutFirst
  <2>1. PICK rest \in Nat : rest = Len(data) - OutFirst
    BY <1>1, <1>3
  <2>2. Continuations(data) = (rest + OutNext - 1) \div OutNext
    BY <1>1, <1>3, <2>1 DEF Continuations
  <2>3. \A a \in Nat, b \in Nat \ {0}, c \in Nat : a <= c * b => (a + b - 1) \div b <= c
    OBVIOUS
  <2>4. \A a \in Nat, b \in Nat \ {0} :
          (a + b - 1) \div b \in Nat /\ a <= ((a + b - 1) \div b) * b
    OBVIOUS
  <2>5. \A a \in Nat, c \in Nat, b \in Nat \ {0} : a < c => a \div b < (c + b - 1) \div b
    OBVIOUS
  <2>6. rest <= SeqLimit * OutNext
    BY <1>1, <2>1
  <2>7. Continuations(data) \in 0 .. SeqLimit
    BY <1>1, <2>2, <2>3, <2>4, <2>6
  <2>8. Len(data) <= OutFirst + Continuations(data) * OutNext
    <3>1. rest <= Continuations(data) * OutNext
      BY <1>1, <2>2, <2>4
    <3>2. PICK p \in Int : p = Continuations(data) * OutNext
      BY <1>1, <2>7
    <3>. QED BY <1>1, <2>1, <3>1, <3>2
  <2>9. ASSUME NEW m \in OutFirst + 1 .. Len(data)
        PROVE  (m - OutFirst - 1) \div OutNext < Continuations(data)
    <3>1. m - OutFirst - 1 \in Nat /\ m - OutFirst - 1 < rest
      BY <1>1, <2>1
    <3>. QED BY <1>1, <2>2, <2>5, <3>1
  <2>. QED BY <2>7, <2>8, <2>9
<1>. QED BY <1>1, <1>2, <1>3

\* What encode_response_packets makes of a message that is not too long, the host
\* reads as that message.
LEMMA ReadsEncoded ==
  ASSUME NEW ch, NEW cmd, NEW S, NEW data \in Seq(S),
         Len(data) <= OutFirst + SeqLimit * OutNext
  PROVE  HostReads(Encode(ch, cmd, data)) = {[ch |-> ch, cmd |-> cmd, data |-> data]}
<1>. DEFINE packets == Encode(ch, cmd, data)
            count == Continuations(data)
            first == packets[1]
            Byte(m) ==
              IF m <= OutFirst THEN first.data[m]
              ELSE packets[2 + (m - OutFirst - 1) \div OutNext]
                     .data[1 + ((m - OutFirst - 1) % OutNext)]
<1>1. /\ OutFirst \in Nat \ {0} /\ OutNext \in Nat \ {0} /\ SeqLimit \in Nat \ {0}
      /\ Len(data) \in Nat
  BY WireAssumption
<1>2. /\ count \in 0 .. SeqLimit
      /\ Len(data) <= OutFirst + count * OutNext
      /\ \A m \in OutFirst + 1 .. Len(data) : (m - OutFirst - 1) \div OutNext < count
  BY Count
<1>. HIDE DEF count
<1>3. /\ Len(packets) = 1 + count
      /\ first = FirstPacket(ch, cmd, data)
      /\ \A n \in 2 .. 1 + count : packets[n] = NextPacket(ch, n - 2, data)
  BY <1>1, <1>2 DEF Encode, count
<1>. HIDE DEF packets
<1>4. /\ first.initial /\ first.ch = ch /\ first.cmd = cmd /\ first.len = Len(data)
      /\ first.data = Chunk(data, 0, OutFirst)
  BY <1>3 DEF FirstPacket
<1>. HIDE DEF first
<1>5. ASSUME NEW n \in 2 .. Len(packets)
      PROVE  ~packets[n].initial /\ packets[n].ch = ch /\ packets[n].seq = n - 2
  <2>1. packets[n] = NextPacket(ch, n - 2, data) /\ n - 2 \in 0 .. SeqLimit - 1
    BY <1>1, <1>2, <1>3
  <2>2. PICK seq \in 0 .. SeqLimit - 1 : seq = n - 2
    BY <2>1
  <2>3. ~(seq >= SeqLimit)
    BY <1>1
  <2>4. NextPacket(ch, seq, data).initial = (seq >= SeqLimit)
    BY DEF NextPacket
  <2>5. NextPacket(ch, seq, data).ch = ch /\ NextPacket(ch, seq, data).seq = seq
    BY DEF NextPacket
  <2>6. packets[n] = NextPacket(ch, seq, data)
    BY <2>1, <2>2
  <2>. QED BY <2>2, <2>3, <2>4, <2>5, <2>6
<1>6. first.len <= OutFirst + (Len(packets) - 1) * OutNext
  <2>1. Len(packets) - 1 = count
    BY <1>2, <1>3
  <2>. QED BY <1>2, <1>4, <2>1
<1>7. ASSUME NEW m \in 1 .. Len(data)
      PROVE  Byte(m) = data[m]
  <2>1. CASE m <= OutFirst
    BY <1>1, <1>4, <2>1 DEF Chunk
  <2>2. CASE m > OutFirst
    <3>1. PICK a \in Nat : a = m - OutFirst - 1
      BY <1>1, <2>2
    <3>2. PICK q \in Nat : q = a \div OutNext
      BY <1>1, <3>1, DivMod
    <3>3. PICK r \in 0 .. OutNext - 1 : r = a % OutNext
      BY <1>1, <3>1, DivMod
    <3>4. OutNext * q + r = a
      BY <1>1, <3>2, <3>3, DivMod
    <3>5. q < count
      BY <1>1, <1>2, <2>2, <3>1, <3>2
    <3>6. packets[2 + q] = NextPacket(ch, q, data)
      <4>1. 2 + q \in 2 .. 1 + count /\ (2 + q) - 2 = q
        BY <1>2, <3>5
      <4>. QED BY <1>3, <4>1
    <3>7. PICK offset \in Int : offset = OutFirst + q * OutNext /\ offset + (1 + r) = m
      <4>1. q * OutNext \in Int /\ q * OutNext = OutNext * q
        BY <1>1
      <4>. QED BY <1>1, <3>1, <3>4, <4>1
    <3>8. packets[2 + q].data = Chunk(data, offset, OutNext)
      <4>1. NextPacket(ch, q, data).data = Chunk(data, OutFirst + q * OutNext, OutNext)
        BY DEF NextPacket
      <4>2. OutFirst + q * OutNext = offset
        BY <3>7
      <4>. QED BY <3>6, <4>1, <4>2
    <3>9. Chunk(data, offset, OutNext)[1 + r] = data[m]
      <4>1. 1 + r \in 1 .. OutNext /\ offset + (1 + r) <= Len(data)
        BY <1>1, <3>7
      <4>. QED BY <3>7, <4>1 DEF Chunk
    <3>. QED BY <1>1, <2>2, <3>1, <3>2, <3>3, <3>8, <3>9
  <2>. QED BY <1>1, <2>1, <2>2
<1>8. [m \in 1 .. first.len |-> Byte(m)] = data
  <2>1. data = [m \in 1 .. Len(data) |-> data[m]]
    OBVIOUS
  <2>. QED BY <1>4, <1>7, <2>1
<1>. QED BY <1>4, <1>5, <1>6, <1>8 DEF HostReads, first, packets

\* A longer one has a sequence number that makes a continuation packet an initial
\* one, and is not read.
LEMMA LongNotRead ==
  ASSUME NEW ch, NEW cmd, NEW S, NEW data \in Seq(S),
         Len(data) > OutFirst + SeqLimit * OutNext
  PROVE  HostReads(Encode(ch, cmd, data)) = {}
<1>. DEFINE packets == Encode(ch, cmd, data)
            count == Continuations(data)
<1>1. /\ OutFirst \in Nat \ {0} /\ OutNext \in Nat \ {0} /\ SeqLimit \in Nat \ {0}
      /\ Len(data) \in Nat
  BY WireAssumption
<1>2. count \in Nat /\ SeqLimit < count
  <2>1. SeqLimit * OutNext \in Nat
    BY <1>1
  <2>2. PICK rest \in Nat : rest = Len(data) - OutFirst
    BY <1>1, <2>1
  <2>3. SeqLimit * OutNext < rest
    BY <1>1, <2>1, <2>2
  <2>4. count = (rest + OutNext - 1) \div OutNext
    BY <1>1, <2>1, <2>2 DEF Continuations
  <2>5. \A a \in Nat, b \in Nat \ {0}, c \in Nat :
          c * b < a => (a + b - 1) \div b \in Nat /\ c < (a + b - 1) \div b
    OBVIOUS
  <2>. QED BY <1>1, <2>3, <2>4, <2>5
<1>. HIDE DEF count
<1>3. SeqLimit + 2 \in 2 .. 1 + count /\ (SeqLimit + 2) - 2 = SeqLimit
  BY <1>1, <1>2
<1>4. Len(packets) = 1 + count /\ packets[SeqLimit + 2] = NextPacket(ch, SeqLimit, data)
  BY <1>1, <1>2, <1>3 DEF Encode, count
<1>5. NextPacket(ch, SeqLimit, data).initial
  <2>1. NextPacket(ch, SeqLimit, data).initial = (SeqLimit >= SeqLimit)
    BY DEF NextPacket
  <2>2. SeqLimit >= SeqLimit
    BY <1>1
  <2>. QED BY <2>1, <2>2
<1>. HIDE DEF packets
<1>6. \E n \in 2 .. Len(packets) : packets[n].initial
  BY <1>3, <1>4, <1>5
<1>. QED BY <1>6, Zenon DEF HostReads, packets

\* Nothing was said, or one message was said and its packets were sent.
Said(said, packets) ==
  \/ said = {}
  \/ \E ch \in Channels, cmd \in CommandType, data \in Seq(Int \X (Int \cup Channels)) :
       said = {[ch |-> ch, cmd |-> cmd, data |-> data]} /\ packets = Encode(ch, cmd, data)

LEMMA SaidIsRead == Said(reply, sent) => HostReadsReply
<1>. SUFFICES ASSUME Said(reply, sent), NEW r \in reply
              PROVE  HostReads(sent) =
                       IF Len(r.data) <= OutFirst + SeqLimit * OutNext THEN {r} ELSE {}
  BY DEF HostReadsReply
<1>1. PICK ch \in Channels, cmd \in CommandType, data \in Seq(Int \X (Int \cup Channels)) :
        reply = {[ch |-> ch, cmd |-> cmd, data |-> data]} /\ sent = Encode(ch, cmd, data)
  BY DEF Said
<1>2. r = [ch |-> ch, cmd |-> cmd, data |-> data]
  BY <1>1
<1>3. CASE Len(data) <= OutFirst + SeqLimit * OutNext
  BY <1>1, <1>2, <1>3, ReadsEncoded
<1>4. CASE Len(data) > OutFirst + SeqLimit * OutNext
  <2>1. ~(Len(data) <= OutFirst + SeqLimit * OutNext)
    <3>1. Len(data) \in Nat /\ OutFirst + SeqLimit * OutNext \in Nat
      BY WireAssumption
    <3>. QED BY <1>4, <3>1
  <2>2. HostReads(sent) = {}
    BY <1>1, <1>4, LongNotRead
  <2>. QED BY <1>2, <2>1, <2>2
<1>5. Len(data) \in Nat /\ OutFirst + SeqLimit * OutNext \in Nat
  BY WireAssumption
<1>. QED BY <1>3, <1>4, <1>5

LEMMA SendSays ==
  ASSUME NEW c \in Channels, NEW kind, NEW cmd \in CommandType,
         NEW data \in Seq(Int \X (Int \cup Channels)), Send(c, kind, cmd, data)
  PROVE  Said(reply', sent')
BY DEF Send, Said

LEMMA SendErrorSays ==
  ASSUME NEW c \in Channels, NEW error \in DOMAIN Code, SendError(c, error)
  PROVE  Said(reply', sent')
<1>1. Code[error] \in Int
  BY DEF Code
<1>2. <<<<0, Code[error]>>>> \in Seq(Int \X (Int \cup Channels))
  BY <1>1
<1>3. "ERROR" \in CommandType
  BY DEF CommandType
<1>. QED BY <1>2, <1>3, SendSays DEF SendError

LEMMA RespondSays ==
  ASSUME NEW c \in Channels, NEW cmd \in CommandType,
         NEW data \in Seq(Int \X (Int \cup Channels)), Respond(c, cmd, data)
  PROVE  Said(reply', sent')
<1>1. "ERR_OTHER" \in DOMAIN Code
  BY DEF Code
<1>. QED BY <1>1, SendSays, SendErrorSays DEF Respond

LEMMA HandleSays ==
  ASSUME NEW c \in Channels, NEW cmd \in CommandType, NEW data \in ByteSeq, NEW others,
         Handle(c, cmd, data, others)
  PROVE  Said(reply', sent')
<1>. DEFINE WireData == Seq(Int \X (Int \cup Channels))
<1>1. data \in WireData
  BY DEF ByteSeq
<1>2. {"INVALID_CMD", "INVALID_LEN", "CHANNEL_BUSY", "ERR_OTHER"} \subseteq DOMAIN Code
  BY DEF Code
<1>3. ASSUME NEW n \in Nat PROVE Response(n) \in WireData
  BY DEF Response
<1>4. <<<<0, 1>>>> \in WireData /\ <<<<0, 127>>>> \in WireData
  OBVIOUS
<1>5. ASSUME NEW d \in Channels PROVE InitResponse(data, d) \in WireData
  <2>1. <<<<0, d>>, <<0, 2>>>> \in WireData
    OBVIOUS
  <2>. QED BY <1>1, <2>1 DEF InitResponse
<1>6. <<>> \in WireData
  OBVIOUS
<1>7. ASSUME NEW bytes \in WireData, Respond(c, cmd, bytes) PROVE Said(reply', sent')
  BY <1>7, RespondSays
<1>. HIDE DEF WireData
<1>8. CASE cmd = "CBOR"
  <2>1. HandleCbor(c, data)
    BY <1>8 DEF Handle
  <2>2. \/ \E n \in ResponseLengths : Respond(c, "CBOR", Response(n))
        \/ Respond(c, "CBOR", <<<<0, 127>>>>)
    BY <2>1 DEF HandleCbor
  <2>. QED BY <1>3, <1>4, <1>8, <1>7, <2>2, HidAssumption
<1>9. CASE HandleInit(c, data, others) /\ cmd = "INIT"
  <2>1. ASSUME NEW d \in Channels, Respond(c, "INIT", InitResponse(data, d))
        PROVE  Said(reply', sent')
    BY <1>5, <1>9, <1>7, <2>1
  <2>2. ASSUME NEW d \in Channels, NEW error \in {"INVALID_LEN", "CHANNEL_BUSY", "ERR_OTHER"},
               SendError(d, error)
        PROVE  Said(reply', sent')
    BY <1>2, <2>2, SendErrorSays
  <2>3. \/ \E d \in Channels : Respond(c, "INIT", InitResponse(data, d))
        \/ \E d \in Channels, error \in {"INVALID_LEN", "CHANNEL_BUSY", "ERR_OTHER"} :
             SendError(d, error)
    <3>1. HandleInit(c, data, others) /\ BROADCAST \in Channels
      BY <1>9, Constants
    <3>. QED BY <3>1, Zenon DEF HandleInit
  <2>. QED BY <2>1, <2>2, <2>3
<1>10. CASE cmd = "PING" /\ Respond(c, cmd, data)
  BY <1>1, <1>10, <1>7
<1>11. CASE Respond(c, cmd, <<>>)
  BY <1>6, <1>11, <1>7
<1>12. CASE Respond(c, cmd, <<<<0, 1>>>>)
  BY <1>4, <1>12, <1>7
<1>13. CASE SendError(c, "INVALID_CMD")
  BY <1>2, <1>13, SendErrorSays
<1>14. \/ cmd = "CBOR"
       \/ cmd = "INIT" /\ HandleInit(c, data, others)
       \/ cmd = "PING" /\ Respond(c, cmd, data)
       \/ Respond(c, cmd, <<>>) \/ Respond(c, cmd, <<<<0, 1>>>>)
       \/ SendError(c, "INVALID_CMD")
  BY Zenon DEF Handle
<1>. QED BY <1>8, <1>9, <1>10, <1>11, <1>12, <1>13, <1>14

LEMMA StoreSays ==
  ASSUME NEW c \in Channels, NEW bufs, NEW buf, buf.cmd \in CommandType,
         buf.data \in ByteSeq, Store(bufs, c, buf)
  PROVE  Said(reply', sent')
<1>1. CASE Len(buf.data) = buf.len
  BY <1>1, HandleSays DEF Store
<1>2. CASE Len(buf.data) # buf.len
  BY <1>2 DEF Store, Silent, Said
<1>. QED BY <1>1, <1>2

LEMMA InitialSays ==
  ASSUME Inv, NEW c \in Channels, NEW cmd \in CommandType \cup {"unknown"}, NEW len \in Nat,
         ReceiveInitial(c, cmd, len)
  PROVE  Said(reply', sent')
<1>1. CASE cmd = "unknown"
  <2>1. "INVALID_CMD" \in DOMAIN Code
    BY DEF Code
  <2>. QED BY <1>1, <2>1, SendErrorSays DEF ReceiveInitial
<1>2. CASE cmd # "unknown"
  <2>1. PICK n \in Nat : Store(Fresh, c, [cmd |-> cmd, len |-> len, seq |-> -1, at |-> now,
                                          data |-> Bytes(n)])
    BY <1>2, Constants DEF ReceiveInitial
  <2>2. Bytes(n) \in ByteSeq
    BY DEF Bytes, ByteSeq, Inv
  <2>. QED BY <1>2, <2>1, <2>2, StoreSays
<1>. QED BY <1>1, <1>2

LEMMA NextSays ==
  ASSUME Inv, NEW c \in Channels, NEW seq \in 0 .. SeqLimit - 1, ReceiveNext(c, seq)
  PROVE  Said(reply', sent')
<1>1. {"INVALID_CHANNEL", "INVALID_SEQ"} \subseteq DOMAIN Code
  BY DEF Code
<1>2. CASE SendError(c, "INVALID_CHANNEL") \/ SendError(c, "INVALID_SEQ")
  BY <1>1, <1>2, SendErrorSays
<1>3. CASE c \in DOMAIN Fresh /\ Store(Fresh, c, Extended(Fresh[c], seq))
  <2>. DEFINE old == Fresh[c]
              remaining == old.len - Len(old.data)
  <2>1. old \in Buffer /\ Partial(log, old, c)
    BY <1>3, FreshGood DEF GoodBuffers
  <2>. HIDE DEF old
  <2>2. PICK n \in Nat :
          Extended(old, seq) = [old EXCEPT !.seq = seq, !.at = now,
                                           !.data = old.data \o Bytes(n)]
    <3>1. remaining \in Nat
      BY <2>1 DEF Buffer, Partial
    <3>2. (IF remaining < InNext THEN remaining ELSE InNext) \in Nat
      BY <3>1, Constants
    <3>. QED BY <3>2 DEF Extended
  <2>3. Bytes(n) \in ByteSeq
    BY DEF Bytes, ByteSeq, Inv
  <2>4. /\ Extended(old, seq).cmd = old.cmd
        /\ Extended(old, seq).data = old.data \o Bytes(n)
    BY <2>1, <2>2 DEF Buffer
  <2>5. old.cmd \in CommandType /\ old.data \o Bytes(n) \in ByteSeq
    BY <2>1, <2>3 DEF Buffer, ByteSeq
  <2>. QED BY <1>3, <2>4, <2>5, StoreSays DEF old
<1>. QED BY <1>2, <1>3 DEF ReceiveNext

LEMMA SaidNext == Inv /\ Said(reply, sent) /\ [Next]_vars => Said(reply, sent)'
<1>. SUFFICES ASSUME Inv, Said(reply, sent), [Next]_vars PROVE Said(reply', sent')
  BY DEF Said
<1>1. CASE UNCHANGED vars
  BY <1>1 DEF vars
<1>2. CASE ReceiveOutput
  <2>1. ASSUME NEW p \in Initials, ReceiveInitial(p[1], p[2], p[3])
        PROVE  Said(reply', sent')
    BY <2>1, InitialSays, HidAssumption
  <2>2. ASSUME NEW p \in Subsequents, ReceiveNext(p[1], p[2])
        PROVE  Said(reply', sent')
    BY <2>2, NextSays, HidAssumption
  <2>. QED BY <1>2, <2>1, <2>2 DEF ReceiveOutput
<1>3. CASE Silent
  BY <1>3 DEF Silent, Said
<1>. QED BY <1>1, <1>2, <1>3 DEF Next, ProcessOpen, ProcessClose, ClockMoves

\* Whatever the channels, packet sizes and responses: the host reads back every
\* reply of at most OutFirst + SeqLimit * OutNext bytes, and takes no longer one for
\* a message.
THEOREM HostReadsExactly == Spec => []HostReadsReply
<1>1. Init => Said(reply, sent)
  BY DEF Init, Said
<1>. QED BY <1>1, InvInit, InvNext, SaidNext, SaidIsRead, PTL DEF Spec
=============================================================================
