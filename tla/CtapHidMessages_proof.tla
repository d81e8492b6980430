------------------------ MODULE CtapHidMessages_proof ------------------------
(***************************************************************************)
(* CtapHid implements HidMessages: the receive buffers hold what the log   *)
(* of packets says, so the frames relayed and the answers are those that   *)
(* the log calls for.                                                      *)
(***************************************************************************)
EXTENDS CtapHid_proof

\* These parts, entries of the log l, make the message that buf has so far.
Assembled(l, parts, buf) ==
  /\ Messages!InOrder(l, parts)
  /\ \E s \in parts : /\ Messages!IsStart(l[s])
                      /\ \A k \in parts : Messages!IsStart(l[k]) => k = s
                      /\ l[s].cmd = buf.cmd /\ l[s].len = buf.len
  /\ \A k \in parts :
       Messages!IsLast(k, parts) \/ Messages!Held(Messages!Place(l[k])) < buf.len
  /\ \A i, k \in parts : i < k => Messages!Place(l[i]) < Messages!Place(l[k])
  /\ \A m \in 1 .. Len(buf.data) : \E k \in parts :
       /\ Messages!Holds(l, k, m)
       /\ buf.data[m] = <<k, m - Messages!Held(Messages!Place(l[k]) - 1)>>

\* The message needs more, and at entry j it is not forgotten.
Collected(l, parts, j, buf) ==
  /\ Assembled(l, parts, buf)
  /\ \A k \in parts : Messages!Held(Messages!Place(l[k])) < buf.len
  /\ \E t \in parts : /\ Messages!IsLast(t, parts)
                      /\ Messages!Place(l[t]) = buf.seq
                      /\ l[t].time = buf.at
                      /\ Messages!Remembered(l, t, j)

Tracked(l, parts, j, bufs, c) ==
  IF c \in DOMAIN bufs THEN Collected(l, parts, j, bufs[c])
  ELSE ~Messages!Waiting(l, parts, j)

\* The buffers are the messages under way in the log l.
Tracks(l, bufs, c) == Tracked(l, Messages!Parts(l, c, Len(l)), Len(l), bufs, c)

MessagesInv == Inv /\ \A c \in Channels : Tracks(log, channels, c)

----------------------------------------------------------------------------
(* An entry more. *)

LEMMA Longer ==
  ASSUME NEW l \in Seq(Entries), NEW e \in Entries
  PROVE  /\ Len(l) \in Nat
         /\ Append(l, e) \in Seq(Entries)
         /\ Len(Append(l, e)) = Len(l) + 1
         /\ Append(l, e)[Len(l) + 1] = e
         /\ \A i \in 1 .. Len(l) : Append(l, e)[i] = l[i]
OBVIOUS

LEMMA PartsAmong ==
  ASSUME NEW l, NEW c, NEW j \in Nat
  PROVE  Messages!Parts(l, c, j) \subseteq 1 .. j
BY DEF Messages!Parts

LEMMA PartsBefore ==
  ASSUME NEW l \in Seq(Entries), NEW e \in Entries, NEW c
  PROVE  Messages!Parts(Append(l, e), c, Len(l)) = Messages!Parts(l, c, Len(l))
<1>1. \A k \in 1 .. Len(l), i \in 1 .. Len(l) : i \in k + 1 .. Len(l) => Append(l, e)[i] = l[i]
  BY Longer
<1>. QED BY Longer, <1>1 DEF Messages!Parts

LEMMA PartsOther ==
  ASSUME NEW l \in Seq(Entries), NEW e \in Entries, NEW c, ~Messages!Concerns(e, c)
  PROVE  Messages!Parts(Append(l, e), c, Len(l) + 1) = Messages!Parts(l, c, Len(l))
<1>. DEFINE m == Append(l, e)
            n == Len(l)
<1>1. /\ n \in Nat /\ m[n + 1] = e
      /\ \A i \in 1 .. n : m[i] = l[i]
  BY Longer
<1>. HIDE DEF m, n
<1>2. ~(e.ch = c /\ Messages!IsStart(e))
  BY DEF Messages!Concerns
<1>3. ASSUME NEW k \in 1 .. n
      PROVE  (\A i \in k + 1 .. n + 1 : ~(m[i].ch = c /\ Messages!IsStart(m[i])))
             <=> (\A i \in k + 1 .. n : ~(l[i].ch = c /\ Messages!IsStart(l[i])))
  BY <1>1, <1>2
<1>4. \A k \in 1 .. n + 1 : k \in 1 .. n \/ k = n + 1
  BY <1>1
<1>5. 1 .. n \subseteq 1 .. n + 1
  BY <1>1
<1>. QED BY <1>1, <1>3, <1>4, <1>5 DEF Messages!Parts, m, n

LEMMA PartsStart ==
  ASSUME NEW l \in Seq(Entries), NEW e \in Entries, Messages!IsStart(e)
  PROVE  Messages!Parts(Append(l, e), e.ch, Len(l) + 1) = {Len(l) + 1}
<1>. DEFINE m == Append(l, e)
            n == Len(l)
<1>1. n \in Nat /\ m[n + 1] = e
  BY Longer
<1>. HIDE DEF m, n
<1>2. ASSUME NEW k \in 1 .. n PROVE n + 1 \in k + 1 .. n + 1
  BY <1>1
<1>3. n + 1 \in 1 .. n + 1 /\ \A i \in n + 1 + 1 .. n + 1 : FALSE
  BY <1>1
<1>4. \A k \in 1 .. n + 1 : k \in 1 .. n \/ k = n + 1
  BY <1>1
<1>. QED BY <1>1, <1>2, <1>3, <1>4 DEF Messages!Parts, Messages!Concerns, m, n

LEMMA PartsNext ==
  ASSUME NEW l \in Seq(Entries), NEW e \in Entries, e.kind = "next"
  PROVE  Messages!Parts(Append(l, e), e.ch, Len(l) + 1)
           = Messages!Parts(l, e.ch, Len(l)) \cup {Len(l) + 1}
<1>. DEFINE m == Append(l, e)
            n == Len(l)
            c == e.ch
<1>1. /\ n \in Nat /\ m[n + 1] = e
      /\ \A i \in 1 .. n : m[i] = l[i]
  BY Longer
<1>2. ~Messages!IsStart(e) /\ Messages!Concerns(e, c)
  BY DEF Messages!IsStart, Messages!Concerns
<1>. HIDE DEF m, n, c
<1>3. ASSUME NEW k \in 1 .. n
      PROVE  (\A i \in k + 1 .. n + 1 : ~(m[i].ch = c /\ Messages!IsStart(m[i])))
             <=> (\A i \in k + 1 .. n : ~(l[i].ch = c /\ Messages!IsStart(l[i])))
  BY <1>1, <1>2
<1>4. n + 1 \in 1 .. n + 1 /\ \A i \in n + 1 + 1 .. n + 1 : FALSE
  BY <1>1
<1>5. \A k \in 1 .. n + 1 : k \in 1 .. n \/ k = n + 1
  BY <1>1
<1>6. 1 .. n \subseteq 1 .. n + 1
  BY <1>1
<1>. QED BY <1>1, <1>2, <1>3, <1>4, <1>5, <1>6 DEF Messages!Parts, m, n, c

LEMMA RememberedSame ==
  ASSUME NEW l \in Seq(Entries), NEW e \in Entries,
         NEW p \in 1 .. Len(l), NEW j \in 1 .. Len(l)
  PROVE  Messages!Remembered(Append(l, e), p, j) <=> Messages!Remembered(l, p, j)
<1>1. \A q \in p + 1 .. j : q \in 1 .. Len(l)
  BY Longer
<1>. QED BY <1>1, Longer DEF Messages!Remembered

LEMMA RememberedNext ==
  ASSUME NEW l \in Seq(Entries), NEW e \in Entries, NEW p \in 1 .. Len(l)
  PROVE  Messages!Remembered(Append(l, e), p, Len(l) + 1)
         <=> /\ Messages!Remembered(l, p, Len(l))
             /\ e.kind # "closed" /\ e.time - l[p].time < INACTIVITY
<1>. DEFINE m == Append(l, e)
            n == Len(l)
<1>1. /\ n \in Nat /\ m[n + 1] = e
      /\ \A i \in 1 .. n : m[i] = l[i]
  BY Longer
<1>. HIDE DEF m, n
<1>2. p \in 1 .. n
  BY DEF n
<1>3. \A q \in p + 1 .. n + 1 : q \in p + 1 .. n \/ q = n + 1
  BY <1>1, <1>2
<1>4. \A q \in p + 1 .. n : q \in 1 .. n /\ q \in p + 1 .. n + 1
  BY <1>1, <1>2
<1>5. n + 1 \in p + 1 .. n + 1
  BY <1>1, <1>2
<1>. QED BY <1>1, <1>2, <1>3, <1>4, <1>5 DEF Messages!Remembered, m, n

LEMMA InOrderSame ==
  ASSUME NEW l \in Seq(Entries), NEW e \in Entries, NEW parts, parts \subseteq 1 .. Len(l)
  PROVE  Messages!InOrder(Append(l, e), parts) <=> Messages!InOrder(l, parts)
<1>1. \A k \in parts : Append(l, e)[k] = l[k]
  BY Longer
<1>2. \A p, k \in parts :
        Messages!Follows(Append(l, e), parts, p, k) <=> Messages!Follows(l, parts, p, k)
  BY <1>1, RememberedSame DEF Messages!Follows
<1>. QED BY <1>1, <1>2 DEF Messages!InOrder

LEMMA AssembledSame ==
  ASSUME NEW l \in Seq(Entries), NEW e \in Entries, NEW parts, parts \subseteq 1 .. Len(l),
         NEW buf, Assembled(l, parts, buf)
  PROVE  Assembled(Append(l, e), parts, buf)
<1>1. \A k \in parts : Append(l, e)[k] = l[k]
  BY Longer
<1>. QED BY <1>1, InOrderSame DEF Assembled, Messages!Holds

----------------------------------------------------------------------------
(* Of the message of some parts. *)

LEMMA StartIs ==
  ASSUME NEW l, NEW parts, NEW s \in parts, Messages!IsStart(l[s]),
         \A k \in parts : Messages!IsStart(l[k]) => k = s
  PROVE  Messages!Start(l, parts) = l[s]
<1>1. (CHOOSE k \in parts : Messages!IsStart(l[k])) = s
  OBVIOUS
<1>. QED BY <1>1 DEF Messages!Start

LEMMA OneStart ==
  ASSUME NEW l, NEW c, NEW j \in Nat,
         NEW s \in Messages!Parts(l, c, j), NEW k \in Messages!Parts(l, c, j),
         Messages!IsStart(l[s]), Messages!IsStart(l[k])
  PROVE  k = s
<1>1. /\ s \in 1 .. j /\ l[s].ch = c
      /\ \A i \in s + 1 .. j : ~(l[i].ch = c /\ Messages!IsStart(l[i]))
  BY DEF Messages!Parts, Messages!Concerns
<1>2. /\ k \in 1 .. j /\ l[k].ch = c
      /\ \A i \in k + 1 .. j : ~(l[i].ch = c /\ Messages!IsStart(l[i]))
  BY DEF Messages!Parts, Messages!Concerns
<1>3. k \notin s + 1 .. j /\ s \notin k + 1 .. j
  BY <1>1, <1>2
<1>. QED BY <1>1, <1>2, <1>3

LEMMA StartOf ==
  ASSUME NEW l, NEW parts, NEW buf, Assembled(l, parts, buf)
  PROVE  Messages!Start(l, parts).cmd = buf.cmd /\ Messages!Start(l, parts).len = buf.len
BY StartIs DEF Assembled

LEMMA CollectedWaits ==
  ASSUME NEW l, NEW parts, parts \subseteq Int, NEW j, NEW buf, Collected(l, parts, j, buf)
  PROVE  Messages!Waiting(l, parts, j)
<1>1. Assembled(l, parts, buf)
  BY DEF Collected
<1>2. PICK t \in parts : Messages!IsLast(t, parts) /\ Messages!Remembered(l, t, j)
  BY DEF Collected
<1>3. \A k \in parts : Messages!IsLast(k, parts) => k = t
  BY <1>2 DEF Messages!IsLast
<1>4. \A k \in parts : Messages!Held(Messages!Place(l[k])) < Messages!Start(l, parts).len
  BY <1>1, StartOf DEF Collected
<1>5. Messages!InOrder(l, parts)
  BY <1>1 DEF Assembled
<1>. QED BY <1>2, <1>3, <1>4, <1>5 DEF Messages!Waiting

\* The channels with a buffer are those on which a message waits.
LEMMA BusyChannels ==
  ASSUME NEW l \in Seq(Entries), NEW bufs, DOMAIN bufs \subseteq Channels,
         \A c \in Channels : Tracks(l, bufs, c)
  PROVE  Messages!Busy(l, Len(l)) = DOMAIN bufs
<1>1. ASSUME NEW c \in Channels
      PROVE  c \in DOMAIN bufs
             <=> Messages!Waiting(l, Messages!Parts(l, c, Len(l)), Len(l))
  <2>1. Messages!Parts(l, c, Len(l)) \subseteq Int
    BY PartsAmong
  <2>. QED BY <2>1, CollectedWaits DEF Tracks, Tracked
<1>. QED BY <1>1 DEF Messages!Busy

----------------------------------------------------------------------------
(* The removal of stale buffers. *)

\* What waits after one entry more, and is not continued by it, waited before.
LEMMA WaitedBefore ==
  ASSUME NEW l \in Seq(Entries), NEW e \in Entries, NEW c,
         NEW parts, parts = Messages!Parts(l, c, Len(l)),
         Messages!Waiting(Append(l, e), parts, Len(l) + 1)
  PROVE  Messages!Waiting(l, parts, Len(l))
<1>. DEFINE n == Len(l)
            m == Append(l, e)
<1>1. n \in Nat /\ parts \subseteq 1 .. n
  BY Longer, PartsAmong
<1>2. \A k \in parts : m[k] = l[k]
  BY <1>1, Longer
<1>3. \A k \in parts : Messages!Remembered(m, k, n + 1) => Messages!Remembered(l, k, n)
  BY <1>1, RememberedNext
<1>4. Messages!InOrder(l, parts)
  BY <1>1, InOrderSame DEF Messages!Waiting
<1>5. Messages!Start(m, parts) = Messages!Start(l, parts)
  <2>1. PICK s \in parts : Messages!IsStart(l[s])
    BY <1>4 DEF Messages!InOrder
  <2>2. \A k \in parts : Messages!IsStart(l[k]) => k = s
    BY <1>1, <2>1, OneStart
  <2>3. Messages!Start(l, parts) = l[s]
    BY <2>1, <2>2, StartIs
  <2>4. Messages!Start(m, parts) = m[s]
    BY <1>2, <2>1, <2>2, StartIs
  <2>. QED BY <1>2, <2>1, <2>3, <2>4
<1>. QED BY <1>2, <1>3, <1>4, <1>5 DEF Messages!Waiting

LEMMA StillTracked ==
  ASSUME Inv, NEW e \in Entries, e.kind # "closed", e.time = now,
         NEW c \in Channels, Tracks(log, channels, c)
  PROVE  Tracked(Append(log, e), Messages!Parts(log, c, Len(log)), Len(log) + 1, Fresh, c)
<1>. DEFINE n == Len(log)
            m == Append(log, e)
            parts == Messages!Parts(log, c, n)
<1>1. log \in Seq(Entries) /\ n \in Nat
  BY Longer DEF Inv
<1>2. parts \subseteq 1 .. n
  BY <1>1, PartsAmong
<1>3. \A k \in parts : m[k] = log[k]
  BY <1>1, <1>2, Longer
<1>4. \A k \in parts : Messages!Remembered(m, k, n + 1)
                       <=> Messages!Remembered(log, k, n) /\ now - log[k].time < INACTIVITY
  BY <1>1, <1>2, RememberedNext
<1>. HIDE DEF m, parts, n
<1>5. CASE c \notin DOMAIN channels
  <2>1. ~Messages!Waiting(log, parts, n)
    BY <1>5 DEF Tracks, Tracked, parts, n
  <2>2. ~Messages!Waiting(m, parts, n + 1)
    BY <1>1, <2>1, WaitedBefore DEF m, parts, n
  <2>3. c \notin DOMAIN Fresh
    BY <1>5 DEF Fresh, Restrict
  <2>. QED BY <2>2, <2>3 DEF Tracked, m, parts, n
<1>6. CASE c \in DOMAIN channels
  <2>. DEFINE buf == channels[c]
  <2>1. Collected(log, parts, n, buf)
    BY <1>6 DEF Tracks, Tracked, parts, n
  <2>2. PICK t \in parts : /\ Messages!IsLast(t, parts)
                           /\ Messages!Place(log[t]) = buf.seq
                           /\ log[t].time = buf.at
                           /\ Messages!Remembered(log, t, n)
    BY <2>1 DEF Collected
  <2>3. Assembled(m, parts, buf)
    BY <1>1, <1>2, <2>1, AssembledSame DEF Collected, m, n
  <2>4. \A k \in parts : Messages!Held(Messages!Place(m[k])) < buf.len
    BY <1>3, <2>1 DEF Collected
  <2>5. CASE now - buf.at < INACTIVITY
    <3>1. c \in DOMAIN Fresh /\ Fresh[c] = buf
      BY <1>6, <2>5 DEF Fresh, Restrict
    <3>2. Collected(m, parts, n + 1, buf)
      BY <1>3, <1>4, <2>2, <2>3, <2>4, <2>5 DEF Collected
    <3>. QED BY <3>1, <3>2 DEF Tracked, m, parts, n
  <2>6. CASE ~(now - buf.at < INACTIVITY)
    <3>1. c \notin DOMAIN Fresh
      BY <2>6 DEF Fresh, Restrict
    <3>2. ~Messages!Waiting(m, parts, n + 1)
      BY <1>4, <2>2, <2>6 DEF Messages!Waiting
    <3>. QED BY <3>1, <3>2 DEF Tracked, m, parts, n
  <2>. QED BY <2>5, <2>6
<1>. QED BY <1>5, <1>6

----------------------------------------------------------------------------
(* What packets hold. *)

LEMMA PlaceOf ==
  ASSUME NEW e \in Entries
  PROVE  Messages!Place(e) \in Int /\ Messages!Place(e) >= -1
BY Constants DEF Messages!Place, Entries

LEMMA HeldUpTo ==
  /\ Messages!Held(-2) = 0
  /\ Messages!Held(-1) = InFirst
  /\ \A n \in Int : Messages!Held(n) \in Nat
  /\ \A n \in Int : n >= -1 => Messages!Held(n) = InFirst + (n + 1) * InNext
  /\ \A n \in Int : n >= -1 => Messages!Held(n + 1) = Messages!Held(n) + InNext
  /\ \A i, k \in Int : i <= k => Messages!Held(i) <= Messages!Held(k)
<1>1. InFirst \in Nat /\ InNext \in Nat
  BY Constants
<1>2. \A n \in Int : n >= -1 => Messages!Held(n) = InFirst + (n + 1) * InNext
  BY <1>1 DEF Messages!Held
<1>3. \A n \in Int : n < -1 => Messages!Held(n) = 0
  BY DEF Messages!Held
<1>4. \A n \in Int : n >= -1 => (n + 1) * InNext \in Nat
  BY <1>1
<1>5. \A n \in Int : Messages!Held(n) \in Nat
  BY <1>1, <1>2, <1>3, <1>4
<1>6. \A n \in Int : (n + 1 + 1) * InNext = (n + 1) * InNext + InNext
  BY <1>1
<1>7. \A i, k \in Int : i <= k => (i + 1) * InNext <= (k + 1) * InNext
  BY <1>1
<1>8. \A n \in Int : n >= -1 => Messages!Held(n + 1) = Messages!Held(n) + InNext
  BY <1>1, <1>2, <1>4, <1>6
<1>9. ASSUME NEW i \in Int, NEW k \in Int, i <= k
      PROVE  Messages!Held(i) <= Messages!Held(k)
  <2>1. CASE i < -1
    BY <1>3, <1>5, <2>1
  <2>2. CASE i >= -1
    BY <1>1, <1>2, <1>4, <1>7, <1>9, <2>2
  <2>. QED BY <2>1, <2>2
<1>10. Messages!Held(-1) = InFirst
  BY <1>1, <1>2
<1>. QED BY <1>3, <1>2, <1>5, <1>8, <1>9, <1>10

LEMMA InitialAssembled ==
  ASSUME Inv, NEW e \in Entries, Messages!IsStart(e),
         NEW buf, buf.cmd = e.cmd, buf.len = e.len,
         buf.data = Bytes(IF e.len < InFirst THEN e.len ELSE InFirst)
  PROVE  Assembled(Append(log, e), {Len(log) + 1}, buf)
<1>. DEFINE m == Append(log, e)
            n == Len(log)
            size == IF e.len < InFirst THEN e.len ELSE InFirst
<1>1. n \in Nat /\ m[n + 1] = e
  BY Longer DEF Inv
<1>2. size \in Nat /\ size <= InFirst
  BY Constants DEF Entries
<1>3. /\ Len(buf.data) = size
      /\ \A k \in 1 .. size : buf.data[k] = <<n + 1, k>>
  <2>. HIDE DEF size
  <2>1. Bytes(size) = [k \in 1 .. size |-> <<n + 1, k>>]
    BY DEF Bytes
  <2>2. Len(Bytes(size)) = size
    BY <1>2, <2>1
  <2>. QED BY <2>1, <2>2 DEF size
<1>4. Messages!Place(e) = -1
  BY DEF Messages!Place
<1>. HIDE DEF m, n, size
<1>5. Messages!InOrder(m, {n + 1})
  BY <1>1 DEF Messages!InOrder
<1>6. Messages!IsLast(n + 1, {n + 1})
  BY <1>1 DEF Messages!IsLast
<1>7. ASSUME NEW k \in 1 .. size
      PROVE  /\ Messages!Holds(m, n + 1, k)
             /\ buf.data[k] = <<n + 1, k - Messages!Held(Messages!Place(m[n + 1]) - 1)>>
  <2>1. Messages!Held(Messages!Place(m[n + 1]) - 1) = 0 /\ Messages!Held(Messages!Place(m[n + 1])) = InFirst
    BY <1>1, <1>4, HeldUpTo
  <2>2. k - 0 = k /\ 0 < k /\ k <= InFirst
    BY <1>2, Constants
  <2>. QED BY <1>3, <2>1, <2>2 DEF Messages!Holds
<1>8. ~(n + 1 < n + 1)
  BY <1>1
<1>. QED BY <1>1, <1>3, <1>5, <1>6, <1>7, <1>8 DEF Assembled, m, n

LEMMA NextAssembled ==
  ASSUME Inv, NEW e \in Entries, e.kind = "next",
         NEW parts, parts \subseteq 1 .. Len(log),
         NEW old \in Buffer, Collected(Append(log, e), parts, Len(log) + 1, old),
         Len(old.data) = InFirst + (old.seq + 1) * InNext, e.seq = old.seq + 1,
         NEW size \in 0 .. InNext,
         NEW buf, buf.cmd = old.cmd, buf.len = old.len, buf.data = old.data \o Bytes(size)
  PROVE  Assembled(Append(log, e), parts \cup {Len(log) + 1}, buf)
<1>. DEFINE m == Append(log, e)
            n == Len(log)
            all == parts \cup {n + 1}
            had == Len(old.data)
<1>1. n \in Nat /\ m[n + 1] = e /\ parts \subseteq 1 .. n
  BY Longer DEF Inv
<1>2. /\ old.data \in ByteSeq /\ had \in Nat /\ old.seq \in Int /\ old.seq >= -1
      /\ old.len \in Nat
  BY Constants DEF Buffer, ByteSeq
<1>3. /\ had = Messages!Held(old.seq)
      /\ Messages!Held(old.seq + 1) = had + InNext
      /\ Messages!Held(old.seq + 1 - 1) = had
  <2>1. had = Messages!Held(old.seq) /\ Messages!Held(old.seq + 1) = Messages!Held(old.seq) + InNext
    BY <1>2, HeldUpTo
  <2>2. old.seq + 1 - 1 = old.seq
    BY <1>2
  <2>. QED BY <2>1, <2>2
<1>4. ~Messages!IsStart(e) /\ Messages!Place(e) = old.seq + 1
  BY DEF Messages!IsStart, Messages!Place
<1>. HIDE DEF m, n, had
<1>5. /\ Assembled(m, parts, old)
      /\ \A k \in parts : Messages!Held(Messages!Place(m[k])) < old.len
  BY DEF Collected, m, n
<1>6. PICK t \in parts : /\ Messages!IsLast(t, parts)
                         /\ Messages!Place(m[t]) = old.seq
                         /\ Messages!Remembered(m, t, n + 1)
  BY DEF Collected, m, n
<1>7. \A k \in all : k \in parts \/ k = n + 1
  OBVIOUS
<1>8. \A k \in parts : k \in Int /\ k < n + 1 /\ k <= t
  BY <1>1, <1>6 DEF Messages!IsLast
<1>9. \A k \in parts : m[k] \in Entries
  <2>1. m \in Seq(Entries) /\ \A k \in 1 .. n : k \in 1 .. Len(m)
    BY Longer DEF Inv, m, n
  <2>. QED BY <1>1, <2>1, ElementOf
<1>10. Messages!InOrder(m, all)
  <2>1. Messages!InOrder(m, parts)
    BY <1>5 DEF Assembled
  <2>2. \A p, k \in parts : Messages!Follows(m, parts, p, k) => Messages!Follows(m, all, p, k)
    BY <1>7, <1>8, <1>1 DEF Messages!Follows
  <2>3. Messages!Follows(m, all, t, n + 1)
    BY <1>1, <1>4, <1>6, <1>7, <1>8 DEF Messages!Follows
  <2>. QED BY <2>1, <2>2, <2>3 DEF Messages!InOrder
<1>11. \E s \in all : /\ Messages!IsStart(m[s])
                      /\ \A k \in all : Messages!IsStart(m[k]) => k = s
                      /\ m[s].cmd = buf.cmd /\ m[s].len = buf.len
  BY <1>1, <1>4, <1>5 DEF Assembled
<1>12. \A k \in all :
         Messages!IsLast(k, all) \/ Messages!Held(Messages!Place(m[k])) < buf.len
  <2>1. Messages!IsLast(n + 1, all)
    BY <1>1, <1>7, <1>8 DEF Messages!IsLast
  <2>. QED BY <1>5, <1>7, <2>1
<1>13. \A i, k \in all : i < k => Messages!Place(m[i]) < Messages!Place(m[k])
  <2>1. \A i, k \in parts : i < k => Messages!Place(m[i]) < Messages!Place(m[k])
    BY <1>5 DEF Assembled
  <2>2. ASSUME NEW i \in parts PROVE Messages!Place(m[i]) < old.seq + 1
    <3>1. Messages!Place(m[i]) <= old.seq
      <4>1. i = t \/ i < t
        BY <1>8
      <4>2. Messages!Place(m[i]) \in Int
        BY <1>9, PlaceOf
      <4>. QED BY <1>2, <1>6, <2>1, <4>1, <4>2
    <3>. QED BY <1>2, <1>9, <3>1, PlaceOf
  <2>3. \A i \in all : ~(n + 1 < i)
    BY <1>1, <1>7, <1>8
  <2>. QED BY <1>1, <1>4, <1>7, <2>1, <2>2, <2>3
<1>14. ASSUME NEW k \in 1 .. Len(buf.data)
       PROVE  \E i \in all : /\ Messages!Holds(m, i, k)
                             /\ buf.data[k] = <<i, k - Messages!Held(Messages!Place(m[i]) - 1)>>
  <2>. DEFINE new == Bytes(size)
  <2>1. new = [i \in 1 .. size |-> <<n + 1, i>>]
    BY DEF Bytes, n
  <2>2. new \in ByteSeq /\ Len(new) = size
    <3>1. size \in Nat
      BY Constants
    <3>. QED BY <3>1, BytesFrom DEF Inv
  <2>. HIDE DEF new
  <2>3. /\ Len(buf.data) = had + size
        /\ \A i \in 1 .. had : buf.data[i] = old.data[i]
        /\ \A i \in had + 1 .. had + size : buf.data[i] = new[i - had]
    <3>1. \A a, b \in ByteSeq :
            /\ Len(a \o b) = Len(a) + Len(b)
            /\ \A i \in 1 .. Len(a) : (a \o b)[i] = a[i]
            /\ \A i \in Len(a) + 1 .. Len(a) + Len(b) : (a \o b)[i] = b[i - Len(a)]
      BY DEF ByteSeq
    <3>2. buf.data = old.data \o new
      BY DEF new
    <3>3. /\ Len(old.data \o new) = Len(old.data) + Len(new)
          /\ \A i \in 1 .. Len(old.data) : (old.data \o new)[i] = old.data[i]
          /\ \A i \in Len(old.data) + 1 .. Len(old.data) + Len(new) :
               (old.data \o new)[i] = new[i - Len(old.data)]
      BY <1>2, <2>2, <3>1, Zenon
    <3>. QED BY <2>2, <3>2, <3>3, Zenon DEF had
  <2>4. CASE k <= had
    <3>1. k \in 1 .. had
      BY <1>2, <2>4
    <3>2. \E i \in parts : /\ Messages!Holds(m, i, k)
                           /\ old.data[k] = <<i, k - Messages!Held(Messages!Place(m[i]) - 1)>>
      BY <1>5, <3>1 DEF Assembled, had
    <3>. QED BY <2>3, <3>1, <3>2
  <2>5. CASE k > had
    <3>1. k \in had + 1 .. had + size /\ k - had \in 1 .. size /\ k <= had + InNext
      <4>1. \A a \in Nat, b \in 0 .. InNext : \A i \in 1 .. a + b : i > a =>
              i \in a + 1 .. a + b /\ i - a \in 1 .. b /\ i <= a + InNext
        BY Constants
      <4>2. k \in 1 .. had + size
        BY <2>3
      <4>. QED BY <1>2, <2>5, <4>1, <4>2
    <3>2. buf.data[k] = <<n + 1, k - had>>
      BY <2>1, <2>3, <3>1
    <3>3. Messages!Held(Messages!Place(m[n + 1]) - 1) = had
      <4>1. Messages!Place(m[n + 1]) = old.seq + 1
        BY <1>1, <1>4
      <4>. QED BY <1>2, <1>3, <4>1
    <3>4. Messages!Holds(m, n + 1, k)
      <4>1. Messages!Held(Messages!Place(m[n + 1])) = had + InNext
        BY <1>1, <1>3, <1>4
      <4>2. had < k /\ k <= had + InNext
        BY <1>2, <2>5, <3>1
      <4>. QED BY <3>3, <4>1, <4>2 DEF Messages!Holds
    <3>. QED BY <3>2, <3>3, <3>4
  <2>6. k <= had \/ k > had
    <3>1. \A a \in Nat, b \in 0 .. InNext : \A i \in 1 .. a + b : i <= a \/ i > a
      BY Constants
    <3>. QED BY <1>2, <2>3, <3>1
  <2>. QED BY <2>4, <2>5, <2>6
<1>. QED BY <1>10, <1>11, <1>12, <1>13, <1>14 DEF Assembled, m, n

----------------------------------------------------------------------------
(* A packet that does not continue a message. *)

LEMMA NotContinued ==
  ASSUME MessagesInv, NEW e \in Entries, e.kind = "next", e.time = now,
         e.ch \in DOMAIN Fresh => e.seq # Fresh[e.ch].seq + 1,
         NEW all, all = Messages!Parts(Append(log, e), e.ch, Len(log) + 1)
  PROVE  ~Messages!Complete(Append(log, e), all)
         /\ ~Messages!Waiting(Append(log, e), all, Len(log) + 1)
<1>. DEFINE m == Append(log, e)
            n == Len(log)
            c == e.ch
            parts == Messages!Parts(log, c, n)
<1>1. /\ log \in Seq(Entries) /\ m \in Seq(Entries) /\ n \in Nat /\ m[n + 1] = e
      /\ Len(m) = n + 1
  BY Longer DEF MessagesInv, Inv
<1>2. parts \subseteq 1 .. n /\ all = parts \cup {n + 1}
  BY <1>1, PartsAmong, PartsNext
<1>3. Tracked(m, parts, n + 1, Fresh, c)
  BY StillTracked DEF MessagesInv, Entries
<1>4. ~Messages!IsStart(e) /\ Messages!Place(e) = e.seq
  BY DEF Messages!IsStart, Messages!Place
<1>5. parts = Messages!Parts(m, c, n)
  BY <1>1, PartsBefore
<1>. HIDE DEF m, n, parts
<1>6. \A k \in parts : k \in Int /\ k < n + 1
  BY <1>1, <1>2
<1>7. \A k \in all : m[k] \in Entries
  BY <1>1, <1>2, ElementOf
<1>8. \A k \in all : Messages!Held(Messages!Place(m[k])) \in Nat
  BY <1>7, PlaceOf, HeldUpTo
<1>9. SUFFICES ASSUME Messages!InOrder(m, all),
                      \A k \in all : \/ Messages!IsLast(k, all)
                                     \/ Messages!Held(Messages!Place(m[k]))
                                          < Messages!Start(m, all).len
               PROVE  FALSE
  <2>1. ASSUME Messages!InOrder(m, all)
        PROVE  Messages!Start(m, all).len \in Nat
    <3>1. PICK s \in all : Messages!IsStart(m[s])
      BY <2>1 DEF Messages!InOrder
    <3>2. Messages!Start(m, all) = m[s]
      <4>1. \A k \in all : Messages!IsStart(m[k]) => k = s
        <5>1. all = Messages!Parts(m, c, n + 1) /\ n + 1 \in Nat
          BY <1>1 DEF m, n
        <5>. QED BY <3>1, <5>1, OneStart
      <4>. QED BY <3>1, <4>1, StartIs
    <3>. QED BY <1>7, <3>1, <3>2 DEF Entries
  <2>2. \A x, y \in Nat : ~(x >= y) => x < y
    OBVIOUS
  <2>. QED BY <1>8, <2>1, <2>2 DEF Messages!Complete, Messages!Waiting, m, n
<1>10. PICK p \in all : Messages!Follows(m, all, p, n + 1)
  BY <1>1, <1>2, <1>4, <1>9 DEF Messages!InOrder
<1>11. p \in parts /\ Messages!IsLast(p, parts)
  BY <1>1, <1>2, <1>6, <1>10 DEF Messages!Follows, Messages!IsLast
<1>12. Messages!Remembered(m, p, n + 1) /\ e.seq = Messages!Place(m[p]) + 1
  BY <1>1, <1>4, <1>10 DEF Messages!Follows
<1>13. PICK s \in parts : Messages!IsStart(m[s])
  BY <1>1, <1>2, <1>4, <1>9 DEF Messages!InOrder
<1>14. Messages!InOrder(m, parts)
  <2>1. ASSUME NEW k \in parts, NEW q \in all, Messages!Follows(m, all, q, k)
        PROVE  q \in parts /\ Messages!Follows(m, parts, q, k)
    BY <1>1, <1>2, <1>6, <2>1 DEF Messages!Follows
  <2>. QED BY <1>2, <1>9, <1>13, <2>1 DEF Messages!InOrder
<1>15. Messages!Start(m, parts) = m[s] /\ Messages!Start(m, all) = m[s]
  <2>1. \A k \in parts : Messages!IsStart(m[k]) => k = s
    BY <1>1, <1>5, <1>13, OneStart
  <2>2. \A k \in all : Messages!IsStart(m[k]) => k = s
    BY <1>1, <1>2, <1>4, <2>1
  <2>. QED BY <1>2, <1>13, <2>1, <2>2, StartIs
<1>16. \A k \in parts : Messages!Held(Messages!Place(m[k])) < Messages!Start(m, parts).len
  <2>1. \A k \in parts : ~Messages!IsLast(k, all)
    BY <1>1, <1>2, <1>6 DEF Messages!IsLast
  <2>. QED BY <1>2, <1>9, <1>15, <2>1
<1>17. \A k \in parts : Messages!IsLast(k, parts) => k = p
  BY <1>6, <1>11 DEF Messages!IsLast
<1>18. Messages!Waiting(m, parts, n + 1)
  BY <1>12, <1>14, <1>16, <1>17 DEF Messages!Waiting
<1>19. c \in DOMAIN Fresh /\ Collected(m, parts, n + 1, Fresh[c])
  BY <1>3, <1>18 DEF Tracked
<1>20. Messages!Place(m[p]) = Fresh[c].seq
  BY <1>17, <1>19 DEF Collected
<1>. QED BY <1>12, <1>19, <1>20

----------------------------------------------------------------------------
(* The bytes of a complete message. *)

LEMMA OneHolder ==
  ASSUME NEW l \in Seq(Entries), NEW parts, parts \subseteq 1 .. Len(l),
         NEW buf, Assembled(l, parts, buf), NEW m \in Int,
         NEW i \in parts, NEW k \in parts, Messages!Holds(l, i, m), Messages!Holds(l, k, m)
  PROVE  i = k
<1>1. Len(l) \in Nat
  OBVIOUS
<1>2. \A x \in parts : x \in Int /\ Messages!Place(l[x]) \in Int
  BY <1>1, ElementOf, PlaceOf
<1>3. ASSUME NEW x \in parts, NEW y \in parts, x < y,
             Messages!Holds(l, x, m), Messages!Holds(l, y, m)
      PROVE  FALSE
  <2>1. PICK a, b \in Int : a = Messages!Place(l[x]) /\ b = Messages!Place(l[y])
    BY <1>2
  <2>2. a < b
    BY <1>3, <2>1 DEF Assembled
  <2>3. a <= b - 1 /\ b - 1 \in Int
    BY <2>2
  <2>4. Messages!Held(a) <= Messages!Held(b - 1)
    BY <2>3, HeldUpTo
  <2>5. Messages!Held(b - 1) < m /\ m <= Messages!Held(a)
    BY <1>3, <2>1 DEF Messages!Holds
  <2>6. Messages!Held(a) \in Int /\ Messages!Held(b - 1) \in Int
    <3>1. PICK d \in Int : d = b - 1
      BY <2>3
    <3>2. \A n \in Int : Messages!Held(n) \in Nat
      BY HeldUpTo
    <3>3. Messages!Held(a) \in Nat /\ Messages!Held(d) \in Nat
      BY <3>2
    <3>. QED BY <3>1, <3>3
  <2>. QED BY <2>4, <2>5, <2>6
<1>. QED BY <1>2, <1>3

LEMMA PayloadIs ==
  ASSUME NEW l \in Seq(Entries), NEW parts, parts \subseteq 1 .. Len(l),
         NEW buf, Assembled(l, parts, buf), buf.data \in ByteSeq, Len(buf.data) = buf.len
  PROVE  Messages!Payload(l, parts) = buf.data
<1>. DEFINE Holder(m) == CHOOSE k \in parts : Messages!Holds(l, k, m)
<1>1. Messages!Start(l, parts).len = Len(buf.data)
  BY StartOf
<1>2. ASSUME NEW m \in 1 .. Len(buf.data)
      PROVE  <<Holder(m), m - Messages!Held(Messages!Place(l[Holder(m)]) - 1)>> = buf.data[m]
  <2>1. PICK k \in parts :
          /\ Messages!Holds(l, k, m)
          /\ buf.data[m] = <<k, m - Messages!Held(Messages!Place(l[k]) - 1)>>
    BY DEF Assembled
  <2>2. Holder(m) \in parts /\ Messages!Holds(l, Holder(m), m)
    BY <2>1
  <2>3. m \in Int
    OBVIOUS
  <2>. HIDE DEF Holder
  <2>4. Holder(m) = k
    BY <2>1, <2>2, <2>3, OneHolder
  <2>. QED BY <2>1, <2>4
<1>3. buf.data = [m \in 1 .. Len(buf.data) |-> buf.data[m]]
  BY DEF ByteSeq
<1>4. Messages!Payload(l, parts) =
        [m \in 1 .. Len(buf.data) |->
           <<Holder(m), m - Messages!Held(Messages!Place(l[Holder(m)]) - 1)>>]
  BY <1>1, Zenon DEF Messages!Payload
<1>. HIDE DEF Holder
<1>. QED BY <1>2, <1>3, <1>4

----------------------------------------------------------------------------
(* Answers. *)

LEMMA FitsEncodable ==
  ASSUME NEW S, NEW data \in Seq(S), Len(data) <= OutFirst + 2 * SeqLimit * OutNext
  PROVE  Encodable(data)
<1>1. /\ OutFirst \in Nat \ {0} /\ OutNext \in Nat \ {0} /\ SeqLimit \in Nat \ {0}
      /\ Len(data) \in Nat
  BY WireAssumption
<1>2. PICK limit \in Nat : limit = 2 * SeqLimit
  BY <1>1
<1>3. limit * OutNext \in Nat /\ Len(data) <= OutFirst + limit * OutNext
  BY <1>1, <1>2
<1>4. CASE Len(data) <= OutFirst
  BY <1>1, <1>4 DEF Encodable, Continuations
<1>5. CASE Len(data) > OutFirst
  <2>1. PICK rest \in Nat : rest = Len(data) - OutFirst
    BY <1>1, <1>5
  <2>2. \A a \in Nat, b \in Nat \ {0}, c \in Nat : a <= c * b => (a + b - 1) \div b <= c
    OBVIOUS
  <2>3. rest <= limit * OutNext
    BY <1>1, <1>3, <2>1
  <2>4. Continuations(data) = (rest + OutNext - 1) \div OutNext
    BY <1>1, <1>5, <2>1 DEF Continuations
  <2>. QED BY <1>1, <1>2, <2>2, <2>3, <2>4 DEF Encodable
<1>. QED BY <1>1, <1>4, <1>5

LEMMA SendAnswers ==
  ASSUME Len(log') = Len(log) + 1, NEW c, NEW kind, NEW cmd, NEW data,
         Send(c, kind, cmd, data)
  PROVE  Messages!Answers(c, kind)
BY DEF Send, Messages!Answers

LEMMA RespondAnswers ==
  ASSUME Len(log') = Len(log) + 1, NEW c, NEW cmd, NEW data, Respond(c, cmd, data)
  PROVE  /\ Messages!Answers(c, cmd) \/ Messages!Answers(c, "ERR_OTHER")
         /\ Encodable(data) => Messages!Answers(c, cmd)
BY SendAnswers DEF Respond, SendError

LEMMA SameCardinality == \A S : Messages!Cardinality(S) = Cardinality(S)
BY DEF Cardinality, Messages!Cardinality

\* A handler answers as HidMessages says, and relays the message if it is CBOR.
LEMMA HandleServes ==
  ASSUME Len(log') = Len(log) + 1,
         NEW c \in Channels, NEW cmd, NEW data \in ByteSeq, NEW others,
         Len(data) <= InFirst + SeqLimit * InNext,
         Handle(c, cmd, data, others)
  PROVE  /\ Messages!Served(c, cmd, Len(data), DOMAIN others)
         /\ relayed' = IF cmd = "CBOR"
                         THEN Append(relayed, [at |-> Len(log'), ch |-> c, frame |-> data])
                         ELSE relayed
<1>. DEFINE WireData == Seq(Int \X (Int \cup Channels))
            Room == OutFirst + 2 * SeqLimit * OutNext
<1>1. data \in WireData
  BY DEF ByteSeq
<1>2. /\ Len(data) <= Room /\ NonceLength + 2 <= Room /\ 0 <= Room /\ 1 <= Room
      /\ InFirst + SeqLimit * InNext \in Nat /\ Room \in Nat /\ Len(data) \in Nat
  <2>1. InFirst + SeqLimit * InNext \in Nat /\ OutFirst + 2 * SeqLimit * OutNext \in Nat
        /\ OutFirst + 2 * SeqLimit * OutNext >= 1
    <3>1. \A x \in Nat \ {0}, y \in Nat \ {0}, z \in Nat \ {0} :
             x + 2 * y * z \in Nat /\ x + 2 * y * z >= 1 /\ x + y * z \in Nat
      OBVIOUS
    <3>. QED BY <3>1, WireAssumption, Constants
  <2>2. Len(data) \in Nat
    BY DEF ByteSeq
  <2>. QED BY <2>1, <2>2, HidAssumption
<1>. HIDE DEF Room
<1>3. ASSUME NEW bytes \in WireData, Len(bytes) <= Room PROVE Encodable(bytes)
  BY <1>3, FitsEncodable DEF Room
<1>4. CASE cmd = "CBOR"
  <2>1. HandleCbor(c, data)
    BY <1>4 DEF Handle
  <2>2. relayed' = Append(relayed, [at |-> Len(log'), ch |-> c, frame |-> data])
    BY <2>1 DEF HandleCbor
  <2>3. Messages!Answers(c, "CBOR") \/ Messages!Answers(c, "ERR_OTHER")
    BY <2>1, RespondAnswers DEF HandleCbor
  <2>. QED BY <1>4, <2>2, <2>3 DEF Messages!Served
<1>5. CASE cmd # "CBOR"
  <2>1. relayed' = relayed
    BY <1>5 DEF Handle
  <2>. SUFFICES Messages!Served(c, cmd, Len(data), DOMAIN others)
    BY <1>5, <2>1
  <2>2. CASE cmd = "PING" /\ Respond(c, cmd, data)
    BY <1>1, <1>2, <1>3, <2>2, RespondAnswers DEF Messages!Served
  <2>3. CASE cmd \in {"WINK", "CANCEL"} /\ Respond(c, cmd, <<>>)
    <3>1. <<>> \in WireData /\ Len(<<>>) <= Room
      BY <1>2
    <3>. QED BY <1>3, <2>3, <3>1, RespondAnswers DEF Messages!Served
  <2>4. CASE cmd = "KEEPALIVE" /\ Respond(c, cmd, <<<<0, 1>>>>)
    <3>1. <<<<0, 1>>>> \in WireData /\ Len(<<<<0, 1>>>>) <= Room
      BY <1>2
    <3>. QED BY <1>3, <2>4, <3>1, RespondAnswers DEF Messages!Served
  <2>5. CASE cmd \in {"MSG", "ERROR"} /\ SendError(c, "INVALID_CMD")
    BY <2>5, SendAnswers DEF SendError, Messages!Served
  <2>6. CASE cmd = "INIT" /\ HandleInit(c, data, others)
    <3>1. CASE Len(data) # NonceLength
      <4>1. SendError(BROADCAST, "INVALID_LEN")
        BY <2>6, <3>1 DEF HandleInit
      <4>. QED BY <2>6, <3>1, <4>1, SendAnswers DEF SendError, Messages!Served
    <3>2. CASE Len(data) = NonceLength
      <4>1. ASSUME NEW d \in Channels PROVE Encodable(InitResponse(data, d))
        <5>1. <<<<0, d>>, <<0, 2>>>> \in WireData
          OBVIOUS
        <5>2. InitResponse(data, d) \in WireData /\ Len(InitResponse(data, d)) = NonceLength + 2
          BY <1>1, <3>2, <5>1 DEF InitResponse
        <5>. QED BY <1>2, <1>3, <5>2
      <4>2. CASE c # BROADCAST
        <5>1. Respond(c, "INIT", InitResponse(data, c))
          BY <2>6, <3>2, <4>2 DEF HandleInit
        <5>2. Messages!Answers(c, "INIT")
          BY <4>1, <5>1, RespondAnswers
        <5>. QED BY <2>6, <3>2, <4>2, <5>2 DEF Messages!Served
      <4>3. CASE c = BROADCAST /\ Cardinality(DOMAIN others) > MAX_CONNECTIONS
        <5>1. SendError(c, "CHANNEL_BUSY")
          BY <2>6, <3>2, <4>3 DEF HandleInit
        <5>2. Messages!Answers(c, "CHANNEL_BUSY")
          BY <5>1, SendAnswers DEF SendError
        <5>. QED BY <2>6, <3>2, <4>3, <5>2, SameCardinality DEF Messages!Served
      <4>4. CASE c = BROADCAST /\ ~(Cardinality(DOMAIN others) > MAX_CONNECTIONS)
        <5>1. \/ \E new \in Channels : Respond(c, "INIT", InitResponse(data, new))
              \/ SendError(c, "ERR_OTHER")
          BY <2>6, <3>2, <4>4 DEF HandleInit
        <5>2. Messages!Answers(c, "INIT") \/ Messages!Answers(c, "ERR_OTHER")
          BY <4>1, <5>1, RespondAnswers, SendAnswers DEF SendError
        <5>. QED BY <2>6, <3>2, <4>4, <5>2, SameCardinality DEF Messages!Served
      <4>. QED BY <4>2, <4>3, <4>4
    <3>. QED BY <3>1, <3>2
  <2>. QED BY <1>5, <2>2, <2>3, <2>4, <2>5, <2>6, Zenon DEF Handle
<1>. QED BY <1>4, <1>5

----------------------------------------------------------------------------
(* The steps. *)

LEMMA LastFront ==
  ASSUME NEW l \in Seq(Entries), NEW e \in Entries
  PROVE  Messages!Last(Append(l, e)) = e /\ Messages!Front(Append(l, e)) = l
<1>1. /\ Len(Append(l, e)) = Len(l) + 1 /\ Append(l, e)[Len(l) + 1] = e
      /\ Len(l) \in Nat /\ Append(l, e) \in Seq(Entries)
  BY Longer
<1>2. SubSeq(Append(l, e), 1, Len(l)) = l
  OBVIOUS
<1>3. Len(l) + 1 - 1 = Len(l)
  BY <1>1
<1>. QED BY <1>1, <1>2, <1>3 DEF Messages!Last, Messages!Front

\* Channels that the packet does not concern.
LEMMA OthersTrack ==
  ASSUME MessagesInv, NEW e \in Entries, e.kind # "closed", e.time = now,
         NEW d \in Channels, ~Messages!Concerns(e, d),
         NEW bufs, d \in DOMAIN bufs <=> d \in DOMAIN Fresh,
         d \in DOMAIN bufs => bufs[d] = Fresh[d]
  PROVE  Tracks(Append(log, e), bufs, d)
<1>1. /\ log \in Seq(Entries) /\ Len(Append(log, e)) = Len(log) + 1
  BY Longer DEF MessagesInv, Inv
<1>2. Tracked(Append(log, e), Messages!Parts(log, d, Len(log)), Len(log) + 1, Fresh, d)
  BY StillTracked DEF MessagesInv
<1>3. Messages!Parts(Append(log, e), d, Len(log) + 1) = Messages!Parts(log, d, Len(log))
  BY <1>1, PartsOther
<1>. QED BY <1>1, <1>2, <1>3 DEF Tracks, Tracked

\* The buffer that the packet e leads to is complete or waits for more.
LEMMA StoreMaps ==
  ASSUME MessagesInv, NEW e \in Entries, e.kind # "closed", e.time = now,
         log' = Append(log, e), Messages!Concerns(e, e.ch),
         NEW parts, parts = Messages!Parts(Append(log, e), e.ch, Len(log) + 1),
         Len(log) + 1 \in parts,
         NEW buf, Assembled(Append(log, e), parts, buf),
         Messages!Place(e) = buf.seq, buf.at = now, buf.data \in ByteSeq, buf.len \in Nat,
         Len(buf.data) <= InFirst + SeqLimit * InNext,
         Len(buf.data) = buf.len => buf.len <= Messages!Held(buf.seq),
         Len(buf.data) # buf.len => Messages!Held(buf.seq) < buf.len,
         DOMAIN channels' \subseteq Channels,
         Store(Fresh, e.ch, buf)
  PROVE  /\ \A d \in Channels : Tracks(log', channels', d)
         /\ Messages!Serves \/ Messages!Collects
<1>. DEFINE m == Append(log, e)
            n == Len(log)
            c == e.ch
<1>1. /\ log \in Seq(Entries) /\ m \in Seq(Entries) /\ n \in Nat /\ m[n + 1] = e
      /\ Len(m) = n + 1
  BY Longer DEF MessagesInv, Inv
<1>2. Messages!Last(m) = e
  BY <1>1, LastFront
<1>3. parts \subseteq 1 .. n + 1 /\ \A k \in parts : k \in Int
  BY <1>1, PartsAmong
<1>4. c \in Channels /\ log' = m
  BY DEF Entries
<1>5. \A k \in parts : Messages!IsLast(k, parts) <=> k = n + 1
  BY <1>1, <1>3 DEF Messages!IsLast
<1>6. Messages!Start(m, parts).cmd = buf.cmd /\ Messages!Start(m, parts).len = buf.len
  BY StartOf
<1>7. /\ \A k \in parts : Messages!Held(Messages!Place(m[k])) \in Nat
      /\ Messages!Held(buf.seq) \in Nat
  <2>1. \A k \in parts : m[k] \in Entries
    BY <1>1, <1>3, ElementOf
  <2>. QED BY <2>1, PlaceOf, HeldUpTo
<1>8. Messages!InOrder(m, parts)
  BY DEF Assembled
<1>9. \A k \in parts : k # n + 1 => Messages!Held(Messages!Place(m[k])) < buf.len
  BY <1>5 DEF Assembled
<1>10. /\ DOMAIN channels' = IF Len(buf.data) = buf.len THEN DOMAIN Fresh \ {c}
                            ELSE DOMAIN Fresh \cup {c}
       /\ \A d \in DOMAIN channels' :
            channels'[d] = IF d = c THEN buf ELSE Fresh[d]
  <2>1. CASE Len(buf.data) = buf.len
    <3>1. channels' = Without(Fresh, c)
      BY <2>1 DEF Store
    <3>2. /\ DOMAIN Without(Fresh, c) = DOMAIN Fresh \ {c}
          /\ \A d \in DOMAIN Fresh \ {c} : Without(Fresh, c)[d] = Fresh[d]
      BY DEF Without, Restrict
    <3>. QED BY <2>1, <3>1, <3>2
  <2>2. CASE Len(buf.data) # buf.len
    <3>1. channels' = With(Fresh, c, buf)
      BY <2>2 DEF Store
    <3>2. /\ DOMAIN With(Fresh, c, buf) = DOMAIN Fresh \cup {c}
          /\ \A d \in DOMAIN Fresh \cup {c} :
               With(Fresh, c, buf)[d] = IF d = c THEN buf ELSE Fresh[d]
      BY DEF With
    <3>. QED BY <2>2, <3>1, <3>2
  <2>. QED BY <2>1, <2>2
<1>. HIDE DEF m, n, c
<1>11. ASSUME NEW d \in Channels, d # c
       PROVE  Tracks(m, channels', d)
  <2>1. ~Messages!Concerns(e, d)
    BY <1>11 DEF Messages!Concerns, c
  <2>. QED BY <1>10, <1>11, <2>1, OthersTrack DEF m
<1>12. CASE Len(buf.data) = buf.len
  <2>1. ~Messages!Waiting(m, parts, n + 1)
    <3>1. Messages!Held(Messages!Place(m[n + 1])) = Messages!Held(buf.seq)
      BY <1>1
    <3>2. ~(Messages!Held(buf.seq) < buf.len)
      BY <1>7, <1>12
    <3>. QED BY <1>6, <3>1, <3>2 DEF Messages!Waiting, n
  <2>2. Tracks(m, channels', c)
    BY <1>1, <1>10, <1>12, <2>1 DEF Tracks, Tracked, m, n, c
  <2>3. \A d \in Channels : Tracks(log', channels', d)
    BY <1>4, <1>11, <2>2
  <2>4. Messages!Complete(m, parts)
    <3>1. ASSUME NEW k \in parts
          PROVE  Messages!IsLast(k, parts)
                 <=> Messages!Held(Messages!Place(m[k])) >= Messages!Start(m, parts).len
      <4>1. CASE k = n + 1
        BY <1>1, <1>5, <1>6, <1>7, <1>12, <4>1
      <4>2. CASE k # n + 1
        BY <1>5, <1>6, <1>7, <1>9, <4>2
      <4>. QED BY <4>1, <4>2
    <3>. QED BY <1>8, <3>1 DEF Messages!Complete
  <2>5. Messages!Busy(m, Len(m)) = DOMAIN channels'
    BY <1>1, <1>4, <2>3, BusyChannels
  <2>6. /\ Messages!Served(c, buf.cmd, Len(buf.data), DOMAIN channels')
        /\ relayed' = IF buf.cmd = "CBOR"
                        THEN Append(relayed, [at |-> Len(log'), ch |-> c, frame |-> buf.data])
                        ELSE relayed
    <3>1. Handle(c, buf.cmd, buf.data, Without(Fresh, c)) /\ channels' = Without(Fresh, c)
      BY <1>12 DEF Store, c
    <3>2. Len(log') = Len(log) + 1
      BY <1>1, <1>4 DEF n
    <3>. QED BY <1>4, <3>1, <3>2, HandleServes
  <2>7. Messages!Payload(m, parts) = buf.data
    <3>1. parts \subseteq 1 .. Len(m)
      BY <1>1, <1>3
    <3>. QED BY <1>1, <1>12, <3>1, PayloadIs DEF m
  <2>8. Messages!Serves
    <3>1. parts = Messages!Parts(m, c, Len(m))
      BY <1>1 DEF m, n, c
    <3>. QED BY <1>2, <1>4, <1>6, <1>12, <2>4, <2>5, <2>6, <2>7, <3>1
             DEF Messages!Serves, c
  <2>. QED BY <2>3, <2>8
<1>13. CASE Len(buf.data) # buf.len
  <2>1. \A k \in parts : Messages!Held(Messages!Place(m[k])) < buf.len
    BY <1>1, <1>9, <1>13
  <2>2. Messages!Remembered(m, n + 1, n + 1)
    BY <1>1 DEF Messages!Remembered
  <2>3. Collected(m, parts, n + 1, buf)
    BY <1>1, <1>5, <2>1, <2>2 DEF Collected, m, n
  <2>4. Tracks(m, channels', c)
    BY <1>1, <1>10, <1>13, <2>3 DEF Tracks, Tracked, m, n, c
  <2>5. \A d \in Channels : Tracks(log', channels', d)
    BY <1>4, <1>11, <2>4
  <2>6. Messages!Waiting(m, parts, n + 1)
    BY <1>3, <2>3, CollectedWaits
  <2>7. UNCHANGED <<relayed, answers>>
    BY <1>13 DEF Store, Silent
  <2>8. Messages!Collects
    BY <1>1, <1>2, <1>4, <2>6, <2>7 DEF Messages!Collects, m, n, c
  <2>. QED BY <2>5, <2>8
<1>. QED BY <1>12, <1>13

LEMMA InitialMaps ==
  ASSUME MessagesInv, NEW c \in Channels, NEW cmd \in CommandType \cup {"unknown"},
         NEW len \in Nat, ReceiveInitial(c, cmd, len)
  PROVE  /\ \A d \in Channels : Tracks(log', channels', d)
         /\ Messages!MessagesNext
<1>. DEFINE e == [kind |-> "initial", ch |-> c, cmd |-> cmd, len |-> len, seq |-> 0, time |-> now]
            size == IF len < InFirst THEN len ELSE InFirst
            buf == [cmd |-> cmd, len |-> len, seq |-> -1, at |-> now, data |-> Bytes(size)]
<1>1. e \in Entries /\ log' = Append(log, e)
  BY Constants DEF ReceiveInitial, MessagesInv, Inv, Entries
<1>2. e.kind = "initial" /\ e.ch = c /\ e.cmd = cmd /\ e.len = len /\ e.time = now
  OBVIOUS
<1>. HIDE DEF e
<1>3. Messages!Last(log') = e /\ Len(log') = Len(log) + 1 /\ Messages!Front(log') = log
  BY <1>1, LastFront, Longer DEF MessagesInv, Inv
<1>4. CASE cmd = "unknown"
  <2>1. channels' = Fresh /\ SendError(c, "INVALID_CMD") /\ relayed' = relayed
    BY <1>4 DEF ReceiveInitial
  <2>2. \A d : ~Messages!Concerns(e, d)
    BY <1>2, <1>4 DEF Messages!Concerns, Messages!IsStart
  <2>3. \A d \in Channels : Tracks(log', channels', d)
    BY <1>1, <1>2, <2>1, <2>2, OthersTrack
  <2>4. Messages!Answers(c, "INVALID_CMD")
    BY <1>3, <2>1, SendAnswers DEF SendError
  <2>5. Messages!RefusesCommand
    BY <1>2, <1>3, <1>4, <2>1, <2>4 DEF Messages!RefusesCommand
  <2>. QED BY <1>3, <2>3, <2>5 DEF Messages!MessagesNext
<1>5. CASE cmd # "unknown"
  <2>1. Messages!IsStart(e) /\ Messages!Concerns(e, c)
    BY <1>2, <1>5 DEF Messages!IsStart, Messages!Concerns
  <2>2. Store(Fresh, c, buf)
    BY <1>5 DEF ReceiveInitial
  <2>3. size \in Nat /\ size <= InFirst /\ (size # len => InFirst < len) /\ size <= len
    BY Constants
  <2>4. Bytes(size) \in ByteSeq /\ Len(Bytes(size)) = size
    BY <1>1, <2>3, BytesFrom DEF MessagesInv, Inv
  <2>5. Messages!Parts(Append(log, e), c, Len(log) + 1) = {Len(log) + 1}
    BY <1>1, <1>2, <2>1, PartsStart DEF MessagesInv, Inv
  <2>6. Assembled(Append(log, e), {Len(log) + 1}, buf)
    BY <1>1, <1>2, <2>1, InitialAssembled DEF MessagesInv
  <2>7. Messages!Place(e) = -1
    BY <2>1 DEF Messages!Place
  <2>8. DOMAIN channels' \subseteq Channels
    BY InitialGood DEF MessagesInv, GoodBuffers
  <2>9. /\ buf.seq = -1 /\ buf.at = now /\ buf.len = len /\ buf.data = Bytes(size)
        /\ buf.cmd = cmd
    OBVIOUS
  <2>. HIDE DEF size, buf
  <2>10. /\ Len(buf.data) <= InFirst + SeqLimit * InNext
         /\ Len(buf.data) = buf.len => buf.len <= Messages!Held(buf.seq)
         /\ Len(buf.data) # buf.len => Messages!Held(buf.seq) < buf.len
    <3>1. PICK more \in Nat : more = SeqLimit * InNext
      BY Constants
    <3>2. Len(buf.data) = size /\ buf.len = len /\ Messages!Held(buf.seq) = InFirst
      BY <2>4, <2>9, HeldUpTo
    <3>3. /\ size <= InFirst + more
          /\ size = len => len <= InFirst
          /\ size # len => InFirst < len
      BY <2>3, Constants
    <3>. QED BY <3>1, <3>2, <3>3
  <2>11. /\ \A d \in Channels : Tracks(log', channels', d)
         /\ Messages!Serves \/ Messages!Collects
    BY <1>1, <1>2, <2>1, <2>2, <2>4, <2>5, <2>6, <2>7, <2>8, <2>9, <2>10, StoreMaps
  <2>. QED BY <1>3, <2>11 DEF Messages!MessagesNext
<1>. QED BY <1>4, <1>5

LEMMA NextMaps ==
  ASSUME MessagesInv, NEW c \in Channels, NEW seq \in 0 .. SeqLimit - 1, ReceiveNext(c, seq)
  PROVE  /\ \A d \in Channels : Tracks(log', channels', d)
         /\ Messages!MessagesNext
<1>. DEFINE e == [kind |-> "next", ch |-> c, cmd |-> "unknown", len |-> 0, seq |-> seq,
                  time |-> now]
            n == Len(log)
            old == Fresh[c]
            parts == Messages!Parts(log, c, n)
            all == Messages!Parts(Append(log, e), c, n + 1)
<1>1. e \in Entries /\ log' = Append(log, e)
  BY Constants DEF ReceiveNext, MessagesInv, Inv, Entries
<1>2. e.kind = "next" /\ e.ch = c /\ e.seq = seq /\ e.time = now
  OBVIOUS
<1>. HIDE DEF e
<1>3. Messages!Last(log') = e /\ Len(log') = n + 1 /\ Messages!Front(log') = log
  BY <1>1, LastFront, Longer DEF MessagesInv, Inv
<1>4. log \in Seq(Entries) /\ n \in Nat /\ n + 1 - 1 = n
  BY Longer DEF MessagesInv, Inv
<1>5. Messages!Concerns(e, c) /\ \A d \in Channels : d # c => ~Messages!Concerns(e, d)
  BY <1>2 DEF Messages!Concerns
<1>6. Tracked(Append(log, e), parts, n + 1, Fresh, c)
  BY <1>1, <1>2, StillTracked DEF MessagesInv
<1>7. parts \subseteq 1 .. n /\ all = parts \cup {n + 1}
  BY <1>1, <1>2, <1>4, PartsAmong, PartsNext
<1>8. DOMAIN channels' \subseteq Channels
  BY NextGood DEF MessagesInv, GoodBuffers
<1>9. CASE c \notin DOMAIN Fresh \/ seq # old.seq + 1
  <2>1. /\ channels' = IF c \in DOMAIN Fresh THEN Without(Fresh, c) ELSE Fresh
        /\ SendError(c, IF c \in DOMAIN Fresh THEN "INVALID_SEQ" ELSE "INVALID_CHANNEL")
        /\ relayed' = relayed
    BY <1>9 DEF ReceiveNext
  <2>2. /\ c \notin DOMAIN channels'
        /\ \A d : d # c => /\ d \in DOMAIN channels' <=> d \in DOMAIN Fresh
                           /\ d \in DOMAIN channels' => channels'[d] = Fresh[d]
    BY <2>1 DEF Without, Restrict
  <2>3. /\ ~Messages!Complete(Append(log, e), all)
        /\ ~Messages!Waiting(Append(log, e), all, n + 1)
    BY <1>1, <1>2, <1>9, NotContinued
  <2>4. Tracks(log', channels', c)
    BY <1>1, <1>3, <2>2, <2>3 DEF Tracks, Tracked
  <2>5. ASSUME NEW d \in Channels, d # c PROVE Tracks(log', channels', d)
    BY <1>1, <1>2, <1>5, <2>2, <2>5, OthersTrack
  <2>6. Messages!Waiting(Append(log, e), parts, n + 1) <=> c \in DOMAIN Fresh
    <3>1. parts \subseteq Int
      BY <1>4, <1>7
    <3>. QED BY <1>6, <3>1, CollectedWaits DEF Tracked
  <2>7. Messages!Parts(Append(log, e), c, n) = parts
    BY <1>1, <1>4, PartsBefore
  <2>8. Messages!Answers(c, IF c \in DOMAIN Fresh THEN "INVALID_SEQ" ELSE "INVALID_CHANNEL")
    BY <1>3, <2>1, SendAnswers DEF SendError
  <2>. HIDE DEF n, parts, all
  <2>9. Messages!RefusesPacket
    <3>1. all = Messages!Parts(log', c, Len(log'))
      BY <1>1, <1>3 DEF all
    <3>2. Messages!Parts(log', c, Len(log') - 1) = parts
      BY <1>1, <1>3, <1>4, <2>7
    <3>. QED BY <1>1, <1>2, <1>3, <2>1, <2>3, <2>6, <2>8, <3>1, <3>2 DEF Messages!RefusesPacket
  <2>. QED BY <1>3, <2>4, <2>5, <2>9 DEF Messages!MessagesNext, n
<1>10. CASE c \in DOMAIN Fresh /\ seq = old.seq + 1
  <2>. DEFINE remaining == old.len - Len(old.data)
              size == IF remaining < InNext THEN remaining ELSE InNext
              buf == [cmd |-> old.cmd, len |-> old.len, seq |-> seq, at |-> now,
                      data |-> old.data \o Bytes(size)]
  <2>1. old \in Buffer /\ Partial(log, old, c)
    BY <1>10, FreshGood DEF GoodBuffers, MessagesInv
  <2>2. Store(Fresh, c, buf)
    <3>1. old = [cmd |-> old.cmd, len |-> old.len, seq |-> old.seq, at |-> old.at,
                 data |-> old.data]
      BY <2>1 DEF Buffer
    <3>2. Extended(old, seq) = [old EXCEPT !.seq = seq, !.at = now,
                                           !.data = old.data \o Bytes(size)]
      BY DEF Extended
    <3>3. Extended(old, seq) = buf
      <4>. HIDE DEF size, old
      <4>. QED BY <3>1, <3>2
    <3>. QED BY <1>10, <3>3 DEF ReceiveNext
  <2>3. /\ old.data \in ByteSeq /\ old.len \in Nat /\ Len(old.data) \in Nat /\ old.seq \in Int
        /\ old.seq >= -1 /\ Len(old.data) < old.len
        /\ Len(old.data) = InFirst + (old.seq + 1) * InNext
    BY <2>1, Constants DEF Buffer, ByteSeq, Partial
  <2>4. Collected(Append(log, e), parts, n + 1, old)
    BY <1>6, <1>10 DEF Tracked
  <2>5. /\ buf.cmd = old.cmd /\ buf.len = old.len /\ buf.seq = seq /\ buf.at = now
        /\ buf.data = old.data \o Bytes(size)
    OBVIOUS
  <2>. HIDE DEF old, buf
  <2>6. /\ size \in 0 .. InNext /\ Len(old.data) + size <= old.len
        /\ Len(old.data) + size # old.len => size = InNext
    <3>1. \A had, all_, next \in Nat :
            had < all_ =>
              LET m == IF all_ - had < next THEN all_ - had ELSE next IN
              m \in 0 .. next /\ had + m <= all_ /\ (had + m # all_ => m = next)
      OBVIOUS
    <3>2. InNext \in Nat
      BY Constants
    <3>. QED BY <2>3, <3>1, <3>2
  <2>. HIDE DEF size
  <2>7. buf.data \in ByteSeq /\ Len(buf.data) = Len(old.data) + size
    <3>1. size \in Nat
      BY <2>6, Constants
    <3>2. Bytes(size) \in ByteSeq /\ Len(Bytes(size)) = size
      BY <1>1, <1>4, <3>1, BytesFrom
    <3>3. \A a, b \in ByteSeq : a \o b \in ByteSeq /\ Len(a \o b) = Len(a) + Len(b)
      BY DEF ByteSeq
    <3>. QED BY <2>3, <2>5, <3>2, <3>3
  <2>8. Assembled(Append(log, e), all, buf)
    BY <1>1, <1>2, <1>7, <1>10, <2>1, <2>3, <2>4, <2>5, <2>6, NextAssembled DEF MessagesInv
  <2>9. Messages!Place(e) = buf.seq
    BY <1>2, <2>5 DEF Messages!Place, Messages!IsStart
  <2>10. Messages!Held(buf.seq) = Len(old.data) + InNext
    <3>1. Messages!Held(old.seq + 1) = Messages!Held(old.seq) + InNext
          /\ Messages!Held(old.seq) = Len(old.data)
      BY <2>3, HeldUpTo
    <3>. QED BY <1>10, <2>5, <3>1
  <2>11. /\ Len(buf.data) = buf.len => buf.len <= Messages!Held(buf.seq)
         /\ Len(buf.data) # buf.len => Messages!Held(buf.seq) < buf.len
    <3>1. \A had, all_, next, part \in Nat :
            had + part <= all_ /\ (had + part # all_ => part = next) /\ part <= next =>
              /\ had + part = all_ => all_ <= had + next
              /\ had + part # all_ => had + next < all_
      OBVIOUS
    <3>2. size \in Nat /\ InNext \in Nat /\ size <= InNext
      BY <2>6, Constants
    <3>3. /\ Len(old.data) + size = old.len => old.len <= Len(old.data) + InNext
          /\ Len(old.data) + size # old.len => Len(old.data) + InNext < old.len
      BY <2>3, <2>6, <3>1, <3>2
    <3>. QED BY <2>5, <2>7, <2>10, <3>3
  <2>12. Len(buf.data) <= InFirst + SeqLimit * InNext
    <3>1. \A a, b, k \in Nat : k <= a - 1 => k * b + b <= a * b
      OBVIOUS
    <3>2. old.seq + 1 \in Nat /\ old.seq + 1 <= SeqLimit - 1 /\ SeqLimit \in Nat /\ InNext \in Nat
      BY <1>10, <2>3, Constants
    <3>3. (old.seq + 1) * InNext + InNext <= SeqLimit * InNext
      BY <3>1, <3>2
    <3>4. PICK x, y \in Nat : x = (old.seq + 1) * InNext /\ y = SeqLimit * InNext
      BY <3>2
    <3>5. InFirst \in Nat /\ size <= InNext /\ size \in Nat
      BY <2>6, Constants
    <3>6. \A f, a, b, next, part \in Nat :
            part <= next /\ a + next <= b => f + a + part <= f + b
      OBVIOUS
    <3>7. InFirst + x + size <= InFirst + y
      BY <3>2, <3>3, <3>4, <3>5, <3>6
    <3>8. Len(buf.data) = InFirst + x + size
      BY <2>3, <2>7, <3>4
    <3>. QED BY <3>4, <3>7, <3>8
  <2>13. n + 1 \in all
    BY <1>7
  <2>14. buf.len \in Nat
    BY <2>3, <2>5
  <2>15. /\ \A d \in Channels : Tracks(log', channels', d)
         /\ Messages!Serves \/ Messages!Collects
    BY <1>1, <1>2, <1>5, <1>8, <2>2, <2>5, <2>7, <2>8, <2>9, <2>11, <2>12, <2>13, <2>14,
       StoreMaps
  <2>. QED BY <1>3, <2>15 DEF Messages!MessagesNext
<1>. QED BY <1>9, <1>10

\* The last close: every message under way is forgotten.
LEMMA CloseMaps ==
  ASSUME MessagesInv, ProcessClose
  PROVE  /\ \A d \in Channels : Tracks(log', channels', d)
         /\ Messages!MessagesNext \/ UNCHANGED <<log, relayed, answers>>
<1>. DEFINE e == [kind |-> "closed", ch |-> BROADCAST, cmd |-> "unknown", len |-> 0,
                  seq |-> 0, time |-> now]
<1>1. UNCHANGED <<relayed, answers>>
  BY DEF ProcessClose, Silent
<1>2. CASE UNCHANGED <<channels, log>>
  BY <1>1, <1>2 DEF MessagesInv
<1>3. CASE channels' = <<>> /\ log' = Append(log, e)
  <2>1. e \in Entries /\ e.kind = "closed"
    BY Constants DEF Entries, MessagesInv, Inv
  <2>. HIDE DEF e
  <2>2. /\ Messages!Last(log') = e /\ Len(log') = Len(log) + 1 /\ Messages!Front(log') = log
        /\ log \in Seq(Entries) /\ Len(log) \in Nat /\ log'[Len(log) + 1] = e
    BY <1>3, <2>1, LastFront, Longer DEF MessagesInv, Inv
  <2>3. Messages!Closes
    BY <1>1, <2>1, <2>2 DEF Messages!Closes
  <2>4. ASSUME NEW d \in Channels PROVE Tracks(log', channels', d)
    <3>. DEFINE n == Len(log)
                parts == Messages!Parts(log, d, n)
    <3>1. Messages!Parts(log', d, n + 1) = parts /\ parts \subseteq 1 .. n
      BY <1>3, <2>1, <2>2, PartsOther, PartsAmong DEF Messages!Concerns, Messages!IsStart
    <3>2. ASSUME NEW k \in parts PROVE ~Messages!Remembered(log', k, n + 1)
      <4>1. n + 1 \in k + 1 .. n + 1
        BY <2>2, <3>1
      <4>. QED BY <2>1, <2>2, <4>1 DEF Messages!Remembered
    <3>3. ASSUME Messages!Waiting(log', parts, n + 1) PROVE FALSE
      <4>1. Messages!Waiting(log, parts, n)
        BY <1>3, <2>1, <2>2, <3>3, WaitedBefore
      <4>2. PICK t \in parts : Messages!IsLast(t, parts)
        BY <4>1 DEF MessagesInv, Tracks, Tracked, Collected
      <4>. QED BY <3>2, <3>3, <4>2 DEF Messages!Waiting
    <3>4. d \notin DOMAIN channels'
      BY <1>3
    <3>. QED BY <2>2, <3>1, <3>3, <3>4 DEF Tracks, Tracked
  <2>. QED BY <2>2, <2>3, <2>4 DEF Messages!MessagesNext
<1>. QED BY <1>2, <1>3 DEF ProcessClose

LEMMA MessagesStep ==
  ASSUME MessagesInv, [Next]_vars
  PROVE  MessagesInv' /\ [Messages!MessagesNext]_(Messages!messageVars)
<1>1. Inv'
  BY InvNext DEF MessagesInv
<1>. SUFFICES /\ \A c \in Channels : Tracks(log', channels', c)
              /\ Messages!MessagesNext \/ UNCHANGED <<log, relayed, answers>>
  BY <1>1 DEF MessagesInv, Messages!messageVars, Tracks, Tracked
<1>2. CASE UNCHANGED <<channels, log, relayed, answers>>
  BY <1>2 DEF MessagesInv
<1>3. ASSUME NEW p \in Initials, ReceiveInitial(p[1], p[2], p[3])
      PROVE  (\A c \in Channels : Tracks(log', channels', c)) /\ Messages!MessagesNext
  <2>1. p[1] \in Channels /\ p[2] \in CommandType \cup {"unknown"} /\ p[3] \in Nat
    BY HidAssumption
  <2>. QED BY <1>3, <2>1, InitialMaps
<1>4. ASSUME NEW p \in Subsequents, ReceiveNext(p[1], p[2])
      PROVE  (\A c \in Channels : Tracks(log', channels', c)) /\ Messages!MessagesNext
  <2>1. p[1] \in Channels /\ p[2] \in 0 .. SeqLimit - 1
    BY HidAssumption
  <2>. QED BY <1>4, <2>1, NextMaps
<1>5. CASE ReceiveOutput
  BY <1>3, <1>4, <1>5 DEF ReceiveOutput
<1>6. CASE ProcessClose
  BY <1>6, CloseMaps
<1>7. CASE ProcessOpen \/ ClockMoves \/ UNCHANGED vars
  <2>1. UNCHANGED <<channels, log, relayed, answers>>
    BY <1>7 DEF ProcessOpen, ClockMoves, Silent, vars
  <2>. QED BY <1>2, <2>1
<1>. QED BY <1>5, <1>6, <1>7 DEF Next

LEMMA MessagesStart == Init => MessagesInv /\ Messages!MessagesInit
<1>. SUFFICES ASSUME Init PROVE MessagesInv /\ Messages!MessagesInit
  OBVIOUS
<1>1. log = <<>> /\ channels = <<>> /\ relayed = <<>> /\ answers = <<>>
  BY DEF Init
<1>2. ASSUME NEW c \in Channels PROVE Tracks(log, channels, c)
  <2>1. Messages!Parts(log, c, Len(log)) = {}
    BY <1>1 DEF Messages!Parts
  <2>2. ~Messages!Waiting(log, {}, Len(log))
    BY DEF Messages!Waiting, Messages!InOrder
  <2>3. c \notin DOMAIN channels
    BY <1>1
  <2>. QED BY <2>1, <2>2, <2>3 DEF Tracks, Tracked
<1>. QED BY <1>1, <1>2, InvInit DEF MessagesInv, Messages!MessagesInit

----------------------------------------------------------------------------

\* At any time the receive buffers are the messages under way in the log of packets:
\* those that began, came in order and in time, and are not complete.
THEOREM BuffersTrackLog == Spec => []MessagesInv
<1>1. MessagesInv /\ [Next]_vars => MessagesInv'
  BY MessagesStep
<1>. QED BY <1>1, MessagesStart, PTL DEF Spec

\* The device implements the abstract specification of its messages: it relays
\* and answers what the log of packets calls for, whatever the channels, packet
\* sizes, interleavings, clock steps and closings.
THEOREM ImplementsMessages == Spec => ImplementsHidMessages
<1>1. Init => Messages!MessagesInit
  BY MessagesStart
<1>2. MessagesInv /\ [Next]_vars => [Messages!MessagesNext]_(Messages!messageVars)
  BY MessagesStep
<1>. QED BY <1>1, <1>2, BuffersTrackLog, PTL
        DEF Spec, ImplementsHidMessages, Messages!MessagesSpec
=============================================================================
