---------------------------- MODULE TransportProofs ----------------------------
(***************************************************************************)
(* The connection of Transport.tla delivers in order what it delivers, for *)
(* any number of connections and frames and any sizes of the buffers.      *)
(*                                                                         *)
(* Each direction of a connection is one stream of pieces: piece 2q + 1    *)
(* and 2q + 2 of it are the halves of the sealed frame q + 1.  Bears says  *)
(* that a sequence is a stretch of that stream.  The invariant lays the    *)
(* buffers end to end along it without a gap: the device's rx, the wire    *)
(* and the host's queue downwards (LinkDown, DownWire), the host's decoder *)
(* and the wire upwards (UpWire).  A reader that holds less than a record  *)
(* and stands at the place its counter names then opens whatever is next.  *)
(*                                                                         *)
(* The host's loop over a chunk and the device's loop over its buffer are  *)
(* folds; FoldFacts gives the fold as a run of states, and what one record *)
(* keeps (ServeKeeps, PollKeeps) goes along the run.                       *)
(***************************************************************************)
EXTENDS Transport, FoldFacts, SequenceTheorems

Types == {Attach, ClientSize, Keys, Hello, Error, Data, Clear}
FrameSet == [type : Types, n : Nat]
RecordSet == [dir : {Up, Down, Clear}, epoch : Nat, seq : Nat, frame : FrameSet]
PieceSet == [rec : RecordSet, part : {1, 2}]

(* The first of two sequences begins the second. *)
Begins(s, t) == Len(s) <= Len(t) /\ \A i \in 1..Len(s) : s[i] = t[i]

(* Half of the record that carries the frame behind the first q. *)
Half(dir, c, sent, q, part) ==
  [rec |-> [dir |-> dir, epoch |-> c, seq |-> q, frame |-> sent[q + 1]], part |-> part]

(* The pieces s are those of the sealed stream of `sent` behind its first  *)
(* `from` pieces.                                                          *)
Bears(s, dir, c, sent, from) ==
  \A i \in 1..Len(s), q \in Nat :
    /\ from + i = 2 * q + 1 => s[i] = Half(dir, c, sent, q, 1)
    /\ from + i = 2 * q + 2 => s[i] = Half(dir, c, sent, q, 2)

-----------------------------------------------------------------------------
LEMMA BearsNone ==
  ASSUME NEW dir, NEW c, NEW sent, NEW from
  PROVE  Bears(<<>>, dir, c, sent, from)
<1>1. Len(<<>>) = 0 /\ 1..0 = {}
  OBVIOUS
<1> QED  BY <1>1 DEF Bears

LEMMA BearsJoin ==
  ASSUME NEW S, NEW s \in Seq(S), NEW t \in Seq(S), NEW dir, NEW c, NEW sent, NEW from \in Nat,
         Bears(s, dir, c, sent, from), Bears(t, dir, c, sent, from + Len(s))
  PROVE  /\ s \o t \in Seq(S) /\ Len(s \o t) = Len(s) + Len(t)
         /\ Bears(s \o t, dir, c, sent, from)
<1>1. Len(s) \in Nat /\ Len(t) \in Nat
  BY LenProperties
<1>2. /\ s \o t \in Seq(S) /\ Len(s \o t) = Len(s) + Len(t)
      /\ \A i \in 1..Len(s) + Len(t) :
           (s \o t)[i] = IF i <= Len(s) THEN s[i] ELSE t[i - Len(s)]
  BY ConcatProperties
<1> DEFINE u == s \o t
<1> HIDE DEF u
<1>3. ASSUME NEW i \in 1..Len(u), NEW q \in Nat
      PROVE  /\ from + i = 2 * q + 1 => u[i] = Half(dir, c, sent, q, 1)
             /\ from + i = 2 * q + 2 => u[i] = Half(dir, c, sent, q, 2)
  <2>1. CASE i <= Len(s)
    <3>1. i \in 1..Len(s) /\ u[i] = s[i]
      BY <1>1, <1>2, <2>1 DEF u
    <3> QED  BY <3>1 DEF Bears
  <2>2. CASE ~(i <= Len(s))
    <3> DEFINE j == i - Len(s)
    <3>1. j \in 1..Len(t) /\ u[i] = t[j]
      BY <1>1, <1>2, <2>2 DEF u
    <3>2. (from + Len(s)) + j = from + i
      BY <1>1
    <3> HIDE DEF j
    <3>3. /\ (from + Len(s)) + j = 2 * q + 1 => t[j] = Half(dir, c, sent, q, 1)
          /\ (from + Len(s)) + j = 2 * q + 2 => t[j] = Half(dir, c, sent, q, 2)
      BY <3>1 DEF Bears
    <3> QED  BY <3>1, <3>2, <3>3
  <2> QED  BY <2>1, <2>2
<1>4. Bears(u, dir, c, sent, from)
  BY <1>3 DEF Bears
<1> QED  BY <1>2, <1>4 DEF u

LEMMA BearsCut ==
  ASSUME NEW S, NEW s \in Seq(S), NEW n \in 0..Len(s), NEW dir, NEW c, NEW sent, NEW from \in Nat,
         Bears(s, dir, c, sent, from)
  PROVE  /\ SubSeq(s, 1, n) \in Seq(S) /\ Len(SubSeq(s, 1, n)) = n
         /\ SubSeq(s, n + 1, Len(s)) \in Seq(S)
         /\ Len(SubSeq(s, n + 1, Len(s))) = Len(s) - n
         /\ Bears(SubSeq(s, 1, n), dir, c, sent, from)
         /\ Bears(SubSeq(s, n + 1, Len(s)), dir, c, sent, from + n)
<1> DEFINE a == SubSeq(s, 1, n)
           b == SubSeq(s, n + 1, Len(s))
<1>1. Len(s) \in Nat /\ \A i \in 1..Len(s) : s[i] \in S
  BY LenProperties, ElementOfSeq
<1>2. /\ a \in Seq(S) /\ Len(a) = IF 1 <= n THEN n - 1 + 1 ELSE 0
      /\ \A i \in 1..(n - 1 + 1) : a[i] = s[1 + i - 1]
  BY <1>1, SubSeqProperties
<1>3. /\ b \in Seq(S) /\ Len(b) = IF n + 1 <= Len(s) THEN Len(s) - (n + 1) + 1 ELSE 0
      /\ \A i \in 1..(Len(s) - (n + 1) + 1) : b[i] = s[(n + 1) + i - 1]
  BY <1>1, SubSeqProperties
<1> HIDE DEF a, b
<1>4. Len(a) = n /\ \A i \in 1..n : a[i] = s[i]
  BY <1>1, <1>2
<1>5. Len(b) = Len(s) - n /\ \A i \in 1..(Len(s) - n) : b[i] = s[n + i]
  BY <1>1, <1>3
<1>6. Bears(a, dir, c, sent, from)
  BY <1>1, <1>4 DEF Bears
<1>7. Bears(b, dir, c, sent, from + n)
  <2> SUFFICES ASSUME NEW i \in 1..Len(b), NEW q \in Nat
               PROVE  /\ (from + n) + i = 2 * q + 1 => b[i] = Half(dir, c, sent, q, 1)
                      /\ (from + n) + i = 2 * q + 2 => b[i] = Half(dir, c, sent, q, 2)
    BY DEF Bears
  <2>1. n + i \in 1..Len(s) /\ b[i] = s[n + i] /\ from + (n + i) = (from + n) + i
    BY <1>1, <1>5
  <2> QED  BY <2>1 DEF Bears
<1> QED  BY <1>2, <1>3, <1>4, <1>5, <1>6, <1>7 DEF a, b

(* What is on the wire does not depend on the frames sent later. *)
LEMMA BearsLonger ==
  ASSUME NEW S, NEW s \in Seq(S), NEW T, NEW sent \in Seq(T), NEW more, NEW dir, NEW c,
         NEW from \in Nat, Begins(sent, more), Bears(s, dir, c, sent, from),
         from + Len(s) <= 2 * Len(sent)
  PROVE  Bears(s, dir, c, more, from)
<1>1. Len(s) \in Nat /\ Len(sent) \in Nat
  BY LenProperties
<1> SUFFICES ASSUME NEW i \in 1..Len(s), NEW q \in Nat
             PROVE  /\ from + i = 2 * q + 1 => s[i] = Half(dir, c, more, q, 1)
                    /\ from + i = 2 * q + 2 => s[i] = Half(dir, c, more, q, 2)
  BY DEF Bears
<1>2. CASE from + i = 2 * q + 1 \/ from + i = 2 * q + 2
  <2>1. q + 1 \in 1..Len(sent)
    BY <1>1, <1>2
  <2>2. sent[q + 1] = more[q + 1]
    BY <2>1 DEF Begins
  <2>3. \A part : Half(dir, c, sent, q, part) = Half(dir, c, more, q, part)
    BY <2>2 DEF Half
  <2> QED  BY <2>3 DEF Bears
<1> QED  BY <1>2

(* A record is two pieces of the stream. *)
LEMMA BearsSeal ==
  ASSUME NEW dir \in {Up, Down}, NEW c \in Nat, NEW q \in Nat, NEW sent,
         sent[q + 1] \in FrameSet
  PROVE  LET record == Seal(dir, c, q, sent[q + 1])
         IN  /\ record \in Seq(PieceSet) /\ Len(record) = 2
             /\ Bears(record, dir, c, sent, 2 * q)
<1> DEFINE record == Seal(dir, c, q, sent[q + 1])
<1>1. record = <<Half(dir, c, sent, q, 1), Half(dir, c, sent, q, 2)>>
  BY DEF Seal, Half
<1>2. Half(dir, c, sent, q, 1) \in PieceSet /\ Half(dir, c, sent, q, 2) \in PieceSet
  BY DEF Half, PieceSet, RecordSet
<1> DEFINE h(part) == Half(dir, c, sent, q, part)
<1> HIDE DEF record
<1>3. record \in Seq(PieceSet) /\ Len(record) = 2 /\ record[1] = h(1) /\ record[2] = h(2)
  <2> DEFINE a == h(1)
             b == h(2)
  <2>1. record = <<a, b>> /\ a \in PieceSet /\ b \in PieceSet
    BY <1>1, <1>2
  <2> HIDE DEF a, b
  <2>2. record \in Seq(PieceSet) /\ Len(record) = 2 /\ record[1] = a /\ record[2] = b
    BY <2>1
  <2> QED  BY <2>2 DEF a, b
<1>4. ASSUME NEW i \in 1..2, NEW p \in Nat
      PROVE  /\ 2 * q + i = 2 * p + 1 => record[i] = Half(dir, c, sent, p, 1)
             /\ 2 * q + i = 2 * p + 2 => record[i] = Half(dir, c, sent, p, 2)
  <2>1. 2 * q + i = 2 * p + 1 => i = 1 /\ p = q
    OBVIOUS
  <2>2. 2 * q + i = 2 * p + 2 => i = 2 /\ p = q
    OBVIOUS
  <2> QED  BY <1>3, <2>1, <2>2
<1>5. Bears(record, dir, c, sent, 2 * q)
  BY <1>3, <1>4 DEF Bears
<1> QED  BY <1>3, <1>5 DEF record

(* A decoder finds the records in a stretch of the stream, and keeps less  *)
(* than one.                                                               *)
LEMMA DecoderFinds ==
  ASSUME NEW S, NEW buf \in Seq(S), NEW dir, NEW c, NEW sent, NEW q \in Nat,
         Bears(buf, dir, c, sent, 2 * q)
  PROVE  \E n \in Nat :
           /\ 2 * n <= Len(buf)
           /\ DOMAIN Records(buf) = 1..n
           /\ \A i \in 1..n :
                Records(buf)[i] = Seal(dir, c, q + (i - 1), sent[q + (i - 1) + 1])
           /\ Rest(buf) \in Seq(S) /\ Len(Rest(buf)) = Len(buf) - 2 * n /\ Len(Rest(buf)) <= 1
           /\ Bears(Rest(buf), dir, c, sent, 2 * (q + n))
<1> DEFINE n == Len(buf) \div 2
<1>1. Len(buf) \in Nat /\ \A i \in 1..Len(buf) : buf[i] \in S
  BY LenProperties, ElementOfSeq
<1>2. n \in Nat /\ 2 * n <= Len(buf) /\ Len(buf) - 2 * n <= 1
  BY <1>1
<1>3. Records(buf) = [i \in 1..n |-> SubSeq(buf, 2 * i - 1, 2 * i)]
  BY DEF Records
<1>4. Rest(buf) = SubSeq(buf, 2 * n + 1, Len(buf))
  BY DEF Rest
<1> HIDE DEF n
<1>5. ASSUME NEW i \in 1..n
      PROVE  Records(buf)[i] = Seal(dir, c, q + (i - 1), sent[q + (i - 1) + 1])
  <2> DEFINE r == SubSeq(buf, 2 * i - 1, 2 * i)
             p == q + (i - 1)
  <2>1. 2 * i - 1 \in 1..Len(buf) /\ 2 * i \in 1..Len(buf) /\ p \in Nat
    BY <1>1, <1>2
  <2>2. \A j \in (2 * i - 1)..(2 * i) : buf[j] \in S
    BY <1>1, <2>1
  <2>3. /\ r \in Seq(S)
        /\ Len(r) = IF 2 * i - 1 <= 2 * i THEN 2 * i - (2 * i - 1) + 1 ELSE 0
        /\ \A j \in 1..(2 * i - (2 * i - 1) + 1) : r[j] = buf[(2 * i - 1) + j - 1]
    BY <2>1, <2>2, SubSeqProperties
  <2> HIDE DEF r
  <2>4. Len(r) = 2 /\ r[1] = buf[2 * i - 1] /\ r[2] = buf[2 * i]
    <3>1. 2 * i - (2 * i - 1) + 1 = 2 /\ 2 * i - 1 <= 2 * i
      OBVIOUS
    <3>2. (2 * i - 1) + 1 - 1 = 2 * i - 1 /\ (2 * i - 1) + 2 - 1 = 2 * i
      OBVIOUS
    <3>3. Len(r) = 2 /\ \A j \in 1..2 : r[j] = buf[(2 * i - 1) + j - 1]
      BY <2>3, <3>1
    <3>4. r[1] = buf[(2 * i - 1) + 1 - 1] /\ r[2] = buf[(2 * i - 1) + 2 - 1]
      BY <3>3
    <3> QED  BY <3>2, <3>3, <3>4
  <2>5. 2 * q + (2 * i - 1) = 2 * p + 1 /\ 2 * q + 2 * i = 2 * p + 2
    OBVIOUS
  <2> HIDE DEF p
  <2>6. buf[2 * i - 1] = Half(dir, c, sent, p, 1) /\ buf[2 * i] = Half(dir, c, sent, p, 2)
    BY <2>1, <2>5 DEF Bears
  <2> DEFINE a == Half(dir, c, sent, p, 1)
             b == Half(dir, c, sent, p, 2)
  <2>7. r = <<a, b>>
    <3> HIDE DEF a, b
    <3>1. r[1] = a /\ r[2] = b
      BY <2>4, <2>6 DEF a, b
    <3>2. \A j \in 1..2 : r[j] = <<a, b>>[j]
      BY <3>1
    <3>3. DOMAIN r = 1..2 /\ r = [j \in 1..2 |-> r[j]]
      BY <2>3, <2>4, LenProperties
    <3>4. <<a, b>> = [j \in 1..2 |-> <<a, b>>[j]]
      OBVIOUS
    <3> QED  BY <3>2, <3>3, <3>4
  <2>8. <<a, b>> = Seal(dir, c, p, sent[p + 1])
    BY DEF Seal, Half
  <2> QED  BY <1>3, <2>7, <2>8 DEF r, p
<1>6. /\ Rest(buf) \in Seq(S) /\ Len(Rest(buf)) = Len(buf) - 2 * n
      /\ Bears(Rest(buf), dir, c, sent, 2 * (q + n))
  <2>1. 2 * n \in 0..Len(buf) /\ 2 * q + 2 * n = 2 * (q + n) /\ 2 * q \in Nat
    BY <1>1, <1>2
  <2> DEFINE m == 2 * n
  <2>2. m \in 0..Len(buf)
    BY <2>1
  <2> HIDE DEF m
  <2>3. /\ SubSeq(buf, m + 1, Len(buf)) \in Seq(S)
        /\ Len(SubSeq(buf, m + 1, Len(buf))) = Len(buf) - m
        /\ Bears(SubSeq(buf, m + 1, Len(buf)), dir, c, sent, 2 * q + m)
    BY <2>1, <2>2, BearsCut
  <2> QED  BY <1>4, <2>1, <2>3 DEF m
<1>7. DOMAIN Records(buf) = 1..n
  BY <1>3
<1> QED  BY <1>2, <1>5, <1>6, <1>7
-----------------------------------------------------------------------------
LEMMA BeginsSelf ==
  ASSUME NEW S, NEW s \in Seq(S) PROVE Begins(s, s)
<1>1. Len(s) \in Nat
  BY LenProperties
<1> QED  BY <1>1 DEF Begins

LEMMA BeginsThrough ==
  ASSUME NEW S, NEW s \in Seq(S), NEW t \in Seq(S), NEW u \in Seq(S),
         Begins(s, t), Begins(t, u)
  PROVE  Begins(s, u)
<1>1. Len(s) \in Nat /\ Len(t) \in Nat /\ Len(u) \in Nat
  BY LenProperties
<1> QED  BY <1>1 DEF Begins

LEMMA BeginsAppend ==
  ASSUME NEW S, NEW s \in Seq(S), NEW x \in S
  PROVE  /\ Append(s, x) \in Seq(S) /\ Len(Append(s, x)) = Len(s) + 1
         /\ Append(s, x)[Len(s) + 1] = x
         /\ Begins(s, Append(s, x))
<1>1. Len(s) \in Nat
  BY LenProperties
<1> QED  BY <1>1, AppendProperties DEF Begins

(* Begins is the community modules' IsPrefix. *)
LEMMA BeginsIsPrefix ==
  ASSUME NEW S, NEW s \in Seq(S), NEW t \in Seq(S), Begins(s, t)
  PROVE  IsPrefix(s, t)
<1>1. /\ Len(s) \in Nat /\ Len(t) \in Nat
      /\ \A i \in 1..Len(s) : s[i] \in S
      /\ \A i \in 1..Len(s) : t[i] \in S
  <2>1. Len(s) \in Nat /\ Len(t) \in Nat /\ Len(s) <= Len(t)
    BY LenProperties DEF Begins
  <2> QED  BY <2>1, ElementOfSeq
<1> DEFINE a == SubSeq(s, 1, Len(s))
           b == SubSeq(t, 1, Len(s))
<1>2. /\ a \in Seq(S) /\ Len(a) = IF 1 <= Len(s) THEN Len(s) - 1 + 1 ELSE 0
      /\ \A i \in 1..(Len(s) - 1 + 1) : a[i] = s[1 + i - 1]
  BY <1>1, SubSeqProperties
<1>3. /\ b \in Seq(S) /\ Len(b) = IF 1 <= Len(s) THEN Len(s) - 1 + 1 ELSE 0
      /\ \A i \in 1..(Len(s) - 1 + 1) : b[i] = t[1 + i - 1]
  BY <1>1, SubSeqProperties
<1> HIDE DEF a, b
<1>4. Len(a) = Len(s) /\ Len(b) = Len(s)
  BY <1>1, <1>2, <1>3
<1>5. \A i \in 1..Len(a) : a[i] = b[i]
  BY <1>1, <1>2, <1>3, <1>4 DEF Begins
<1>6. a = b
  BY <1>2, <1>3, <1>4, <1>5, SeqEqual
<1> QED  BY <1>6 DEF a, b, IsPrefix, Begins

-----------------------------------------------------------------------------
(* The states of a connection and of the device. *)
ConnSet ==
  [st : {"none", "open", "gone"}, authed : BOOLEAN, closed : BOOLEAN, ended : BOOLEAN,
   timer : BOOLEAN, sendSeq : Nat, recvSeq : Nat,
   pending : Seq(PieceSet), dec : Seq(PieceSet), down : Seq(PieceSet), up : Seq(PieceSet),
   sentDown : Seq(FrameSet), gotDown : Seq(FrameSet),
   sentUp : Seq(FrameSet), gotUp : Seq(FrameSet)]

DevSet ==
  [sock : Nat, waiting : BOOLEAN, epoch : Nat, sendSeq : Nat, recvSeq : Nat, rx : Seq(PieceSet)]

(* The host's counters, the bounds of its queue and what it has accepted. *)
Queued(k) ==
  /\ Len(k.pending) <= IF k.closed THEN Watermark + 2 ELSE Watermark
  /\ Len(k.down) <= SockCap
  /\ k.sendSeq = Len(k.sentDown)

(* From its first `from` pieces on, the host's stream is on the wire and   *)
(* behind it in the queue, without a gap.                                  *)
DownWire(k, c, from) ==
  /\ Bears(k.down, Down, c, k.sentDown, from)
  /\ Bears(k.pending, Down, c, k.sentDown, from + Len(k.down))
  /\ from + Len(k.down) + Len(k.pending) = 2 * Len(k.sentDown)

DownKept(k, k2, c) == \A from \in Nat : DownWire(k, c, from) => DownWire(k2, c, from)

(* What a send of the host changes, and what it leaves alone. *)
HostSent(k, k2, c) ==
  /\ k2 \in ConnSet /\ Queued(k2) /\ DownKept(k, k2, c)
  /\ Begins(k.sentDown, k2.sentDown)
  /\ k2.st = k.st /\ k2.authed = k.authed /\ k2.recvSeq = k.recvSeq
  /\ k2.dec = k.dec /\ k2.up = k.up
  /\ k2.sentUp = k.sentUp /\ k2.gotUp = k.gotUp /\ k2.gotDown = k.gotDown
  /\ k.closed => k2.closed /\ k2.pending = k.pending
  /\ ~k.closed /\ k2.closed => Len(k2.pending) > Watermark
  /\ k2.ended => k.ended \/ k2.closed
  /\ (k.closed => k.ended) => (k2.closed => k2.ended)

LEMMA ConnFields ==
  ASSUME NEW k \in ConnSet
  PROVE  /\ k.st \in {"none", "open", "gone"}
         /\ k.authed \in BOOLEAN /\ k.closed \in BOOLEAN /\ k.ended \in BOOLEAN
         /\ k.timer \in BOOLEAN /\ k.sendSeq \in Nat /\ k.recvSeq \in Nat
         /\ k.pending \in Seq(PieceSet) /\ k.dec \in Seq(PieceSet)
         /\ k.down \in Seq(PieceSet) /\ k.up \in Seq(PieceSet)
         /\ k.sentDown \in Seq(FrameSet) /\ k.gotDown \in Seq(FrameSet)
         /\ k.sentUp \in Seq(FrameSet) /\ k.gotUp \in Seq(FrameSet)
BY DEF ConnSet

LEMMA Bounds ==
  /\ SockCap \in Nat \ {0} /\ Watermark \in Nat \ {0} /\ RxCap \in Nat /\ RxCap >= 2
  /\ MaxConns \in Nat \ {0}
BY TransportAssumption

(* flushPending takes bytes from the queue to the wire. *)
LEMMA FlushSends ==
  ASSUME NEW k \in ConnSet, NEW c \in Nat, Len(k.pending) <= Watermark, ~k.closed,
         Len(k.down) <= SockCap, k.sendSeq = Len(k.sentDown)
  PROVE  HostSent(k, FlushPending(k), c) /\ FlushPending(k).closed = k.closed
<1> DEFINE room == IF k.ended THEN 0 ELSE SmallerOf(Len(k.pending), SockCap - Len(k.down))
           front == SubSeq(k.pending, 1, room)
           back == SubSeq(k.pending, room + 1, Len(k.pending))
           wire == k.down \o front
           new == FlushPending(k)
<1>1. /\ k.pending \in Seq(PieceSet) /\ k.down \in Seq(PieceSet) /\ k.sentDown \in Seq(FrameSet)
      /\ Len(k.pending) \in Nat /\ Len(k.down) \in Nat /\ Len(k.sentDown) \in Nat
  BY ConnFields, LenProperties
<1>2. room \in 0..Len(k.pending) /\ room <= SockCap - Len(k.down)
  <2> HIDE DEF front, back, wire, new
  <2> DEFINE free == SockCap - Len(k.down)
  <2>1. free \in Nat
    BY <1>1, Bounds
  <2>2. room = IF k.ended THEN 0 ELSE IF Len(k.pending) < free THEN Len(k.pending) ELSE free
    BY DEF SmallerOf
  <2> HIDE DEF free, room
  <2>3. room \in 0..Len(k.pending) /\ room <= free
    BY <1>1, <2>1, <2>2
  <2> QED  BY <2>3 DEF free
<1>3. new = [k EXCEPT !.down = wire, !.pending = back]
  BY DEF FlushPending
<1> HIDE DEF room, new
<1>4. /\ front \in Seq(PieceSet) /\ Len(front) = room
      /\ back \in Seq(PieceSet) /\ Len(back) = Len(k.pending) - room
      /\ \A sent : \A from \in Nat :
           Bears(k.pending, Down, c, sent, from) =>
             /\ Bears(front, Down, c, sent, from)
             /\ Bears(back, Down, c, sent, from + room)
  <2>1. ASSUME NEW sent, NEW from \in Nat, Bears(k.pending, Down, c, sent, from)
        PROVE  /\ Bears(front, Down, c, sent, from)
               /\ Bears(back, Down, c, sent, from + room)
    BY <1>1, <1>2, <2>1, BearsCut
  <2>2. \A i \in 1..Len(k.pending) : k.pending[i] \in PieceSet
    BY <1>1, ElementOfSeq
  <2>3. /\ front \in Seq(PieceSet)
        /\ Len(front) = IF 1 <= room THEN room - 1 + 1 ELSE 0
    BY <1>1, <1>2, <2>2, SubSeqProperties
  <2>4. /\ back \in Seq(PieceSet)
        /\ Len(back) = IF room + 1 <= Len(k.pending) THEN Len(k.pending) - (room + 1) + 1 ELSE 0
    BY <1>1, <1>2, <2>2, SubSeqProperties
  <2> HIDE DEF front, back
  <2> QED  BY <1>1, <1>2, <2>1, <2>3, <2>4
<1> HIDE DEF front, back
<1>5. wire \in Seq(PieceSet) /\ Len(wire) = Len(k.down) + room
  BY <1>1, <1>4, ConcatProperties
<1>6. ASSUME NEW from \in Nat, DownWire(k, c, from)
      PROVE  /\ Bears(wire, Down, c, k.sentDown, from)
             /\ Bears(back, Down, c, k.sentDown, from + Len(wire))
             /\ from + Len(wire) + Len(back) = 2 * Len(k.sentDown)
  <2> DEFINE mid == from + Len(k.down)
  <2>1. mid \in Nat /\ mid + room = from + Len(wire)
    BY <1>1, <1>2, <1>5
  <2>2. Bears(k.down, Down, c, k.sentDown, from) /\ Bears(k.pending, Down, c, k.sentDown, mid)
    BY <1>6 DEF DownWire
  <2>3. Bears(front, Down, c, k.sentDown, mid) /\ Bears(back, Down, c, k.sentDown, mid + room)
    <3> HIDE DEF mid
    <3> QED  BY <1>4, <2>1, <2>2
  <2>4. Bears(wire, Down, c, k.sentDown, from)
    BY <1>1, <1>4, <2>2, <2>3, BearsJoin
  <2>5. from + Len(wire) + Len(back) = 2 * Len(k.sentDown)
    <3>1. from + Len(k.down) + Len(k.pending) = 2 * Len(k.sentDown)
      BY <1>6 DEF DownWire
    <3>2. Len(wire) = Len(k.down) + room /\ Len(back) = Len(k.pending) - room
      BY <1>4, <1>5
    <3> DEFINE p == Len(k.pending)
               d == Len(k.down)
    <3>3. p \in Nat /\ d \in Nat /\ room \in 0..p /\ from + d + p = 2 * Len(k.sentDown)
      BY <1>1, <1>2, <3>1
    <3> HIDE DEF p, d
    <3>4. from + (d + room) + (p - room) = from + d + p
      BY <3>3
    <3>5. Len(wire) = d + room /\ Len(back) = p - room
      BY <3>2 DEF d, p
    <3> QED  BY <3>3, <3>4, <3>5
  <2> QED  BY <2>1, <2>3, <2>4, <2>5
<1> HIDE DEF wire
<1>7. /\ new.down = wire /\ new.pending = back /\ new.sentDown = k.sentDown
      /\ new.st = k.st /\ new.authed = k.authed /\ new.recvSeq = k.recvSeq
      /\ new.dec = k.dec /\ new.up = k.up /\ new.sendSeq = k.sendSeq
      /\ new.sentUp = k.sentUp /\ new.gotUp = k.gotUp /\ new.gotDown = k.gotDown
      /\ new.closed = k.closed /\ new.ended = k.ended
  BY <1>3 DEF ConnSet
<1>8. new \in ConnSet
  BY <1>3, <1>4, <1>5 DEF ConnSet
<1>9. Queued(new)
  BY <1>1, <1>2, <1>4, <1>5, <1>7, Bounds DEF Queued
<1>10. DownKept(k, new, c)
  BY <1>6, <1>7 DEF DownKept, DownWire
<1>11. Begins(k.sentDown, new.sentDown)
  BY <1>1, <1>7, BeginsSelf
<1> QED  BY <1>7, <1>8, <1>9, <1>10, <1>11 DEF HostSent, new

LEMMA SentNothing ==
  ASSUME NEW k \in ConnSet, NEW c, Queued(k)
  PROVE  HostSent(k, k, c)
BY ConnFields, BeginsSelf DEF HostSent, DownKept

(* drop, of a queue that may be over the watermark. *)
LEMMA DropKeeps ==
  ASSUME NEW k \in ConnSet
  PROVE  LET new == DropConn(k)
         IN  /\ new \in ConnSet
             /\ new.closed = TRUE /\ new.ended = TRUE
             /\ new.pending = k.pending /\ new.down = k.down /\ new.sentDown = k.sentDown
             /\ new.sendSeq = k.sendSeq /\ new.st = k.st /\ new.authed = k.authed
             /\ new.recvSeq = k.recvSeq /\ new.dec = k.dec /\ new.up = k.up
             /\ new.sentUp = k.sentUp /\ new.gotUp = k.gotUp /\ new.gotDown = k.gotDown
<1> DEFINE new == DropConn(k)
<1>1. new = [k EXCEPT !.timer = FALSE, !.closed = TRUE, !.ended = TRUE]
  BY DEF DropConn
<1> HIDE DEF new
<1>2. new \in ConnSet
  BY <1>1 DEF ConnSet
<1>3. /\ new.closed = TRUE /\ new.ended = TRUE
      /\ new.pending = k.pending /\ new.down = k.down /\ new.sentDown = k.sentDown
      /\ new.sendSeq = k.sendSeq /\ new.st = k.st /\ new.authed = k.authed
      /\ new.recvSeq = k.recvSeq /\ new.dec = k.dec /\ new.up = k.up
      /\ new.sentUp = k.sentUp /\ new.gotUp = k.gotUp /\ new.gotDown = k.gotDown
  BY <1>1 DEF ConnSet
<1> QED  BY <1>2, <1>3 DEF new

(* The lengths of a queue that one record joins. *)
LEMMA JoinLengths ==
  ASSUME NEW from \in Nat, NEW d \in Nat, NEW p \in Nat, NEW n \in Nat, from + d + p = 2 * n
  PROVE  /\ from + d \in Nat /\ from + d <= 2 * n
         /\ (from + d) + p = 2 * n /\ (from + d) + p <= 2 * n
         /\ from + d + (p + 2) = 2 * (n + 1)
OBVIOUS

(* Connection.send through the sink: the frame joins the stream whole, or  *)
(* the connection is dropped over the watermark.                           *)
LEMMA HostSendsKeeps ==
  ASSUME NEW k \in ConnSet, NEW c \in Nat, NEW type \in Types, Queued(k)
  PROVE  HostSent(k, HostSends(k, c, type), c)
<1>1. CASE k.closed
  BY <1>1, SentNothing DEF HostSends
<1>2. CASE ~k.closed
  <2> DEFINE frame == Frame(type, Len(k.sentDown) + 1)
             more == Append(k.sentDown, frame)
             record == Seal(Down, c, k.sendSeq, frame)
             line == k.pending \o record
             Q(a, b) == [k EXCEPT !.sentDown = a, !.sendSeq = k.sendSeq + 1, !.pending = b]
  <2>1. /\ k.pending \in Seq(PieceSet) /\ k.down \in Seq(PieceSet) /\ k.sentDown \in Seq(FrameSet)
        /\ Len(k.pending) \in Nat /\ Len(k.down) \in Nat /\ Len(k.sentDown) \in Nat
        /\ k.sendSeq \in Nat /\ k.sendSeq = Len(k.sentDown)
    BY ConnFields, LenProperties DEF Queued
  <2>2. frame \in FrameSet
    BY <2>1 DEF Frame, FrameSet
  <2>3. /\ HostSends(k, c, type)
              = IF Len(line) > Watermark THEN DropConn(Q(more, line)) ELSE FlushPending(Q(more, line))
    <3>1. Q(more, line).pending = line
      BY DEF ConnSet
    <3> QED  BY <1>2, <3>1 DEF HostSends
  <2> HIDE DEF frame, Q
  <2>4. /\ more \in Seq(FrameSet) /\ Len(more) = Len(k.sentDown) + 1
        /\ more[k.sendSeq + 1] = frame /\ Begins(k.sentDown, more)
    BY <2>1, <2>2, BeginsAppend
  <2> HIDE DEF more
  <2>5. /\ record \in Seq(PieceSet) /\ Len(record) = 2
        /\ Bears(record, Down, c, more, 2 * k.sendSeq)
    BY <2>1, <2>2, <2>4, BearsSeal
  <2> HIDE DEF record
  <2>6. line \in Seq(PieceSet) /\ Len(line) = Len(k.pending) + 2
    <3>1. line \in Seq(PieceSet) /\ Len(line) = Len(k.pending) + Len(record)
      BY <2>1, <2>5, ConcatProperties
    <3> HIDE DEF line
    <3> QED  BY <2>5, <3>1
  <2>7. ASSUME NEW from \in Nat, DownWire(k, c, from)
        PROVE  /\ Bears(k.down, Down, c, more, from)
               /\ Bears(line, Down, c, more, from + Len(k.down))
               /\ from + Len(k.down) + Len(line) = 2 * Len(more)
    <3> DEFINE mid == from + Len(k.down)
    <3>1. /\ Bears(k.down, Down, c, k.sentDown, from) /\ Bears(k.pending, Down, c, k.sentDown, mid)
          /\ from + Len(k.down) + Len(k.pending) = 2 * Len(k.sentDown)
      BY <2>7 DEF DownWire
    <3>2. /\ mid \in Nat /\ mid <= 2 * Len(k.sentDown)
          /\ mid + Len(k.pending) = 2 * Len(k.sentDown)
          /\ mid + Len(k.pending) <= 2 * Len(k.sentDown)
          /\ from + Len(k.down) + (Len(k.pending) + 2) = 2 * (Len(k.sentDown) + 1)
      <4> DEFINE d == Len(k.down)
                 p == Len(k.pending)
                 n == Len(k.sentDown)
      <4>1. d \in Nat /\ p \in Nat /\ n \in Nat /\ from + d + p = 2 * n
        BY <2>1, <3>1
      <4> HIDE DEF d, p, n
      <4>2. /\ from + d \in Nat /\ from + d <= 2 * n
            /\ (from + d) + p = 2 * n /\ (from + d) + p <= 2 * n
            /\ from + d + (p + 2) = 2 * (n + 1)
        BY <4>1, JoinLengths
      <4> QED  BY <4>2 DEF d, p, n
    <3>3. Bears(k.down, Down, c, more, from)
      BY <2>1, <2>4, <3>1, <3>2, BearsLonger
    <3>4. Bears(k.pending, Down, c, more, mid)
      <4> HIDE DEF mid, line
      <4> QED  BY <2>1, <2>4, <3>1, <3>2, BearsLonger
    <3>5. Bears(record, Down, c, more, mid + Len(k.pending))
      <4> HIDE DEF mid, line
      <4> QED  BY <2>1, <2>5, <3>2
    <3>6. Bears(line, Down, c, more, mid)
      <4> HIDE DEF mid
      <4> QED  BY <2>1, <2>5, <3>2, <3>4, <3>5, BearsJoin
    <3> HIDE DEF line
    <3>7. from + Len(k.down) + Len(line) = 2 * Len(more)
      <4> HIDE DEF mid
      <4> QED  BY <2>4, <2>6, <3>2
    <3> QED  BY <3>3, <3>6, <3>7
  <2> HIDE DEF line
  <2> DEFINE q == Q(more, line)
  <2>8. q \in ConnSet
    <3> DEFINE n == k.sendSeq + 1
    <3>1. n \in Nat
      BY <2>1
    <3>2. q = [k EXCEPT !.sentDown = more, !.sendSeq = n, !.pending = line]
      BY DEF Q
    <3> HIDE DEF n, q
    <3> QED  BY <2>4, <2>6, <3>1, <3>2 DEF ConnSet
  <2>9. /\ q.sentDown = more /\ q.pending = line /\ q.sendSeq = k.sendSeq + 1
        /\ q.down = k.down /\ q.st = k.st /\ q.authed = k.authed /\ q.recvSeq = k.recvSeq
        /\ q.dec = k.dec /\ q.up = k.up /\ q.sentUp = k.sentUp /\ q.gotUp = k.gotUp
        /\ q.gotDown = k.gotDown /\ q.closed = k.closed /\ q.ended = k.ended
    BY DEF ConnSet, Q
  <2> HIDE DEF q
  <2>10. DownKept(k, q, c)
    BY <2>7, <2>9 DEF DownKept, DownWire
  <2>11. Len(q.down) <= SockCap /\ q.sendSeq = Len(q.sentDown) /\ Len(q.pending) <= Watermark + 2
    <3>1. Len(k.pending) <= Watermark /\ Len(k.down) <= SockCap
      BY <1>2 DEF Queued
    <3>2. q.sendSeq = Len(q.sentDown) /\ Len(q.down) <= SockCap
      BY <2>1, <2>4, <2>9, <3>1
    <3>3. Len(q.pending) = Len(k.pending) + 2
      BY <2>6, <2>9
    <3>4. Len(q.pending) <= Watermark + 2
      <4> DEFINE p == Len(k.pending)
                 n == Len(q.pending)
      <4>1. p \in Nat /\ p <= Watermark /\ n = p + 2
        BY <2>1, <3>1, <3>3
      <4> HIDE DEF p, n
      <4>2. n <= Watermark + 2
        BY <4>1, Bounds
      <4> QED  BY <4>2 DEF n
    <3> QED  BY <3>2, <3>4
  <2>12. CASE Len(line) > Watermark
    <3> DEFINE new == DropConn(q)
    <3>1. /\ new \in ConnSet
          /\ new.closed = TRUE /\ new.ended = TRUE
          /\ new.pending = q.pending /\ new.down = q.down /\ new.sentDown = q.sentDown
          /\ new.sendSeq = q.sendSeq /\ new.st = q.st /\ new.authed = q.authed
          /\ new.recvSeq = q.recvSeq /\ new.dec = q.dec /\ new.up = q.up
          /\ new.sentUp = q.sentUp /\ new.gotUp = q.gotUp /\ new.gotDown = q.gotDown
      BY <2>8, DropKeeps
    <3>2. HostSends(k, c, type) = new
      BY <2>3, <2>12 DEF q
    <3> HIDE DEF new
    <3>3. Queued(new)
      BY <2>11, <3>1 DEF Queued
    <3>4. DownKept(k, new, c)
      <4>1. \A from \in Nat : DownWire(q, c, from) => DownWire(new, c, from)
        BY <3>1 DEF DownWire
      <4> QED  BY <2>10, <4>1 DEF DownKept
    <3>5. Begins(k.sentDown, new.sentDown)
      BY <2>4, <2>9, <3>1
    <3>6. Len(new.pending) > Watermark
      BY <2>9, <2>12, <3>1
    <3>7. HostSent(k, new, c)
      BY <1>2, <2>9, <3>1, <3>3, <3>4, <3>5, <3>6 DEF HostSent
    <3> QED  BY <3>2, <3>7
  <2>13. CASE ~(Len(line) > Watermark)
    <3> DEFINE new == FlushPending(q)
    <3>1. Len(q.pending) <= Watermark /\ ~q.closed
      <4>1. Len(line) \in Nat
        BY <2>6, LenProperties
      <4> QED  BY <1>2, <2>9, <2>13, <4>1, Bounds
    <3>2. HostSent(q, new, c) /\ new.closed = q.closed
      BY <2>8, <2>11, <3>1, FlushSends
    <3>3. HostSends(k, c, type) = new
      BY <2>3, <2>13 DEF q
    <3> HIDE DEF new
    <3>4. DownKept(k, new, c)
      BY <2>10, <3>2 DEF DownKept, HostSent
    <3>5. Begins(k.sentDown, new.sentDown)
      <4>1. q.sentDown \in Seq(FrameSet) /\ new.sentDown \in Seq(FrameSet)
        BY <2>8, <3>2, ConnFields DEF HostSent
      <4> QED  BY <2>1, <2>4, <2>9, <3>2, <4>1, BeginsThrough DEF HostSent
    <3>6. HostSent(k, new, c)
      BY <1>2, <2>9, <3>1, <3>2, <3>4, <3>5 DEF HostSent
    <3> QED  BY <3>3, <3>6
  <2> QED  BY <2>12, <2>13
<1> QED  BY <1>1, <1>2
-----------------------------------------------------------------------------
(* What holds of the host's side of every connection.  A connection of a   *)
(* device with the right token that is not closed has been given every     *)
(* frame it has opened, and nobody half-closed it; a close half-closes the *)
(* socket.                                                                 *)
HostState(k) ==
  /\ Queued(k)
  /\ Begins(k.gotDown, k.sentDown)
  /\ Begins(k.gotUp, k.sentUp)
  /\ k.recvSeq <= Len(k.sentUp)
  /\ k.sentUp # <<>> => k.sentUp[1].type = Attach
  /\ k.authed => token = "good"
  /\ ~k.authed => k.gotUp = <<>>
  /\ token = "good" /\ ~k.closed => ~k.ended /\ Len(k.gotUp) = k.recvSeq
  /\ k.st = "open" => (k.closed => k.ended)

(* What the host's callbacks make of a connection. *)
Served(k, k2, c) ==
  /\ k2 \in ConnSet /\ HostState(k2) /\ DownKept(k, k2, c)
  /\ Begins(k.sentDown, k2.sentDown) /\ Begins(k.gotUp, k2.gotUp)
  /\ k2.st = k.st /\ k2.dec = k.dec /\ k2.up = k.up
  /\ k2.sentUp = k.sentUp /\ k2.gotDown = k.gotDown
  /\ k.authed => k2.authed
  /\ k.closed => k2.closed /\ k2.pending = k.pending
  /\ k.authed /\ ~k.closed /\ k2.closed => Len(k2.pending) > Watermark

LEMMA ServedSelf ==
  ASSUME NEW k \in ConnSet, NEW c, HostState(k)
  PROVE  Served(k, k, c)
BY ConnFields, BeginsSelf DEF Served, DownKept

LEMMA ServedThrough ==
  ASSUME NEW k \in ConnSet, NEW k1, NEW k2, NEW c, Served(k, k1, c), Served(k1, k2, c)
  PROVE  Served(k, k2, c)
<1>1. k1 \in ConnSet /\ k2 \in ConnSet
  BY DEF Served
<1>2. DownKept(k, k2, c)
  <2>1. DownKept(k, k1, c) /\ DownKept(k1, k2, c)
    BY DEF Served
  <2> QED  BY <2>1 DEF DownKept
<1>3. Begins(k.sentDown, k2.sentDown) /\ Begins(k.gotUp, k2.gotUp)
  <2>1. /\ k.sentDown \in Seq(FrameSet) /\ k1.sentDown \in Seq(FrameSet)
        /\ k2.sentDown \in Seq(FrameSet)
        /\ k.gotUp \in Seq(FrameSet) /\ k1.gotUp \in Seq(FrameSet) /\ k2.gotUp \in Seq(FrameSet)
    BY <1>1, ConnFields
  <2> QED  BY <2>1, BeginsThrough DEF Served
<1> QED  BY <1>1, <1>2, <1>3 DEF Served

LEMMA SendServes ==
  ASSUME NEW k \in ConnSet, NEW c, HostState(k), NEW k2, HostSent(k, k2, c)
  PROVE  Served(k, k2, c)
<1>1. k2 \in ConnSet
  BY DEF HostSent
<1>2. /\ k.sentDown \in Seq(FrameSet) /\ k2.sentDown \in Seq(FrameSet)
      /\ k.gotDown \in Seq(FrameSet) /\ k.gotUp \in Seq(FrameSet)
  BY <1>1, ConnFields
<1>3. Begins(k2.gotDown, k2.sentDown)
  <2>1. Begins(k.gotDown, k.sentDown) /\ Begins(k.sentDown, k2.sentDown) /\ k2.gotDown = k.gotDown
    BY DEF HostState, HostSent
  <2> QED  BY <1>2, <2>1, BeginsThrough
<1>4. Begins(k.gotUp, k2.gotUp)
  BY <1>2, BeginsSelf DEF HostSent
<1>5. HostState(k2)
  BY <1>3 DEF HostState, HostSent
<1> QED  BY <1>1, <1>4, <1>5 DEF Served, HostSent

LEMMA SealFrame ==
  ASSUME NEW dir, NEW c, NEW q, NEW f
  PROVE  /\ Seal(dir, c, q, f)[1].rec.frame = f
         /\ Opens(Seal(dir, c, q, f), dir, c, q)
<1>1. Seal(dir, c, q, f)[1].rec.frame = f
  BY DEF Seal
<1> QED  BY <1>1 DEF Opens

(* The counter moves on. *)
LEMMA OpenedHas ==
  ASSUME NEW k \in ConnSet
  PROVE  LET new == [k EXCEPT !.recvSeq = @ + 1]
         IN  /\ new \in ConnSet
             /\ new.recvSeq = k.recvSeq + 1
             /\ new.st = k.st /\ new.authed = k.authed /\ new.closed = k.closed
             /\ new.ended = k.ended /\ new.sendSeq = k.sendSeq
             /\ new.pending = k.pending /\ new.dec = k.dec /\ new.down = k.down /\ new.up = k.up
             /\ new.sentDown = k.sentDown /\ new.gotDown = k.gotDown
             /\ new.sentUp = k.sentUp /\ new.gotUp = k.gotUp
<1> DEFINE new == [k EXCEPT !.recvSeq = @ + 1]
           n == k.recvSeq + 1
<1>1. n \in Nat
  BY ConnFields
<1>2. new = [k EXCEPT !.recvSeq = n]
  OBVIOUS
<1> HIDE DEF new, n
<1>3. new \in ConnSet
  BY <1>1, <1>2 DEF ConnSet
<1>4. /\ new.recvSeq = n
      /\ new.st = k.st /\ new.authed = k.authed /\ new.closed = k.closed
      /\ new.ended = k.ended /\ new.sendSeq = k.sendSeq
      /\ new.pending = k.pending /\ new.dec = k.dec /\ new.down = k.down /\ new.up = k.up
      /\ new.sentDown = k.sentDown /\ new.gotDown = k.gotDown
      /\ new.sentUp = k.sentUp /\ new.gotUp = k.gotUp
  BY <1>2 DEF ConnSet
<1> QED  BY <1>3, <1>4 DEF new, n

LEMMA EndedHas ==
  ASSUME NEW k \in ConnSet
  PROVE  LET new == [k EXCEPT !.ended = TRUE]
         IN  /\ new \in ConnSet
             /\ new.ended = TRUE /\ new.authed = k.authed
             /\ new.st = k.st /\ new.closed = k.closed
             /\ new.sendSeq = k.sendSeq /\ new.recvSeq = k.recvSeq
             /\ new.pending = k.pending /\ new.dec = k.dec /\ new.down = k.down /\ new.up = k.up
             /\ new.sentDown = k.sentDown /\ new.gotDown = k.gotDown
             /\ new.sentUp = k.sentUp /\ new.gotUp = k.gotUp
<1> DEFINE new == [k EXCEPT !.ended = TRUE]
<1>1. new \in ConnSet
  BY DEF ConnSet
<1>2. /\ new.ended = TRUE /\ new.authed = k.authed
      /\ new.st = k.st /\ new.closed = k.closed
      /\ new.sendSeq = k.sendSeq /\ new.recvSeq = k.recvSeq
      /\ new.pending = k.pending /\ new.dec = k.dec /\ new.down = k.down /\ new.up = k.up
      /\ new.sentDown = k.sentDown /\ new.gotDown = k.gotDown
      /\ new.sentUp = k.sentUp /\ new.gotUp = k.gotUp
  BY DEF ConnSet
<1> QED  BY <1>1, <1>2

(* Only the counter of opened records and the frames given have changed. *)
LEMMA GivenServes ==
  ASSUME NEW k \in ConnSet, NEW c, NEW k2 \in ConnSet, HostState(k2),
         Begins(k.gotUp, k2.gotUp), k.authed => k2.authed, k2.closed = k.closed,
         k2.st = k.st, k2.dec = k.dec, k2.up = k.up, k2.sentUp = k.sentUp,
         k2.gotDown = k.gotDown, k2.sentDown = k.sentDown, k2.pending = k.pending,
         k2.down = k.down
  PROVE  Served(k, k2, c)
<1>1. Begins(k.sentDown, k2.sentDown)
  BY ConnFields, BeginsSelf
<1>2. DownKept(k, k2, c)
  BY DEF DownKept, DownWire
<1> QED  BY <1>1, <1>2 DEF Served

(* The next record of the device's stream opens and is served. *)
LEMMA ServeKeeps ==
  ASSUME NEW k \in ConnSet, NEW c \in Nat, HostState(k), k.recvSeq < Len(k.sentUp),
         NEW record, record = Seal(Up, c, k.recvSeq, k.sentUp[k.recvSeq + 1])
  PROVE  /\ Served(k, ServeRecord(k, c, record), c)
         /\ ServeRecord(k, c, record).recvSeq = k.recvSeq + 1
<1> DEFINE frame == k.sentUp[k.recvSeq + 1]
           opened == [k EXCEPT !.recvSeq = @ + 1]
<1>1. /\ opened \in ConnSet
      /\ opened.recvSeq = k.recvSeq + 1
      /\ opened.st = k.st /\ opened.authed = k.authed /\ opened.closed = k.closed
      /\ opened.ended = k.ended /\ opened.sendSeq = k.sendSeq
      /\ opened.pending = k.pending /\ opened.dec = k.dec /\ opened.down = k.down
      /\ opened.up = k.up
      /\ opened.sentDown = k.sentDown /\ opened.gotDown = k.gotDown
      /\ opened.sentUp = k.sentUp /\ opened.gotUp = k.gotUp
  BY OpenedHas
<1>2. record[1].rec.frame = frame /\ Opens(record, Up, c, k.recvSeq)
  BY SealFrame
<1>3. ServeRecord(k, c, record) = IF k.closed THEN opened ELSE Route(opened, c, frame)
  BY <1>2 DEF ServeRecord
<1> HIDE DEF opened
<1>4. /\ k.recvSeq \in Nat /\ k.recvSeq + 1 \in 1..Len(k.sentUp)
      /\ frame \in FrameSet
      /\ k.gotUp \in Seq(FrameSet) /\ k.sentUp \in Seq(FrameSet) /\ k.authed \in BOOLEAN
  <2>1. /\ k.recvSeq \in Nat /\ k.sentUp \in Seq(FrameSet) /\ Len(k.sentUp) \in Nat
        /\ k.gotUp \in Seq(FrameSet) /\ k.authed \in BOOLEAN
    BY ConnFields, LenProperties
  <2>2. k.recvSeq + 1 \in 1..Len(k.sentUp)
    BY <2>1
  <2> QED  BY <2>1, <2>2, ElementOfSeq
<1>5. /\ Queued(opened) /\ Begins(opened.gotDown, opened.sentDown)
      /\ Begins(opened.gotUp, opened.sentUp) /\ opened.recvSeq <= Len(opened.sentUp)
      /\ opened.sentUp # <<>> => opened.sentUp[1].type = Attach
      /\ opened.authed => token = "good"
      /\ ~opened.authed => opened.gotUp = <<>>
      /\ opened.st = "open" => (opened.closed => opened.ended)
  BY <1>1, <1>4 DEF HostState, Queued
<1>6. CASE k.closed \/ token # "good"
  <2>1. HostState(opened)
    BY <1>1, <1>5, <1>6 DEF HostState
  <2>2. Begins(k.gotUp, opened.gotUp)
    BY <1>1, <1>4, BeginsSelf
  <2>3. Served(k, opened, c)
    BY <1>1, <2>1, <2>2, GivenServes
  <2>4. CASE k.closed
    BY <1>1, <1>3, <2>3, <2>4
  <2>5. CASE ~k.closed
    <3> DEFINE sent == HostSends(opened, c, Error)
               new == [sent EXCEPT !.ended = TRUE]
    <3>1. ServeRecord(k, c, record) = new
      <4>1. ~opened.authed /\ token # "good"
        BY <1>5, <1>6, <2>5
      <4> QED  BY <1>3, <2>5, <4>1 DEF Route, Refuse
    <3>2. HostSent(opened, sent, c)
      BY <1>1, <1>5, HostSendsKeeps DEF Types
    <3> HIDE DEF sent
    <3>3. Served(opened, sent, c) /\ sent.recvSeq = opened.recvSeq
      BY <1>1, <2>1, <3>2, SendServes DEF HostSent
    <3>4. Served(k, sent, c)
      BY <2>3, <3>3, ServedThrough
    <3>5. /\ new \in ConnSet
          /\ new.ended = TRUE /\ new.authed = sent.authed
          /\ new.st = sent.st /\ new.closed = sent.closed
          /\ new.sendSeq = sent.sendSeq /\ new.recvSeq = sent.recvSeq
          /\ new.pending = sent.pending /\ new.dec = sent.dec /\ new.down = sent.down
          /\ new.up = sent.up
          /\ new.sentDown = sent.sentDown /\ new.gotDown = sent.gotDown
          /\ new.sentUp = sent.sentUp /\ new.gotUp = sent.gotUp
      BY <3>4, EndedHas DEF Served
    <3> HIDE DEF new
    <3>6. HostState(new)
      <4>1. HostState(sent) /\ token # "good"
        BY <1>6, <2>5, <3>4 DEF Served
      <4> QED  BY <3>5, <4>1 DEF HostState, Queued
    <3>7. Served(sent, new, c)
      <4>1. sent \in ConnSet
        BY <3>4 DEF Served
      <4>2. Begins(sent.gotUp, new.gotUp)
        BY <3>5, <4>1, ConnFields, BeginsSelf
      <4> QED  BY <3>5, <3>6, <4>1, <4>2, GivenServes
    <3>8. Served(k, new, c)
      BY <3>4, <3>7, ServedThrough
    <3> QED  BY <1>1, <3>1, <3>3, <3>5, <3>8
  <2> QED  BY <2>4, <2>5
<1>7. CASE ~k.closed /\ token = "good"
  <2>1. ~k.ended /\ Len(k.gotUp) = k.recvSeq
    BY <1>7 DEF HostState
  <2> DEFINE got == Append(k.gotUp, frame)
             G(timer) == [opened EXCEPT !.authed = TRUE, !.timer = timer, !.gotUp = got]
  <2>2. got \in Seq(FrameSet) /\ Len(got) = k.recvSeq + 1 /\ Begins(k.gotUp, got)
    <3> HIDE DEF frame
    <3> QED  BY <1>4, <2>1, BeginsAppend
  <2>3. Begins(got, k.sentUp)
    <3>1. Begins(k.gotUp, k.sentUp)
      BY DEF HostState
    <3>2. got[k.recvSeq + 1] = frame /\ \A i \in 1..k.recvSeq : got[i] = k.gotUp[i]
      BY <1>4, <2>1, AppendProperties
    <3> HIDE DEF got
    <3>3. ASSUME NEW i \in 1..Len(got) PROVE got[i] = k.sentUp[i]
      <4>1. CASE i = k.recvSeq + 1
        BY <3>2, <4>1
      <4>2. CASE i # k.recvSeq + 1
        <5>1. i \in 1..k.recvSeq
          BY <1>4, <2>2, <4>2
        <5> QED  BY <2>1, <3>1, <3>2, <5>1 DEF Begins
      <4> QED  BY <4>1, <4>2
    <3>4. Len(got) <= Len(k.sentUp)
      BY <1>4, <2>2
    <3> QED  BY <3>3, <3>4 DEF Begins
  <2> HIDE DEF got
  <2>4. ASSUME NEW timer \in BOOLEAN
        PROVE  /\ G(timer) \in ConnSet /\ HostState(G(timer))
               /\ Served(k, G(timer), c)
               /\ G(timer).recvSeq = k.recvSeq + 1
    <3> DEFINE new == G(timer)
    <3>1. /\ new \in ConnSet
          /\ new.gotUp = got /\ new.authed = TRUE
          /\ new.st = opened.st /\ new.closed = opened.closed
          /\ new.ended = opened.ended /\ new.sendSeq = opened.sendSeq
          /\ new.recvSeq = opened.recvSeq
          /\ new.pending = opened.pending /\ new.dec = opened.dec /\ new.down = opened.down
          /\ new.up = opened.up /\ new.sentDown = opened.sentDown
          /\ new.gotDown = opened.gotDown /\ new.sentUp = opened.sentUp
      <4>1. got \in Seq(FrameSet) /\ opened \in ConnSet
        BY <1>1, <2>2
      <4>2. new = [opened EXCEPT !.authed = TRUE, !.timer = timer, !.gotUp = got]
        OBVIOUS
      <4> HIDE DEF frame, G, new
      <4>3. new \in ConnSet
        BY <4>1, <4>2 DEF ConnSet
      <4> QED  BY <4>1, <4>2, <4>3 DEF ConnSet
    <3> HIDE DEF new
    <3>2. HostState(new)
      BY <1>1, <1>5, <1>7, <2>1, <2>2, <2>3, <2>4, <3>1 DEF HostState, Queued
    <3>3. Served(k, new, c)
      BY <1>1, <2>2, <2>4, <3>1, <3>2, GivenServes
    <3> QED  BY <1>1, <3>1, <3>2, <3>3 DEF new
  <2>5. CASE k.authed
    <3> DEFINE timer == opened.timer
    <3>1. ServeRecord(k, c, record) = [opened EXCEPT !.gotUp = got]
      BY <1>1, <1>3, <1>7, <2>5 DEF Route, got
    <3>2. [opened EXCEPT !.gotUp = got] = G(timer)
      BY <1>1, <2>5 DEF ConnSet
    <3>3. timer \in BOOLEAN
      BY <1>1, ConnFields
    <3> HIDE DEF G, timer
    <3> QED  BY <2>4, <3>1, <3>2, <3>3
  <2>6. CASE ~k.authed
    <3> DEFINE first == G(FALSE)
    <3>1. frame.type = Attach
      <4>1. k.gotUp = <<>>
        BY <2>6 DEF HostState
      <4>2. k.recvSeq = 0
        BY <2>1, <4>1
      <4>3. k.sentUp # <<>>
        BY <1>4
      <4> QED  BY <4>2, <4>3 DEF HostState
    <3>2. ServeRecord(k, c, record) = HostSends(first, c, Hello)
      <4>1. first = [opened EXCEPT !.authed = TRUE, !.timer = FALSE,
                                   !.gotUp = Append(opened.gotUp, frame)]
        BY <1>1 DEF got
      <4>2. first = [opened EXCEPT !.authed = TRUE, !.timer = FALSE, !.gotUp = Append(@, frame)]
        BY <4>1
      <4> HIDE DEF first
      <4> QED  BY <1>1, <1>3, <1>7, <2>6, <3>1, <4>2 DEF Route
    <3>3. /\ first \in ConnSet /\ HostState(first) /\ Served(k, first, c)
          /\ first.recvSeq = k.recvSeq + 1
      BY <2>4
    <3> HIDE DEF first
    <3> DEFINE new == HostSends(first, c, Hello)
    <3>4. HostSent(first, new, c)
      BY <3>3, HostSendsKeeps DEF Types, HostState
    <3> HIDE DEF new
    <3>5. Served(first, new, c) /\ new.recvSeq = first.recvSeq
      BY <3>3, <3>4, SendServes DEF HostSent
    <3>6. Served(k, new, c) /\ new.recvSeq = k.recvSeq + 1
      BY <3>3, <3>5, ServedThrough
    <3> QED  BY <3>2, <3>6 DEF new
  <2> QED  BY <2>5, <2>6
<1> QED  BY <1>6, <1>7
-----------------------------------------------------------------------------
(* The loop over the records of a chunk. *)

QueueSet == {k \in ConnSet : Queued(k)}

LEMMA ServeTyped ==
  ASSUME NEW k \in QueueSet, NEW c \in Nat, NEW record, record[1].rec.frame \in FrameSet
  PROVE  ServeRecord(k, c, record) \in QueueSet
<1> DEFINE frame == record[1].rec.frame
           opened == [k EXCEPT !.recvSeq = @ + 1]
           dropped == DropConn(k)
<1>0. k \in ConnSet /\ Queued(k)
  BY DEF QueueSet
<1>1. opened \in QueueSet /\ opened.authed = k.authed
  <2>1. /\ opened \in ConnSet /\ opened.authed = k.authed
        /\ opened.closed = k.closed /\ opened.sendSeq = k.sendSeq
        /\ opened.pending = k.pending /\ opened.down = k.down /\ opened.sentDown = k.sentDown
    BY <1>0, OpenedHas
  <2> HIDE DEF opened
  <2> QED  BY <1>0, <2>1 DEF QueueSet, Queued
<1>2. dropped \in QueueSet
  <2>1. /\ dropped \in ConnSet /\ dropped.closed = TRUE
        /\ dropped.sendSeq = k.sendSeq
        /\ dropped.pending = k.pending /\ dropped.down = k.down
        /\ dropped.sentDown = k.sentDown
    BY <1>0, DropKeeps
  <2>2. Len(k.pending) <= Watermark + 2
    <3>1. Len(k.pending) \in Nat
      BY <1>0, ConnFields, LenProperties
    <3> QED  BY <1>0, <3>1, Bounds DEF Queued
  <2> HIDE DEF dropped
  <2> QED  BY <1>0, <2>1, <2>2 DEF QueueSet, Queued
<1>3. ASSUME NEW x \in QueueSet, NEW type \in Types
      PROVE  HostSends(x, c, type) \in QueueSet
  BY HostSendsKeeps DEF HostSent, QueueSet
<1>4. Route(opened, c, frame) \in QueueSet
  <2> HIDE DEF opened, frame
  <2> DEFINE sent == HostSends(opened, c, Error)
             got == Append(opened.gotUp, frame)
             given == [opened EXCEPT !.gotUp = got]
             first == [opened EXCEPT !.authed = TRUE, !.timer = FALSE, !.gotUp = got]
             ended == [sent EXCEPT !.ended = TRUE]
  <2>0. opened \in ConnSet /\ Queued(opened) /\ frame \in FrameSet
    BY <1>1 DEF QueueSet, frame
  <2>1. got \in Seq(FrameSet)
    <3>1. opened.gotUp \in Seq(FrameSet)
      BY <2>0, ConnFields
    <3> QED  BY <2>0, <3>1, AppendProperties
  <2>2. given \in QueueSet
    <3> HIDE DEF got
    <3>1. given \in ConnSet
      BY <2>0, <2>1 DEF ConnSet
    <3>2. /\ given.closed = opened.closed /\ given.sendSeq = opened.sendSeq
          /\ given.pending = opened.pending /\ given.down = opened.down
          /\ given.sentDown = opened.sentDown
      BY <2>0 DEF ConnSet
    <3> HIDE DEF given
    <3> QED  BY <2>0, <3>1, <3>2 DEF QueueSet, Queued
  <2>3. first \in QueueSet
    <3> HIDE DEF got
    <3>1. first \in ConnSet
      BY <2>0, <2>1 DEF ConnSet
    <3>2. /\ first.closed = opened.closed /\ first.sendSeq = opened.sendSeq
          /\ first.pending = opened.pending /\ first.down = opened.down
          /\ first.sentDown = opened.sentDown
      BY <2>0 DEF ConnSet
    <3> HIDE DEF first
    <3> QED  BY <2>0, <3>1, <3>2 DEF QueueSet, Queued
  <2>4. ended \in QueueSet
    <3>1. sent \in ConnSet /\ Queued(sent)
      BY <1>1, <1>3 DEF Types, QueueSet
    <3> HIDE DEF sent
    <3>2. /\ ended \in ConnSet
          /\ ended.closed = sent.closed /\ ended.sendSeq = sent.sendSeq
          /\ ended.pending = sent.pending /\ ended.down = sent.down
          /\ ended.sentDown = sent.sentDown
      BY <3>1, EndedHas
    <3> HIDE DEF ended
    <3> QED  BY <3>1, <3>2 DEF QueueSet, Queued
  <2>5. HostSends(first, c, Hello) \in QueueSet
    <3> HIDE DEF first
    <3> QED  BY <1>3, <2>3 DEF Types
  <2>6. /\ Route(opened, c, frame)
             = IF opened.authed THEN given
               ELSE IF frame.type # Attach \/ token # "good" THEN ended
               ELSE HostSends(first, c, Hello)
    BY DEF Route, Refuse
  <2> HIDE DEF given, first, ended
  <2> QED  BY <2>2, <2>4, <2>5, <2>6
<1>5. ServeRecord(k, c, record)
        = IF ~Opens(record, Up, c, k.recvSeq) THEN dropped
          ELSE IF k.closed THEN opened ELSE Route(opened, c, frame)
  BY DEF ServeRecord
<1> HIDE DEF dropped, opened, frame
<1> QED  BY <1>1, <1>2, <1>4, <1>5

(* at[i] is the connection after the first i records. *)
ServeRun(at, k, c, n, records) ==
  /\ at[0] = k
  /\ \A i \in 1..n : at[i] = ServeRecord(at[i - 1], c, records[i])
  /\ ServeRecords(k, c, records) = at[n]

LEMMA ServeFold ==
  ASSUME NEW k \in QueueSet, NEW c \in Nat, NEW n \in Nat, NEW records, DOMAIN records = 1..n,
         \A i \in 1..n : records[i][1].rec.frame \in FrameSet
  PROVE  \E at : ServeRun(at, k, c, n, records)
<1> DEFINE F == [p \in (1..n) \X QueueSet |-> ServeRecord(p[2], c, records[p[1]])]
           Step(h) == [s \in SUBSET (1..n) |->
                         IF s = {} THEN k
                         ELSE ServeRecord(h[s \ {Max(s)}], c, records[Max(s)])]
           it == CHOOSE h : h = Step(h)
<1>1. ServeRecords(k, c, records) = it[1..n]
  BY DEF ServeRecords, FoldLeft, MapThenFoldSet
<1>2. \A i \in 1..n, b \in QueueSet : /\ F[<<i, b>>] = ServeRecord(b, c, records[i])
                                      /\ F[<<i, b>>] \in QueueSet
  BY ServeTyped
<1>3. PICK h \in [SUBSET (1..n) -> QueueSet] : IsFold(h, n, k, F)
  <2>1. \A i \in 1..n, b \in QueueSet : F[<<i, b>>] \in QueueSet
    BY <1>2
  <2> HIDE DEF F
  <2> QED  BY <2>1, FoldFunctionExists
<1>4. h = Step(h)
  <2>0. \A s \in SUBSET (1..n) :
          h[s] = IF s = {} THEN k ELSE F[<<Max(s), h[s \ {Max(s)}]>>]
    <3> HIDE DEF F
    <3> QED  BY <1>3 DEF IsFold
  <2>1. ASSUME NEW s \in SUBSET (1..n), s # {}
        PROVE  h[s] = ServeRecord(h[s \ {Max(s)}], c, records[Max(s)])
    <3>1. Max(s) \in 1..n
      BY <2>1, MaxOfIndices
    <3>2. s \ {Max(s)} \in SUBSET (1..n)
      OBVIOUS
    <3>3. h[s \ {Max(s)}] \in QueueSet
      BY <3>2
    <3> HIDE DEF F
    <3> QED  BY <1>2, <2>0, <2>1, <3>1, <3>3
  <2>2. h[{}] = k
    BY <2>0
  <2> QED  BY <2>1, <2>2
<1>5. it = Step(it)
  <2> HIDE DEF Step
  <2> QED  BY <1>4
<1>6. it[1..0] = k
  <2>1. 1..0 = {} /\ {} \in SUBSET (1..n)
    OBVIOUS
  <2> HIDE DEF it
  <2> QED  BY <1>5, <2>1
<1>7. \A i \in 1..n : it[1..i] = ServeRecord(it[1..(i - 1)], c, records[i])
  <2> HIDE DEF it
  <2> TAKE i \in 1..n
  <2>1. 1..i # {} /\ 1..i \in SUBSET (1..n) /\ Max(1..i) = i /\ (1..i) \ {i} = 1..(i - 1)
    BY MaxOfRange
  <2>2. it[1..i] = ServeRecord(it[(1..i) \ {Max(1..i)}], c, records[Max(1..i)])
    BY <1>5, <2>1
  <2> QED  BY <2>1, <2>2
<1> HIDE DEF it
<1> DEFINE at == [i \in 0..n |-> it[1..i]]
<1>8. /\ at[0] = k
      /\ \A i \in 1..n : at[i] = ServeRecord(at[i - 1], c, records[i])
      /\ ServeRecords(k, c, records) = at[n]
  <2>1. 0 \in 0..n /\ n \in 0..n /\ \A i \in 1..n : i \in 0..n /\ i - 1 \in 0..n
    OBVIOUS
  <2>2. at[0] = k /\ at[n] = it[1..n]
    BY <1>6, <2>1
  <2>3. ASSUME NEW i \in 1..n PROVE at[i] = ServeRecord(at[i - 1], c, records[i])
    <3>1. at[i] = it[1..i] /\ at[i - 1] = it[1..(i - 1)]
      BY <2>1
    <3> HIDE DEF at
    <3> QED  BY <1>7, <3>1
  <2> QED  BY <1>1, <2>2, <2>3
<1> HIDE DEF at
<1> QED  BY <1>8 DEF ServeRun

(* data: every record of the chunk opens and is served. *)
LEMMA DataServes ==
  ASSUME NEW k \in ConnSet, NEW c \in Nat, HostState(k), NEW n \in Nat,
         NEW records, DOMAIN records = 1..n, k.recvSeq + n <= Len(k.sentUp),
         \A i \in 1..n :
           records[i] = Seal(Up, c, k.recvSeq + (i - 1), k.sentUp[k.recvSeq + (i - 1) + 1])
  PROVE  /\ Served(k, ServeRecords(k, c, records), c)
         /\ ServeRecords(k, c, records).recvSeq = k.recvSeq + n
<1>1. k \in QueueSet
  BY DEF QueueSet, HostState
<1>2. /\ k.recvSeq \in Nat /\ k.sentUp \in Seq(FrameSet) /\ Len(k.sentUp) \in Nat
  BY ConnFields, LenProperties
<1>3. \A i \in 1..n : records[i][1].rec.frame \in FrameSet
  <2> TAKE i \in 1..n
  <2> DEFINE q == k.recvSeq + (i - 1)
  <2>1. q + 1 \in 1..Len(k.sentUp)
    BY <1>2
  <2>2. k.sentUp[q + 1] \in FrameSet
    BY <1>2, <2>1, ElementOfSeq
  <2>3. records[i] = Seal(Up, c, q, k.sentUp[q + 1])
    OBVIOUS
  <2> HIDE DEF q
  <2>4. records[i][1].rec.frame = k.sentUp[q + 1]
    BY <2>3, SealFrame
  <2> QED  BY <2>2, <2>4
<1>a. PICK at : ServeRun(at, k, c, n, records)
  BY <1>1, <1>3, ServeFold, Zenon
<1>4. /\ at[0] = k
      /\ \A i \in 1..n : at[i] = ServeRecord(at[i - 1], c, records[i])
      /\ ServeRecords(k, c, records) = at[n]
  BY <1>a DEF ServeRun
<1> DEFINE P == {i \in Nat : Served(k, at[i], c) /\ at[i].recvSeq = k.recvSeq + i}
<1>5. 0 \in P
  BY <1>2, <1>4, ServedSelf
<1>6. ASSUME NEW i \in 1..n, i - 1 \in P PROVE i \in P
  <2> DEFINE was == at[i - 1]
             new == at[i]
  <2>1. Served(k, was, c) /\ was.recvSeq = k.recvSeq + (i - 1)
    BY <1>6
  <2>2. new = ServeRecord(was, c, records[i])
    BY <1>4
  <2> HIDE DEF was, new
  <2>3. was \in ConnSet /\ HostState(was) /\ was.sentUp = k.sentUp
    BY <2>1 DEF Served
  <2>4. records[i] = Seal(Up, c, was.recvSeq, was.sentUp[was.recvSeq + 1])
    BY <2>1, <2>3
  <2>5. was.recvSeq < Len(was.sentUp)
    BY <1>2, <2>1, <2>3
  <2>6. Served(was, new, c) /\ new.recvSeq = was.recvSeq + 1
    BY <2>2, <2>3, <2>4, <2>5, ServeKeeps
  <2>7. Served(k, new, c)
    BY <2>1, <2>6, ServedThrough
  <2>8. new.recvSeq = k.recvSeq + i
    BY <1>2, <2>1, <2>6
  <2> QED  BY <2>7, <2>8 DEF new
<1> HIDE DEF P
<1>7. 0..n \subseteq P
  BY <1>5, <1>6, Climb
<1>8. n \in P
  <2>1. n \in 0..n
    OBVIOUS
  <2> QED  BY <1>7, <2>1
<1> QED  BY <1>4, <1>8 DEF P
-----------------------------------------------------------------------------
(* The device's side of its connection. *)

(* From the first record the host has not opened on, the device's stream   *)
(* is in the host's decoder and behind it on the wire, without a gap; only *)
(* its last record may be cut short.                                       *)
UpWire(k, c) ==
  k.st = "open" =>
    /\ Bears(k.dec, Up, c, k.sentUp, 2 * k.recvSeq)
    /\ Bears(k.up, Up, c, k.sentUp, 2 * k.recvSeq + Len(k.dec))
    /\ 2 * k.recvSeq + Len(k.dec) + Len(k.up) <= 2 * Len(k.sentUp)

(* The device is on connection c, and has written its records whole. *)
LinkUp(d, k, c) ==
  /\ d.sock = c /\ ~d.waiting /\ d.epoch = c /\ k.st # "none"
  /\ d.sendSeq = Len(k.sentUp)
  /\ k.st = "open" => 2 * k.recvSeq + Len(k.dec) + Len(k.up) = 2 * d.sendSeq

(* What the device's sends make of it and of its connection. *)
Sent(d, k, d2, k2, c) ==
  /\ d2 \in DevSet /\ k2 \in ConnSet /\ HostState(k2) /\ UpWire(k2, c)
  /\ k2.sentUp # <<>> /\ Begins(k.sentUp, k2.sentUp)
  /\ k2.st = k.st /\ k2.authed = k.authed /\ k2.closed = k.closed /\ k2.ended = k.ended
  /\ k2.pending = k.pending /\ k2.down = k.down
  /\ k2.sentDown = k.sentDown /\ k2.gotDown = k.gotDown /\ k2.gotUp = k.gotUp
  /\ \/ d2 = Offline
     \/ LinkUp(d2, k2, c) /\ d2.recvSeq = d.recvSeq /\ d2.rx = d.rx

LEMMA OfflineTyped == Offline \in DevSet
BY DEF Offline, DevSet

(* The lengths of a stretch of the stream that part of a record joins. *)
LEMMA GrowLengths ==
  ASSUME NEW from \in Nat, NEW e \in Nat, NEW u \in Nat, NEW n \in Nat, NEW w \in 0..2,
         from + e + u = 2 * n
  PROVE  /\ from + e <= 2 * n /\ from + e \in Nat
         /\ (from + e) + u = 2 * n /\ (from + e) + u <= 2 * n
         /\ (from + e) + (u + w) <= 2 * (n + 1)
         /\ from + e + (u + 2) = 2 * (n + 1)
OBVIOUS

(* A record joins the bytes on their way up, perhaps cut short. *)
Joins(k, c, frame, written, p, more) ==
  /\ frame \in FrameSet /\ (k.sentUp = <<>> => frame.type = Attach)
  /\ p \in Seq(PieceSet) /\ Len(p) = written
  /\ more = Append(k.sentUp, frame)
  /\ Bears(p, Up, c, more, 2 * Len(k.sentUp))
  /\ k.st = "open" => 2 * k.recvSeq + Len(k.dec) + Len(k.up) = 2 * Len(k.sentUp)

Joined(k, p, more) == [k EXCEPT !.up = k.up \o p, !.sentUp = more]

LEMMA UpJoins ==
  ASSUME NEW k \in ConnSet, NEW c \in Nat, HostState(k), UpWire(k, c),
         NEW frame, NEW written \in 0..2, NEW p, NEW more, Joins(k, c, frame, written, p, more),
         NEW k2, k2 = Joined(k, p, more)
  PROVE  /\ k2 \in ConnSet /\ HostState(k2) /\ UpWire(k2, c)
         /\ k2.sentUp = more /\ Begins(k.sentUp, more)
         /\ k2.st = k.st /\ k2.authed = k.authed /\ k2.closed = k.closed /\ k2.ended = k.ended
         /\ k2.recvSeq = k.recvSeq /\ k2.dec = k.dec
         /\ k2.pending = k.pending /\ k2.down = k.down
         /\ k2.sentDown = k.sentDown /\ k2.gotDown = k.gotDown /\ k2.gotUp = k.gotUp
<1> DEFINE line == k.up \o p
<1>0. /\ frame \in FrameSet /\ (k.sentUp = <<>> => frame.type = Attach)
      /\ p \in Seq(PieceSet) /\ Len(p) = written
      /\ more = Append(k.sentUp, frame)
      /\ Bears(p, Up, c, more, 2 * Len(k.sentUp))
      /\ k.st = "open" => 2 * k.recvSeq + Len(k.dec) + Len(k.up) = 2 * Len(k.sentUp)
  BY DEF Joins
<1>1. /\ k.sentUp \in Seq(FrameSet) /\ k.gotUp \in Seq(FrameSet)
      /\ k.up \in Seq(PieceSet) /\ k.dec \in Seq(PieceSet)
      /\ Len(k.sentUp) \in Nat /\ Len(k.up) \in Nat /\ Len(k.dec) \in Nat /\ k.recvSeq \in Nat
  BY ConnFields, LenProperties
<1>2. line \in Seq(PieceSet) /\ Len(line) = Len(k.up) + written
  BY <1>0, <1>1, ConcatProperties
<1>3. /\ more \in Seq(FrameSet) /\ Len(more) = Len(k.sentUp) + 1
      /\ more[Len(k.sentUp) + 1] = frame /\ Begins(k.sentUp, more)
  BY <1>0, <1>1, BeginsAppend
<1>4. k2 = [k EXCEPT !.up = line, !.sentUp = more]
  BY DEF Joined
<1>5. k.st = "open" =>
        /\ Bears(k.dec, Up, c, more, 2 * k.recvSeq)
        /\ Bears(line, Up, c, more, 2 * k.recvSeq + Len(k.dec))
        /\ 2 * k.recvSeq + Len(k.dec) + Len(line) <= 2 * Len(more)
  <2> SUFFICES ASSUME k.st = "open"
               PROVE  /\ Bears(k.dec, Up, c, more, 2 * k.recvSeq)
                      /\ Bears(line, Up, c, more, 2 * k.recvSeq + Len(k.dec))
                      /\ 2 * k.recvSeq + Len(k.dec) + Len(line) <= 2 * Len(more)
    OBVIOUS
  <2> DEFINE from == 2 * k.recvSeq
             e == Len(k.dec)
             u == Len(k.up)
             n == Len(k.sentUp)
             mid == from + e
  <2>1. /\ from \in Nat /\ e \in Nat /\ u \in Nat /\ n \in Nat /\ from + e + u = 2 * n
        /\ written \in 0..2
    <3>1. /\ k.recvSeq \in Nat /\ e \in Nat /\ u \in Nat /\ n \in Nat
          /\ 2 * k.recvSeq + e + u = 2 * n
      BY <1>0, <1>1
    <3>2. from \in Nat
      BY ONLY <3>1
    <3> QED  BY <3>1, <3>2
  <2>2. /\ Bears(k.dec, Up, c, k.sentUp, from) /\ Bears(k.up, Up, c, k.sentUp, mid)
    BY DEF UpWire
  <2>3. Len(line) = u + written /\ Len(more) = n + 1 /\ Bears(p, Up, c, more, 2 * n)
    BY <1>0, <1>2, <1>3
  <2>4. /\ from + e <= 2 * n /\ mid \in Nat /\ mid + u = 2 * n /\ mid + u <= 2 * n
        /\ mid + (u + written) <= 2 * (n + 1)
    <3> HIDE DEF from, e, u, n, line
    <3> QED  BY <2>1, GrowLengths
  <2>5. Bears(k.dec, Up, c, more, from)
    <3>1. from + Len(k.dec) <= 2 * Len(k.sentUp)
      BY <2>4
    <3> HIDE DEF from, line
    <3> QED  BY <1>1, <1>3, <2>1, <2>2, <3>1, BearsLonger
  <2>6. Bears(k.up, Up, c, more, mid)
    <3>1. mid + Len(k.up) <= 2 * Len(k.sentUp)
      BY <2>4
    <3> HIDE DEF mid, line
    <3> QED  BY <1>1, <1>3, <2>2, <2>4, <3>1, BearsLonger
  <2>7. Bears(line, Up, c, more, mid)
    <3>1. Bears(p, Up, c, more, mid + Len(k.up))
      BY <2>3, <2>4
    <3> HIDE DEF mid
    <3> QED  BY <1>0, <1>1, <2>4, <2>6, <3>1, BearsJoin
  <2>8. mid + Len(line) <= 2 * Len(more)
    <3> HIDE DEF mid, line, u, n
    <3> QED  BY <2>3, <2>4
  <2> QED  BY <2>5, <2>7, <2>8
<1> HIDE DEF line
<1>6. k2 \in ConnSet
  BY <1>2, <1>3, <1>4 DEF ConnSet
<1>7. /\ k2.sentUp = more /\ k2.up = line
      /\ k2.st = k.st /\ k2.authed = k.authed /\ k2.closed = k.closed /\ k2.ended = k.ended
      /\ k2.recvSeq = k.recvSeq /\ k2.dec = k.dec /\ k2.sendSeq = k.sendSeq
      /\ k2.pending = k.pending /\ k2.down = k.down
      /\ k2.sentDown = k.sentDown /\ k2.gotDown = k.gotDown /\ k2.gotUp = k.gotUp
  BY <1>2, <1>3, <1>4 DEF ConnSet
<1>8. UpWire(k2, c)
  BY <1>5, <1>7 DEF UpWire
<1>9. HostState(k2)
  <2>1. Begins(k.gotUp, more)
    BY <1>1, <1>3, BeginsThrough DEF HostState
  <2>2. k.recvSeq <= Len(more)
    BY <1>1, <1>3 DEF HostState
  <2>3. more[1].type = Attach
    <3>1. CASE k.sentUp = <<>>
      <4>1. Len(k.sentUp) = 0
        BY <3>1
      <4> QED  BY <1>0, <1>3, <3>1, <4>1
    <3>2. CASE k.sentUp # <<>>
      <4>1. 1 \in 1..Len(k.sentUp)
        BY <1>1, <3>2
      <4> QED  BY <1>3, <3>2, <4>1 DEF HostState, Begins
    <3> QED  BY <3>1, <3>2
  <2> QED  BY <1>7, <2>1, <2>2, <2>3 DEF HostState, Queued
<1> QED  BY <1>2, <1>3, <1>6, <1>7, <1>8, <1>9 DEF line

(* A send of the device writes its record whole, or some of it and then    *)
(* leaves the connection.                                                  *)
LEMMA DeviceSendsKeeps ==
  ASSUME NEW d \in DevSet, NEW k \in ConnSet, NEW c \in Nat, c # 0, NEW type \in Types,
         NEW written \in 0..2, LinkUp(d, k, c), HostState(k), UpWire(k, c),
         k.sentUp = <<>> => type = Attach,
         NEW w, w = DeviceSends([d |-> d, k |-> k], type, written)
  PROVE  w = [d |-> w.d, k |-> w.k] /\ Sent(d, k, w.d, w.k, c)
<1> DEFINE n == Len(k.sentUp)
           frame == Frame(type, n + 1)
           more == Append(k.sentUp, frame)
           record == Seal(Up, d.epoch, d.sendSeq, frame)
           p == IF written = 2 THEN record ELSE SubSeq(record, 1, written)
           d2 == IF written = 2 THEN [d EXCEPT !.sendSeq = @ + 1] ELSE Offline
           k2 == [k EXCEPT !.up = @ \o p, !.sentUp = more]
<1>1. w = [d |-> d2, k |-> k2]
  <2>1. d.sock # 0
    BY DEF LinkUp
  <2> QED  BY <2>1 DEF DeviceSends, Disconnect
<1>2. w.d = d2 /\ w.k = k2 /\ w = [d |-> w.d, k |-> w.k]
  BY <1>1
<1>3. n \in Nat /\ d.epoch = c /\ d.sendSeq = n /\ k.sentUp \in Seq(FrameSet)
  BY ConnFields, LenProperties DEF LinkUp
<1>4. frame \in FrameSet /\ frame.type = type
  BY <1>3 DEF Frame, FrameSet
<1> HIDE DEF frame
<1>5. more[n + 1] = frame /\ Len(more) = n + 1
  BY <1>3, <1>4, BeginsAppend
<1> HIDE DEF more
<1>6. /\ record \in Seq(PieceSet) /\ Len(record) = 2
      /\ Bears(record, Up, c, more, 2 * n)
  <2> HIDE DEF n
  <2> QED  BY <1>3, <1>4, <1>5, BearsSeal
<1> HIDE DEF record
<1>7. p \in Seq(PieceSet) /\ Len(p) = written /\ Bears(p, Up, c, more, 2 * n)
  <2>1. CASE written = 2
    BY <1>6, <2>1
  <2>2. CASE written # 2
    <3> HIDE DEF n
    <3>1. written \in 0..Len(record) /\ 2 * n \in Nat
      BY <1>3, <1>6
    <3>2. /\ SubSeq(record, 1, written) \in Seq(PieceSet)
          /\ Len(SubSeq(record, 1, written)) = written
          /\ Bears(SubSeq(record, 1, written), Up, c, more, 2 * n)
      BY <1>6, <3>1, BearsCut
    <3> QED  BY <2>2, <3>2
  <2> QED  BY <2>1, <2>2
<1> HIDE DEF p
<1>8. k.st = "open" => 2 * k.recvSeq + Len(k.dec) + Len(k.up) = 2 * Len(k.sentUp)
  BY <1>3 DEF LinkUp
<1>9. k2 = Joined(k, p, more) /\ more = Append(k.sentUp, frame)
  BY DEF more, Joined
<1> HIDE DEF k2
<1>10. /\ k2 \in ConnSet /\ HostState(k2) /\ UpWire(k2, c)
       /\ k2.sentUp = more /\ Begins(k.sentUp, more)
       /\ k2.st = k.st /\ k2.authed = k.authed /\ k2.closed = k.closed /\ k2.ended = k.ended
       /\ k2.recvSeq = k.recvSeq /\ k2.dec = k.dec
       /\ k2.pending = k.pending /\ k2.down = k.down
       /\ k2.sentDown = k.sentDown /\ k2.gotDown = k.gotDown /\ k2.gotUp = k.gotUp
  <2>1. Joins(k, c, frame, written, p, more)
    BY <1>4, <1>7, <1>8, <1>9 DEF Joins
  <2> HIDE DEF n, d2
  <2>2. k2 = Joined(k, p, more)
    BY <1>9
  <2> QED  BY <2>1, <2>2, UpJoins
<1>11. k2.sentUp # <<>>
  BY <1>3, <1>5, <1>10
<1>12. /\ d2 \in DevSet
       /\ \/ d2 = Offline
          \/ LinkUp(d2, k2, c) /\ d2.recvSeq = d.recvSeq /\ d2.rx = d.rx
  <2>1. CASE written # 2
    <3>1. d2 = Offline
      BY <2>1
    <3> HIDE DEF d2
    <3> QED  BY <3>1, OfflineTyped
  <2>2. CASE written = 2
    <3> DEFINE m == n + 1
    <3>1. m \in Nat /\ d2 = [d EXCEPT !.sendSeq = m]
      BY <1>3, <2>2
    <3> HIDE DEF d2, m
    <3>2. d2 \in DevSet
      BY <3>1 DEF DevSet
    <3>3. /\ d2.sock = d.sock /\ d2.waiting = d.waiting /\ d2.epoch = d.epoch
          /\ d2.sendSeq = m /\ d2.recvSeq = d.recvSeq /\ d2.rx = d.rx
      BY <3>1 DEF DevSet
    <3>4. k.st = "open" => 2 * k.recvSeq + Len(k.dec) + Len(k2.up) = 2 * m
      <4> DEFINE u == Len(k.up)
                 e == Len(k.dec)
      <4>1. u \in Nat /\ e \in Nat /\ k.recvSeq \in Nat /\ k.up \in Seq(PieceSet)
        BY ConnFields, LenProperties
      <4>4. Len(k2.up) = u + 2
        <5>1. Len(k.up \o p) = Len(k.up) + Len(p)
          BY <1>7, <4>1, ConcatProperties
        <5>2. k2.up = k.up \o p /\ Len(p) = 2
          BY <1>7, <1>9, <2>2 DEF Joined, ConnSet
        <5> QED  BY <5>1, <5>2
      <4>2. k.st = "open" => 2 * k.recvSeq + e + u = 2 * n
        BY <1>8
      <4> HIDE DEF u, e, n
      <4>3. k.st = "open" => 2 * k.recvSeq + e + (u + 2) = 2 * (n + 1)
        <5> DEFINE from == 2 * k.recvSeq
        <5>1. from \in Nat /\ (k.st = "open" => from + e + u = 2 * n)
          BY <4>1, <4>2
        <5> HIDE DEF from
        <5>2. k.st = "open" => from + e + (u + 2) = 2 * (n + 1)
          BY <1>3, <4>1, <5>1, GrowLengths
        <5> QED  BY <5>2 DEF from
      <4> QED  BY <4>4, <4>3 DEF m, e
    <3>5. LinkUp(d2, k2, c)
      BY <1>5, <1>10, <3>3, <3>4 DEF LinkUp, m
    <3> QED  BY <3>2, <3>3, <3>5
  <2> QED  BY <2>1, <2>2
<1>13. Sent(d, k, d2, k2, c)
  BY <1>10, <1>11, <1>12 DEF Sent
<1> HIDE DEF d2
<1> QED  BY <1>2, <1>13
-----------------------------------------------------------------------------
(* The loop of poll_sealed over the records it finds. *)

WorkSet == [d : DevSet, k : ConnSet]

(* A device that has attached, and counts the records it has opened. *)
Polling(w, c) ==
  /\ w \in WorkSet /\ HostState(w.k) /\ UpWire(w.k, c) /\ w.k.sentUp # <<>>
  /\ \/ w.d = Offline
     \/ LinkUp(w.d, w.k, c) /\ Len(w.k.gotDown) = w.d.recvSeq

(* What the device's records make of it and of its connection. *)
Polled(w, w2, c) ==
  /\ Polling(w2, c)
  /\ Begins(w.k.sentUp, w2.k.sentUp) /\ Begins(w.k.gotDown, w2.k.gotDown)
  /\ w2.k.st = w.k.st /\ w2.k.authed = w.k.authed /\ w2.k.closed = w.k.closed
  /\ w2.k.ended = w.k.ended /\ w2.k.pending = w.k.pending /\ w2.k.down = w.k.down
  /\ w2.k.sentDown = w.k.sentDown /\ w2.k.gotUp = w.k.gotUp
  /\ w2.d # Offline => w.d # Offline /\ w2.d.rx = w.d.rx

LEMMA PolledSelf ==
  ASSUME NEW w, NEW c, Polling(w, c)
  PROVE  Polled(w, w, c)
<1>1. w.k \in ConnSet
  BY DEF Polling, WorkSet
<1>2. Begins(w.k.sentUp, w.k.sentUp) /\ Begins(w.k.gotDown, w.k.gotDown)
  BY <1>1, ConnFields, BeginsSelf
<1> QED  BY <1>2 DEF Polled

LEMMA PolledThrough ==
  ASSUME NEW w \in WorkSet, NEW w1, NEW w2, NEW c, Polled(w, w1, c), Polled(w1, w2, c)
  PROVE  Polled(w, w2, c)
<1>1. w.k \in ConnSet /\ w1.k \in ConnSet /\ w2.k \in ConnSet
  BY DEF Polled, Polling, WorkSet
<1>2. /\ w.k.sentUp \in Seq(FrameSet) /\ w1.k.sentUp \in Seq(FrameSet)
      /\ w2.k.sentUp \in Seq(FrameSet) /\ w.k.gotDown \in Seq(FrameSet)
      /\ w1.k.gotDown \in Seq(FrameSet) /\ w2.k.gotDown \in Seq(FrameSet)
  BY <1>1, ConnFields
<1>3. Begins(w.k.sentUp, w2.k.sentUp) /\ Begins(w.k.gotDown, w2.k.gotDown)
  BY <1>2, BeginsThrough DEF Polled
<1> QED  BY <1>3 DEF Polled

LEMMA LinkedIsOn ==
  ASSUME NEW d, NEW k, NEW c, c # 0, LinkUp(d, k, c)
  PROVE  d # Offline /\ d.sock = c
BY DEF LinkUp, Offline

(* One record opened. *)
LEMMA OpenedKeeps ==
  ASSUME NEW w, NEW c \in Nat, c # 0, Polling(w, c), w.d # Offline,
         w.d.recvSeq < Len(w.k.sentDown), NEW got,
         got = Append(w.k.gotDown, w.k.sentDown[w.d.recvSeq + 1])
  PROVE  LET w1 == [d |-> [w.d EXCEPT !.recvSeq = @ + 1], k |-> [w.k EXCEPT !.gotDown = got]]
         IN  Polled(w, w1, c) /\ w1.d # Offline /\ w1.d.recvSeq = w.d.recvSeq + 1
<1> DEFINE d == w.d
           k == w.k
           frame == k.sentDown[d.recvSeq + 1]
           n == d.recvSeq + 1
           d1 == [d EXCEPT !.recvSeq = n]
           k1 == [k EXCEPT !.gotDown = got]
           w1 == [d |-> d1, k |-> k1]
<1>1. /\ d \in DevSet /\ k \in ConnSet /\ HostState(k) /\ UpWire(k, c) /\ k.sentUp # <<>>
      /\ LinkUp(d, k, c) /\ Len(k.gotDown) = d.recvSeq
  BY DEF Polling, WorkSet
<1>2. /\ d.recvSeq \in Nat /\ k.gotDown \in Seq(FrameSet) /\ k.sentDown \in Seq(FrameSet)
      /\ Len(k.sentDown) \in Nat /\ d.recvSeq < Len(k.sentDown) /\ n \in 1..Len(k.sentDown)
      /\ got = Append(k.gotDown, frame)
  <2>1. d.recvSeq \in Nat
    BY <1>1 DEF DevSet
  <2>2. /\ k.gotDown \in Seq(FrameSet) /\ k.sentDown \in Seq(FrameSet) /\ Len(k.sentDown) \in Nat
    BY <1>1, ConnFields, LenProperties
  <2> QED  BY <2>1, <2>2
<1>3. frame \in FrameSet
  BY <1>2, ElementOfSeq
<1> HIDE DEF d, k
<1>4. /\ got \in Seq(FrameSet) /\ Len(got) = n /\ Begins(k.gotDown, got)
  <2> HIDE DEF frame
  <2> QED  BY <1>1, <1>2, <1>3, BeginsAppend
<1>5. Begins(got, k.sentDown)
  <2>1. Begins(k.gotDown, k.sentDown)
    BY <1>1 DEF HostState
  <2>2. got[n] = frame /\ \A i \in 1..d.recvSeq : got[i] = k.gotDown[i]
    <3> HIDE DEF frame
    <3> QED  BY <1>1, <1>2, <1>3, AppendProperties
  <2>3. ASSUME NEW i \in 1..Len(got) PROVE got[i] = k.sentDown[i]
    <3>1. CASE i = n
      BY <2>2, <3>1
    <3>2. CASE i # n
      <4>1. i \in 1..d.recvSeq
        BY <1>2, <1>4, <3>2
      <4> QED  BY <1>1, <2>1, <2>2, <4>1 DEF Begins
    <3> QED  BY <3>1, <3>2
  <2>4. Len(got) <= Len(k.sentDown)
    BY <1>2, <1>4
  <2> QED  BY <2>3, <2>4 DEF Begins
<1> HIDE DEF frame
<1>6. /\ k1 \in ConnSet
      /\ k1.gotDown = got /\ k1.sentUp = k.sentUp /\ k1.up = k.up /\ k1.dec = k.dec
      /\ k1.recvSeq = k.recvSeq /\ k1.sendSeq = k.sendSeq
      /\ k1.st = k.st /\ k1.authed = k.authed /\ k1.closed = k.closed
      /\ k1.ended = k.ended /\ k1.pending = k.pending /\ k1.down = k.down
      /\ k1.sentDown = k.sentDown /\ k1.gotUp = k.gotUp
  <2>1. k1 \in ConnSet
    BY <1>1, <1>4 DEF ConnSet
  <2> QED  BY <1>1, <2>1 DEF ConnSet
<1>7. /\ d1 \in DevSet
      /\ d1.sock = d.sock /\ d1.waiting = d.waiting /\ d1.epoch = d.epoch
      /\ d1.sendSeq = d.sendSeq /\ d1.recvSeq = n /\ d1.rx = d.rx
  <2>1. n \in Nat
    BY <1>2
  <2> HIDE DEF n
  <2>2. d1 \in DevSet
    BY <1>1, <2>1 DEF DevSet
  <2> QED  BY <1>1, <2>2 DEF DevSet
<1> HIDE DEF k1, d1
<1>8. HostState(k1) /\ UpWire(k1, c) /\ LinkUp(d1, k1, c)
  BY <1>1, <1>5, <1>6, <1>7 DEF HostState, UpWire, LinkUp, Queued
<1>9. Len(k1.gotDown) = d1.recvSeq
  BY <1>4, <1>6, <1>7
<1>10. w1.d = d1 /\ w1.k = k1 /\ w1 \in WorkSet
  BY <1>6, <1>7 DEF WorkSet
<1> HIDE DEF w1
<1>11. Polling(w1, c)
  BY <1>1, <1>6, <1>8, <1>9, <1>10 DEF Polling
<1>12. Begins(k.sentUp, k1.sentUp) /\ Begins(k.gotDown, k1.gotDown)
  BY <1>1, <1>4, <1>6, ConnFields, BeginsSelf
<1>13. d1 # Offline
  BY <1>8, LinkedIsOn
<1>14. d # Offline
  BY DEF d
<1>15. Polled(w, w1, c)
  BY <1>6, <1>7, <1>10, <1>11, <1>12, <1>14 DEF Polled, d, k
<1>16. w1 = [d |-> [w.d EXCEPT !.recvSeq = @ + 1], k |-> [w.k EXCEPT !.gotDown = got]]
  BY DEF w1, d1, k1, d, k, n
<1>17. w1.d.recvSeq = w.d.recvSeq + 1
  BY <1>7, <1>10 DEF n, d
<1> QED  BY <1>10, <1>13, <1>15, <1>16, <1>17

(* The next record of the host's stream opens; HELLO is answered. *)
LEMMA PollKeeps ==
  ASSUME NEW w, NEW c \in Nat, c # 0, Polling(w, c), NEW record, NEW written \in 0..2,
         w.d # Offline =>
           /\ w.d.recvSeq < Len(w.k.sentDown)
           /\ record = Seal(Down, c, w.d.recvSeq, w.k.sentDown[w.d.recvSeq + 1])
  PROVE  /\ Polled(w, PollRecord(w, record, written), c)
         /\ PollRecord(w, record, written).d # Offline =>
              PollRecord(w, record, written).d.recvSeq = w.d.recvSeq + 1
<1>1. CASE w.d = Offline
  <2>1. w.d.sock = 0
    BY <1>1 DEF Offline
  <2>2. PollRecord(w, record, written) = w
    BY <2>1 DEF PollRecord
  <2> QED  BY <1>1, <2>2, PolledSelf
<1>2. CASE w.d # Offline
  <2> DEFINE frame == w.k.sentDown[w.d.recvSeq + 1]
             got == Append(w.k.gotDown, frame)
             w1 == [d |-> [w.d EXCEPT !.recvSeq = @ + 1], k |-> [w.k EXCEPT !.gotDown = got]]
             new == PollRecord(w, record, written)
  <2>1. LinkUp(w.d, w.k, c) /\ w.d.sock # 0 /\ w.d.epoch = c
    BY <1>2 DEF Polling, LinkUp
  <2>2. Opens(record, Down, w.d.epoch, w.d.recvSeq) /\ record[1].rec.frame = frame
    BY <1>2, <2>1, SealFrame
  <2>3. new = IF frame.type = Hello THEN DeviceSends(w1, ClientSize, written) ELSE w1
    <3> HIDE DEF frame
    <3> QED  BY <2>1, <2>2 DEF PollRecord
  <2>4. Polled(w, w1, c) /\ w1.d # Offline /\ w1.d.recvSeq = w.d.recvSeq + 1
    BY <1>2, OpenedKeeps
  <2>5. w1 = [d |-> w1.d, k |-> w1.k]
    OBVIOUS
  <2> HIDE DEF w1, frame, new
  <2>6. CASE frame.type # Hello
    BY <2>3, <2>4, <2>6 DEF new
  <2>7. CASE frame.type = Hello
    <3> DEFINE d1 == w1.d
               k1 == w1.k
    <3>1. /\ d1 \in DevSet /\ k1 \in ConnSet /\ LinkUp(d1, k1, c) /\ HostState(k1)
          /\ UpWire(k1, c) /\ k1.sentUp # <<>> /\ Len(k1.gotDown) = d1.recvSeq
      BY <2>4 DEF Polled, Polling, WorkSet
    <3>2. new = DeviceSends([d |-> d1, k |-> k1], ClientSize, written)
      BY <2>3, <2>5, <2>7
    <3> HIDE DEF d1, k1
    <3>3. new = [d |-> new.d, k |-> new.k] /\ Sent(d1, k1, new.d, new.k, c)
      <4>1. ClientSize \in Types
        BY DEF Types
      <4> HIDE DEF got
      <4>2. k1.sentUp = <<>> => ClientSize = Attach
        BY <3>1
      <4> QED  BY <3>1, <3>2, <4>1, <4>2, DeviceSendsKeeps
    <3> DEFINE d2 == new.d
               k2 == new.k
    <3>4. /\ d2 \in DevSet /\ k2 \in ConnSet /\ HostState(k2) /\ UpWire(k2, c)
          /\ k2.sentUp # <<>> /\ Begins(k1.sentUp, k2.sentUp)
          /\ k2.st = k1.st /\ k2.authed = k1.authed /\ k2.closed = k1.closed
          /\ k2.ended = k1.ended /\ k2.pending = k1.pending /\ k2.down = k1.down
          /\ k2.sentDown = k1.sentDown /\ k2.gotDown = k1.gotDown /\ k2.gotUp = k1.gotUp
          /\ \/ d2 = Offline
             \/ LinkUp(d2, k2, c) /\ d2.recvSeq = d1.recvSeq /\ d2.rx = d1.rx
      BY <3>3 DEF Sent
    <3>5. new \in WorkSet
      BY <3>3, <3>4 DEF WorkSet
    <3>6. Polling(new, c)
      <4>1. d2 = Offline \/ (LinkUp(d2, k2, c) /\ Len(k2.gotDown) = d2.recvSeq)
        BY <3>1, <3>4
      <4> QED  BY <3>4, <3>5, <4>1 DEF Polling
    <3>7. Begins(k1.gotDown, k2.gotDown)
      BY <3>1, <3>4, ConnFields, BeginsSelf
    <3>8. Polled(w1, new, c)
      <4>1. d2 # Offline => d1 # Offline /\ d2.rx = d1.rx
        BY <2>4, <3>4 DEF d1
      <4> QED  BY <3>4, <3>6, <3>7, <4>1 DEF Polled, d1, k1
    <3>9. Polled(w, new, c)
      <4>1. w \in WorkSet
        BY DEF Polling
      <4> QED  BY <2>4, <3>8, <4>1, PolledThrough
    <3>10. new.d # Offline => new.d.recvSeq = w.d.recvSeq + 1
      BY <2>4, <3>4 DEF d1
    <3> QED  BY <3>9, <3>10 DEF new
  <2> QED  BY <2>6, <2>7
<1> QED  BY <1>1, <1>2
-----------------------------------------------------------------------------
LEMMA SendTyped ==
  ASSUME NEW w \in WorkSet, NEW type \in Types, NEW written \in 0..2
  PROVE  DeviceSends(w, type, written) \in WorkSet
<1> DEFINE frame == Frame(type, Len(w.k.sentUp) + 1)
           record == Seal(Up, w.d.epoch, w.d.sendSeq, frame)
           p == SubSeq(record, 1, written)
           more == Append(w.k.sentUp, frame)
           d2 == [w.d EXCEPT !.sendSeq = @ + 1]
           J(x) == [w.k EXCEPT !.up = w.k.up \o x, !.sentUp = more]
<1>1. w.d \in DevSet /\ w.k \in ConnSet
  BY DEF WorkSet
<1>2. /\ w.k.sentUp \in Seq(FrameSet) /\ w.k.up \in Seq(PieceSet) /\ Len(w.k.sentUp) \in Nat
      /\ w.d.epoch \in Nat /\ w.d.sendSeq \in Nat
  <2>1. w.d.epoch \in Nat /\ w.d.sendSeq \in Nat
    BY <1>1 DEF DevSet
  <2> QED  BY <1>1, <2>1, ConnFields, LenProperties
<1>3. frame \in FrameSet
  BY <1>2 DEF Frame, FrameSet
<1>4. DeviceSends(w, type, written)
        = IF w.d.sock = 0 THEN w
          ELSE IF written = 2 THEN [d |-> d2, k |-> J(record)]
          ELSE [d |-> Offline, k |-> J(p)]
  BY DEF DeviceSends, Disconnect
<1> HIDE DEF frame
<1>5. record \in Seq(PieceSet) /\ Len(record) = 2
  <2> DEFINE rec == [dir |-> Up, epoch |-> w.d.epoch, seq |-> w.d.sendSeq, frame |-> frame]
             a == [rec |-> rec, part |-> 1]
             b == [rec |-> rec, part |-> 2]
  <2>1. rec \in RecordSet
    BY <1>2, <1>3 DEF RecordSet
  <2>2. record = <<a, b>>
    BY DEF Seal
  <2> HIDE DEF rec, record
  <2>3. a \in PieceSet /\ b \in PieceSet
    BY <2>1 DEF PieceSet
  <2> HIDE DEF a, b
  <2> QED  BY <2>2, <2>3
<1> HIDE DEF record
<1>6. p \in Seq(PieceSet)
  <2>1. \A i \in 1..written : record[i] \in PieceSet
    BY <1>5, ElementOfSeq
  <2> QED  BY <1>5, <2>1, SubSeqProperties
<1> HIDE DEF p
<1>7. more \in Seq(FrameSet)
  BY <1>2, <1>3, AppendProperties
<1> HIDE DEF more
<1>8. ASSUME NEW x \in Seq(PieceSet) PROVE J(x) \in ConnSet
  <2> DEFINE line == w.k.up \o x
  <2>1. line \in Seq(PieceSet)
    BY <1>2, ConcatProperties
  <2>2. J(x) = [w.k EXCEPT !.up = line, !.sentUp = more]
    OBVIOUS
  <2> HIDE DEF line, J
  <2> QED  BY <1>1, <1>7, <2>1, <2>2 DEF ConnSet
<1>9. d2 \in DevSet
  <2> DEFINE m == w.d.sendSeq + 1
  <2>1. m \in Nat /\ d2 = [w.d EXCEPT !.sendSeq = m]
    BY <1>2
  <2> HIDE DEF m, d2
  <2> QED  BY <1>1, <2>1 DEF DevSet
<1> HIDE DEF d2, J
<1>10. J(record) \in ConnSet /\ J(p) \in ConnSet
  BY <1>5, <1>6, <1>8
<1> QED  BY <1>4, <1>9, <1>10, OfflineTyped DEF WorkSet

LEMMA PollTyped ==
  ASSUME NEW w \in WorkSet, NEW record, record[1].rec.frame \in FrameSet, NEW written \in 0..2
  PROVE  PollRecord(w, record, written) \in WorkSet
<1> DEFINE frame == record[1].rec.frame
           got == Append(w.k.gotDown, frame)
           d1 == [w.d EXCEPT !.recvSeq = @ + 1]
           k1 == [w.k EXCEPT !.gotDown = got]
           w1 == [d |-> d1, k |-> k1]
           left == [w EXCEPT !.d = Offline]
<1>1. w.d \in DevSet /\ w.k \in ConnSet /\ left \in WorkSet
  BY OfflineTyped DEF WorkSet
<1>2. PollRecord(w, record, written)
        = IF w.d.sock = 0 THEN w
          ELSE IF ~Opens(record, Down, w.d.epoch, w.d.recvSeq) THEN left
          ELSE IF frame.type = Hello THEN DeviceSends(w1, ClientSize, written) ELSE w1
  BY DEF PollRecord, Disconnect
<1>3. w1 \in WorkSet
  <2>1. w.d.recvSeq \in Nat
    BY <1>1 DEF DevSet
  <2> DEFINE m == w.d.recvSeq + 1
  <2>2. m \in Nat /\ d1 = [w.d EXCEPT !.recvSeq = m]
    BY <2>1
  <2> HIDE DEF frame
  <2>3. got \in Seq(FrameSet)
    <3>1. w.k.gotDown \in Seq(FrameSet) /\ frame \in FrameSet
      BY <1>1, ConnFields DEF frame
    <3> QED  BY <3>1, AppendProperties
  <2> HIDE DEF m, d1, got
  <2>4. d1 \in DevSet
    BY <1>1, <2>2 DEF DevSet
  <2>5. k1 \in ConnSet
    BY <1>1, <2>3 DEF ConnSet
  <2> HIDE DEF k1
  <2> QED  BY <2>4, <2>5 DEF WorkSet
<1> HIDE DEF w1, left, frame
<1>4. DeviceSends(w1, ClientSize, written) \in WorkSet
  BY <1>3, SendTyped DEF Types
<1> QED  BY <1>1, <1>2, <1>3, <1>4

(* at[i] is the device and its connection after the first i records. *)
PollRun(at, w, n, records, written) ==
  /\ at[0] = w
  /\ \A i \in 1..n : at[i] = PollRecord(at[i - 1], records[i], written)
  /\ PollRecords(w, records, written) = at[n]

LEMMA PollFold ==
  ASSUME NEW w \in WorkSet, NEW n \in Nat, NEW records, DOMAIN records = 1..n,
         NEW written \in 0..2, \A i \in 1..n : records[i][1].rec.frame \in FrameSet
  PROVE  \E at : PollRun(at, w, n, records, written)
<1> DEFINE F == [p \in (1..n) \X WorkSet |-> PollRecord(p[2], records[p[1]], written)]
           Step(h) == [s \in SUBSET (1..n) |->
                         IF s = {} THEN w
                         ELSE PollRecord(h[s \ {Max(s)}], records[Max(s)], written)]
           it == CHOOSE h : h = Step(h)
<1>1. PollRecords(w, records, written) = it[1..n]
  BY DEF PollRecords, FoldLeft, MapThenFoldSet
<1>2. \A i \in 1..n, b \in WorkSet : /\ F[<<i, b>>] = PollRecord(b, records[i], written)
                                     /\ F[<<i, b>>] \in WorkSet
  BY PollTyped
<1>3. PICK h \in [SUBSET (1..n) -> WorkSet] : IsFold(h, n, w, F)
  <2>1. \A i \in 1..n, b \in WorkSet : F[<<i, b>>] \in WorkSet
    BY <1>2
  <2> HIDE DEF F
  <2> QED  BY <2>1, FoldFunctionExists
<1>4. h = Step(h)
  <2>0. \A s \in SUBSET (1..n) :
          h[s] = IF s = {} THEN w ELSE F[<<Max(s), h[s \ {Max(s)}]>>]
    <3> HIDE DEF F
    <3> QED  BY <1>3 DEF IsFold
  <2>1. ASSUME NEW s \in SUBSET (1..n), s # {}
        PROVE  h[s] = PollRecord(h[s \ {Max(s)}], records[Max(s)], written)
    <3>1. Max(s) \in 1..n
      BY <2>1, MaxOfIndices
    <3>2. s \ {Max(s)} \in SUBSET (1..n)
      OBVIOUS
    <3>3. h[s \ {Max(s)}] \in WorkSet
      BY <3>2
    <3> HIDE DEF F
    <3> QED  BY <1>2, <2>0, <2>1, <3>1, <3>3
  <2>2. h[{}] = w
    BY <2>0
  <2> QED  BY <2>1, <2>2
<1>5. it = Step(it)
  <2> HIDE DEF Step
  <2> QED  BY <1>4
<1>6. it[1..0] = w
  <2>1. 1..0 = {} /\ {} \in SUBSET (1..n)
    OBVIOUS
  <2> HIDE DEF it
  <2> QED  BY <1>5, <2>1
<1>7. \A i \in 1..n : it[1..i] = PollRecord(it[1..(i - 1)], records[i], written)
  <2> HIDE DEF it
  <2> TAKE i \in 1..n
  <2>1. 1..i # {} /\ 1..i \in SUBSET (1..n) /\ Max(1..i) = i /\ (1..i) \ {i} = 1..(i - 1)
    BY MaxOfRange
  <2>2. it[1..i] = PollRecord(it[(1..i) \ {Max(1..i)}], records[Max(1..i)], written)
    BY <1>5, <2>1
  <2> QED  BY <2>1, <2>2
<1> HIDE DEF it
<1> DEFINE at == [i \in 0..n |-> it[1..i]]
<1>8. /\ at[0] = w
      /\ \A i \in 1..n : at[i] = PollRecord(at[i - 1], records[i], written)
      /\ PollRecords(w, records, written) = at[n]
  <2>1. 0 \in 0..n /\ n \in 0..n /\ \A i \in 1..n : i \in 0..n /\ i - 1 \in 0..n
    OBVIOUS
  <2>2. at[0] = w /\ at[n] = it[1..n]
    BY <1>6, <2>1
  <2>3. ASSUME NEW i \in 1..n PROVE at[i] = PollRecord(at[i - 1], records[i], written)
    <3>1. at[i] = it[1..i] /\ at[i - 1] = it[1..(i - 1)]
      BY <2>1
    <3> HIDE DEF at
    <3> QED  BY <1>7, <3>1
  <2> QED  BY <1>1, <2>2, <2>3
<1> HIDE DEF at
<1> QED  BY <1>8 DEF PollRun

(* ab_net_poll: every record found opens, until the device leaves. *)
LEMMA PollsKeep ==
  ASSUME NEW w, NEW c \in Nat, c # 0, Polling(w, c), w.d # Offline, NEW n \in Nat,
         NEW records, DOMAIN records = 1..n, NEW written \in 0..2,
         w.d.recvSeq + n <= Len(w.k.sentDown),
         \A i \in 1..n :
           records[i] = Seal(Down, c, w.d.recvSeq + (i - 1),
                             w.k.sentDown[w.d.recvSeq + (i - 1) + 1])
  PROVE  LET w2 == PollRecords(w, records, written)
         IN  Polled(w, w2, c) /\ (w2.d # Offline => w2.d.recvSeq = w.d.recvSeq + n)
<1>1. w \in WorkSet /\ w.d \in DevSet /\ w.k \in ConnSet
  BY DEF Polling, WorkSet
<1>2. /\ w.d.recvSeq \in Nat /\ w.k.sentDown \in Seq(FrameSet) /\ Len(w.k.sentDown) \in Nat
  <2>1. w.d.recvSeq \in Nat
    BY <1>1 DEF DevSet
  <2> QED  BY <1>1, <2>1, ConnFields, LenProperties
<1>3. \A i \in 1..n : records[i][1].rec.frame \in FrameSet
  <2> TAKE i \in 1..n
  <2> DEFINE q == w.d.recvSeq + (i - 1)
  <2>1. q + 1 \in 1..Len(w.k.sentDown)
    <3> DEFINE a == w.d.recvSeq
               m == Len(w.k.sentDown)
    <3>1. a \in Nat /\ m \in Nat /\ n \in Nat /\ i \in 1..n /\ a + n <= m
      BY <1>2
    <3> HIDE DEF a, m
    <3>2. a + (i - 1) + 1 \in 1..m
      BY ONLY <3>1
    <3> QED  BY <3>2 DEF a, m
  <2>2. w.k.sentDown[q + 1] \in FrameSet
    BY <1>2, <2>1, ElementOfSeq
  <2>3. records[i] = Seal(Down, c, q, w.k.sentDown[q + 1])
    OBVIOUS
  <2> HIDE DEF q
  <2>4. records[i][1].rec.frame = w.k.sentDown[q + 1]
    BY <2>3, SealFrame
  <2> QED  BY <2>2, <2>4
<1>4. PICK at : PollRun(at, w, n, records, written)
  BY <1>1, <1>3, PollFold, Zenon
<1>5. /\ at[0] = w
      /\ \A i \in 1..n : at[i] = PollRecord(at[i - 1], records[i], written)
      /\ PollRecords(w, records, written) = at[n]
  BY <1>4 DEF PollRun
<1> DEFINE P == {i \in Nat : /\ Polled(w, at[i], c)
                             /\ at[i].d # Offline => at[i].d.recvSeq = w.d.recvSeq + i}
<1>6. 0 \in P
  BY <1>2, <1>5, PolledSelf
<1>7. ASSUME NEW i \in 1..n, i - 1 \in P PROVE i \in P
  <2> DEFINE was == at[i - 1]
             new == at[i]
  <2>1. Polled(w, was, c) /\ (was.d # Offline => was.d.recvSeq = w.d.recvSeq + (i - 1))
    BY <1>7
  <2>2. new = PollRecord(was, records[i], written)
    BY <1>5
  <2> HIDE DEF was, new
  <2>3. Polling(was, c) /\ was.k.sentDown = w.k.sentDown
    BY <2>1 DEF Polled
  <2>4. was.d # Offline =>
          /\ was.d.recvSeq < Len(was.k.sentDown)
          /\ records[i] = Seal(Down, c, was.d.recvSeq, was.k.sentDown[was.d.recvSeq + 1])
    <3> SUFFICES ASSUME was.d # Offline
                 PROVE  /\ was.d.recvSeq < Len(was.k.sentDown)
                        /\ records[i] = Seal(Down, c, was.d.recvSeq,
                                             was.k.sentDown[was.d.recvSeq + 1])
      OBVIOUS
    <3>1. was.d.recvSeq = w.d.recvSeq + (i - 1)
      BY <2>1
    <3>2. w.d.recvSeq \in Nat /\ Len(w.k.sentDown) \in Nat
      BY <1>2
    <3>3. w.d.recvSeq + (i - 1) < Len(w.k.sentDown)
      <4> DEFINE a == w.d.recvSeq
                 m == Len(w.k.sentDown)
      <4>1. a \in Nat /\ m \in Nat /\ n \in Nat /\ i \in 1..n /\ a + n <= m
        BY <3>2
      <4> HIDE DEF a, m
      <4>2. a + (i - 1) < m
        BY ONLY <4>1
      <4> QED  BY <4>2 DEF a, m
    <3>4. records[i] = Seal(Down, c, w.d.recvSeq + (i - 1),
                            w.k.sentDown[w.d.recvSeq + (i - 1) + 1])
      OBVIOUS
    <3> QED  BY ONLY <2>3, <3>1, <3>3, <3>4, Zenon
  <2>5. Polled(was, new, c) /\ (new.d # Offline => new.d.recvSeq = was.d.recvSeq + 1)
    BY <2>2, <2>3, <2>4, PollKeeps
  <2>6. Polled(w, new, c)
    BY <1>1, <2>1, <2>5, PolledThrough
  <2>7. new.d # Offline => new.d.recvSeq = w.d.recvSeq + i
    <3>1. new.d # Offline => was.d # Offline
      BY <2>5 DEF Polled
    <3> SUFFICES ASSUME new.d # Offline PROVE new.d.recvSeq = w.d.recvSeq + i
      OBVIOUS
    <3>2. /\ was.d.recvSeq = w.d.recvSeq + (i - 1) /\ new.d.recvSeq = was.d.recvSeq + 1
          /\ w.d.recvSeq \in Nat /\ i \in Nat
      BY <1>2, <2>1, <2>5, <3>1
    <3> QED  BY ONLY <3>2
  <2> QED  BY <2>6, <2>7 DEF new
<1> HIDE DEF P
<1>8. 0..n \subseteq P
  BY <1>6, <1>7, Climb
<1>9. n \in P
  <2>1. n \in 0..n
    OBVIOUS
  <2> QED  BY <1>8, <2>1
<1> QED  BY <1>5, <1>9 DEF P
-----------------------------------------------------------------------------
(* The inductive invariant. *)

(* A connection on which only the epoch has been sent. *)
Unserved(k, c) ==
  /\ k.down = <<EpochPiece(c)>> /\ k.pending = <<>> /\ k.dec = <<>> /\ k.up = <<>>
  /\ k.sentDown = <<>> /\ k.gotDown = <<>> /\ k.sentUp = <<>> /\ ~k.authed

(* The device has opened what it counted, and holds less than a record; the *)
(* rest of the host's stream is behind it on the wire.                      *)
LinkDown(d, k, c) ==
  /\ d.recvSeq = Len(k.gotDown) /\ Len(d.rx) <= 1
  /\ Bears(d.rx, Down, c, k.sentDown, 2 * d.recvSeq)
  /\ DownWire(k, c, 2 * d.recvSeq + Len(d.rx))

Waits(d, k, c) ==
  /\ d = [Offline EXCEPT !.sock = c, !.waiting = TRUE]
  /\ k.st # "none" => Unserved(k, c)

Linked(d, k, c) == LinkUp(d, k, c) /\ LinkDown(d, k, c) /\ k.sentUp # <<>>

(* The device is off line, or on the connection it made last. *)
DeviceOK(d, cn, m) ==
  d = Offline \/ (m \in Conns /\ (Waits(d, cn[m], m) \/ Linked(d, cn[m], m)))

StatesOK ==
  /\ dev \in DevSet /\ conn \in [Conns -> ConnSet]
  /\ made \in 0..MaxConns /\ broken \subseteq Conns /\ token \in {"good", "bad"}

ConnsOK ==
  \A c \in Conns :
    /\ HostState(conn[c]) /\ UpWire(conn[c], c)
    /\ conn[c].st = "none" => conn[c] = NoConn
    /\ c > made => conn[c].st = "none"

Inv == StatesOK /\ ConnsOK /\ DeviceOK(dev, conn, made)

(* What was handed over and what was given only grow. *)
Grows(k, k2) ==
  /\ Begins(k.sentUp, k2.sentUp) /\ Begins(k.gotUp, k2.gotUp)
  /\ Begins(k.sentDown, k2.sentDown) /\ Begins(k.gotDown, k2.gotDown)

(* A close of an attached connection has one of its causes. *)
Excused(k, k2, c) ==
  k.authed /\ ~k.closed /\ k2.closed =>
    dev.sock # c \/ c \in broken \/ Len(k2.pending) > Watermark

Progress ==
  \A x \in Conns : Grows(conn[x], conn'[x]) /\ Excused(conn[x], conn'[x], x)

LEMMA ConnRange == \A c \in Conns : c \in Nat /\ c # 0
BY Bounds DEF Conns

LEMMA GrowsSelf ==
  ASSUME NEW k \in ConnSet PROVE Grows(k, k)
BY ConnFields, BeginsSelf DEF Grows

(* One connection changes, and perhaps the device on it. *)
LEMMA OneConn ==
  ASSUME Inv, NEW c \in Conns, c <= made, NEW k2 \in ConnSet,
         conn' = [conn EXCEPT ![c] = k2], HostState(k2), UpWire(k2, c), k2.st # "none",
         dev' \in DevSet, DeviceOK(dev', conn', made), Grows(conn[c], k2),
         Excused(conn[c], k2, c), made' = made, broken' = broken, token' = token
  PROVE  Inv' /\ Progress
<1>1. conn \in [Conns -> ConnSet] /\ conn' \in [Conns -> ConnSet]
  BY DEF Inv, StatesOK
<1>2. conn'[c] = k2 /\ \A x \in Conns : x # c => conn'[x] = conn[x]
  BY <1>1
<1>3. StatesOK'
  BY <1>1 DEF Inv, StatesOK
<1>4. ConnsOK'
  <2> SUFFICES ASSUME NEW x \in Conns
               PROVE  /\ HostState(conn[x])' /\ UpWire(conn'[x], x)
                      /\ conn'[x].st = "none" => conn'[x] = NoConn
                      /\ x > made' => conn'[x].st = "none"
    BY DEF ConnsOK, UpWire, NoConn
  <2>1. CASE x = c
    <3>1. ~(c > made)
      BY ConnRange DEF Inv, StatesOK
    <3>2. HostState(conn[x])'
      BY <1>2, <2>1 DEF HostState, Queued
    <3> QED  BY <1>2, <2>1, <3>1, <3>2
  <2>2. CASE x # c
    <3>1. /\ HostState(conn[x]) /\ UpWire(conn[x], x)
          /\ conn[x].st = "none" => conn[x] = NoConn
          /\ x > made => conn[x].st = "none"
      BY DEF Inv, ConnsOK
    <3>2. HostState(conn[x])'
      BY <1>2, <2>2, <3>1 DEF HostState, Queued
    <3> QED  BY <1>2, <2>2, <3>1, <3>2
  <2> QED  BY <2>1, <2>2
<1>5. DeviceOK(dev, conn, made)'
  BY DEF DeviceOK
<1>6. Progress
  <2> SUFFICES ASSUME NEW x \in Conns
               PROVE  Grows(conn[x], conn'[x]) /\ Excused(conn[x], conn'[x], x)
    BY DEF Progress
  <2>1. CASE x = c
    BY <1>2, <2>1
  <2>2. CASE x # c
    <3>1. conn[x] \in ConnSet /\ conn'[x] = conn[x]
      BY <1>1, <1>2, <2>2
    <3> QED  BY <3>1, GrowsSelf DEF Excused
  <2> QED  BY <2>1, <2>2
<1> QED  BY <1>3, <1>4, <1>5, <1>6 DEF Inv

(* What a callback of the host makes of its connection, for the device on  *)
(* it.                                                                     *)
HostStep(k, k2, c) ==
  /\ k2 \in ConnSet /\ HostState(k2) /\ UpWire(k2, c) /\ DownKept(k, k2, c) /\ Grows(k, k2)
  /\ k.st # "none" /\ k2.st # "none"
  /\ k2.sentUp = k.sentUp /\ k2.gotDown = k.gotDown
  /\ k2.st = "open" =>
       /\ k.st = "open"
       /\ 2 * k2.recvSeq + Len(k2.dec) + Len(k2.up) = 2 * k.recvSeq + Len(k.dec) + Len(k.up)
  /\ Unserved(k, c) => Unserved(k2, c)

LEMMA HostStepLinks ==
  ASSUME NEW d \in DevSet, NEW k \in ConnSet, NEW k2, NEW c \in Nat, HostStep(k, k2, c)
  PROVE  /\ Waits(d, k, c) => Waits(d, k2, c)
         /\ Linked(d, k, c) => Linked(d, k2, c)
<1>1. Waits(d, k, c) => Waits(d, k2, c)
  BY DEF Waits, HostStep
<1>2. ASSUME Linked(d, k, c) PROVE Linked(d, k2, c)
  <2>1. LinkUp(d, k2, c)
    BY <1>2 DEF Linked, LinkUp, HostStep
  <2> DEFINE n == Len(d.rx)
             from == 2 * d.recvSeq
  <2>2. /\ d.rx \in Seq(PieceSet) /\ n \in Nat /\ from \in Nat
        /\ k.sentDown \in Seq(FrameSet) /\ Len(k.sentDown) \in Nat
        /\ Len(k.down) \in Nat /\ Len(k.pending) \in Nat
    <3>1. d.rx \in Seq(PieceSet) /\ d.recvSeq \in Nat
      BY DEF DevSet
    <3>2. n \in Nat
      BY <3>1, LenProperties
    <3>3. /\ k.sentDown \in Seq(FrameSet) /\ k.down \in Seq(PieceSet)
          /\ k.pending \in Seq(PieceSet)
      BY ConnFields
    <3> QED  BY <3>1, <3>2, <3>3, LenProperties
  <2>3. Bears(d.rx, Down, c, k.sentDown, from) /\ DownWire(k, c, from + n)
    BY <1>2 DEF Linked, LinkDown
  <2> HIDE DEF from
  <2>4. from + n <= 2 * Len(k.sentDown)
    <3>1. (from + n) + Len(k.down) + Len(k.pending) = 2 * Len(k.sentDown)
      BY <2>3 DEF DownWire
    <3> DEFINE a == Len(k.down)
               b == Len(k.pending)
               m == Len(k.sentDown)
    <3>2. /\ from \in Nat /\ n \in Nat /\ a \in Nat /\ b \in Nat /\ m \in Nat
          /\ (from + n) + a + b = 2 * m
      BY <2>2, <3>1
    <3> HIDE DEF n, a, b, m
    <3>3. from + n <= 2 * m
      BY ONLY <3>2
    <3> QED  BY <3>3 DEF m
  <2>5. Bears(d.rx, Down, c, k2.sentDown, from)
    BY <2>2, <2>3, <2>4, BearsLonger DEF HostStep, Grows
  <2>6. DownWire(k2, c, from + n)
    <3>1. from + n \in Nat /\ DownKept(k, k2, c)
      BY <2>2 DEF HostStep
    <3> QED  BY <2>3, <3>1 DEF DownKept
  <2>7. LinkDown(d, k2, c)
    BY <1>2, <2>5, <2>6 DEF Linked, LinkDown, HostStep, from
  <2> QED  BY <1>2, <2>1, <2>7 DEF Linked, HostStep
<1> QED  BY <1>1, <1>2

LEMMA HostStepKeeps ==
  ASSUME Inv, NEW c \in Conns, NEW k2, HostStep(conn[c], k2, c), Excused(conn[c], k2, c),
         conn' = [conn EXCEPT ![c] = k2], UNCHANGED <<dev, made, broken, token>>
  PROVE  Inv' /\ Progress
<1>1. conn \in [Conns -> ConnSet] /\ dev \in DevSet /\ made \in 0..MaxConns
  BY DEF Inv, StatesOK
<1>2. conn'[c] = k2 /\ \A x \in Conns : x # c => conn'[x] = conn[x]
  BY <1>1
<1>3. c <= made
  BY <1>1, ConnRange DEF Inv, ConnsOK, HostStep
<1>4. DeviceOK(dev, conn', made)
  <2>1. DeviceOK(dev, conn, made)
    BY DEF Inv
  <2>2. CASE made = c
    BY <1>1, <1>2, <2>1, <2>2, ConnRange, HostStepLinks DEF DeviceOK
  <2>3. CASE made # c
    BY <1>2, <2>1, <2>3 DEF DeviceOK
  <2> QED  BY <2>2, <2>3
<1>5. k2 \in ConnSet /\ HostState(k2) /\ UpWire(k2, c) /\ k2.st # "none" /\ Grows(conn[c], k2)
  BY DEF HostStep
<1>6. dev' = dev /\ made' = made /\ broken' = broken /\ token' = token
  OBVIOUS
<1>7. DeviceOK(dev', conn', made) /\ dev' \in DevSet
  BY <1>1, <1>4, <1>6
<1> QED  BY <1>3, <1>5, <1>6, <1>7, OneConn
-----------------------------------------------------------------------------
(* The host's callbacks. *)

LEMMA ServedIsStep ==
  ASSUME NEW k \in ConnSet, NEW c, HostState(k), UpWire(k, c), k.st = "open",
         NEW k2, Served(k, k2, c), k2.recvSeq = k.recvSeq, k.authed \/ k.pending # <<>>
  PROVE  HostStep(k, k2, c)
<1>1. Grows(k, k2)
  BY ConnFields, BeginsSelf DEF Grows, Served
<1>2. UpWire(k2, c)
  BY DEF UpWire, Served
<1>3. ~Unserved(k, c)
  BY DEF Unserved
<1> QED  BY <1>1, <1>2, <1>3 DEF HostStep, Served

LEMMA AppKeeps ==
  ASSUME Inv, NEW c \in Conns, HostApp(c)
  PROVE  Inv' /\ Progress
<1> DEFINE k == conn[c]
           k2 == HostSends(k, c, Data)
<1>1. k \in ConnSet /\ HostState(k) /\ UpWire(k, c) /\ k.authed /\ k.st = "open"
  BY DEF Inv, StatesOK, ConnsOK, HostApp
<1>2. conn' = [conn EXCEPT ![c] = k2] /\ UNCHANGED <<dev, made, broken, token>>
  BY DEF HostApp
<1> HIDE DEF k, k2
<1>3. HostSent(k, k2, c)
  BY <1>1, ConnRange, HostSendsKeeps DEF HostState, Types, k2
<1>4. Served(k, k2, c) /\ k2.recvSeq = k.recvSeq
  BY <1>1, <1>3, SendServes DEF HostSent
<1>5. HostStep(k, k2, c) /\ Excused(k, k2, c)
  BY <1>1, <1>4, ServedIsStep DEF Served, Excused
<1> QED  BY <1>2, <1>5, HostStepKeeps DEF k

LEMMA DrainKeeps ==
  ASSUME Inv, NEW c \in Conns, HostDrain(c)
  PROVE  Inv' /\ Progress
<1> DEFINE k == conn[c]
           k2 == FlushPending(k)
<1>1. /\ k \in ConnSet /\ HostState(k) /\ UpWire(k, c) /\ k.st = "open"
      /\ k.pending # <<>> /\ ~k.ended
  BY DEF Inv, StatesOK, ConnsOK, HostDrain
<1>2. conn' = [conn EXCEPT ![c] = k2] /\ UNCHANGED <<dev, made, broken, token>>
  BY DEF HostDrain
<1> HIDE DEF k
<1>3. HostSent(k, k2, c) /\ k2.closed = k.closed
  <2>1. /\ ~k.closed /\ Len(k.pending) <= Watermark /\ Len(k.down) <= SockCap
        /\ k.sendSeq = Len(k.sentDown)
    BY <1>1 DEF HostState, Queued
  <2> QED  BY <1>1, <2>1, ConnRange, FlushSends
<1> HIDE DEF k2
<1>4. Served(k, k2, c) /\ k2.recvSeq = k.recvSeq
  BY <1>1, <1>3, SendServes DEF HostSent
<1>5. HostStep(k, k2, c) /\ Excused(k, k2, c)
  BY <1>1, <1>3, <1>4, ServedIsStep DEF Excused
<1> QED  BY <1>2, <1>5, HostStepKeeps DEF k

LEMMA TimerKeeps ==
  ASSUME Inv, NEW c \in Conns, HostTimer(c)
  PROVE  Inv' /\ Progress
<1> DEFINE k == conn[c]
           j == IF k.authed THEN k ELSE DropConn(k)
           k2 == TimerFires(k)
<1>1. k \in ConnSet /\ HostState(k) /\ UpWire(k, c) /\ k.st = "open"
  BY DEF Inv, StatesOK, ConnsOK, HostTimer
<1>2. conn' = [conn EXCEPT ![c] = k2] /\ UNCHANGED <<dev, made, broken, token>>
  BY DEF HostTimer
<1> HIDE DEF k
<1>3. /\ j \in ConnSet
      /\ k.authed => j = k
      /\ ~k.authed => j.closed = TRUE /\ j.ended = TRUE
      /\ j.pending = k.pending /\ j.down = k.down /\ j.sentDown = k.sentDown
      /\ j.sendSeq = k.sendSeq /\ j.st = k.st /\ j.authed = k.authed
      /\ j.recvSeq = k.recvSeq /\ j.dec = k.dec /\ j.up = k.up
      /\ j.sentUp = k.sentUp /\ j.gotUp = k.gotUp /\ j.gotDown = k.gotDown
  <2>1. CASE k.authed
    BY <1>1, <2>1
  <2>2. CASE ~k.authed
    <3>1. j = DropConn(k)
      BY <2>2
    <3> HIDE DEF j
    <3> QED  BY <1>1, <2>2, <3>1, DropKeeps
  <2> QED  BY <2>1, <2>2
<1>4. k2 = [j EXCEPT !.timer = FALSE]
  BY DEF TimerFires
<1> HIDE DEF j, k2
<1>5. k2 \in ConnSet
  BY <1>3, <1>4 DEF ConnSet
<1>6. /\ k2.closed = j.closed /\ k2.ended = j.ended
      /\ k2.pending = j.pending /\ k2.down = j.down /\ k2.sentDown = j.sentDown
      /\ k2.sendSeq = j.sendSeq /\ k2.st = j.st /\ k2.authed = j.authed
      /\ k2.recvSeq = j.recvSeq /\ k2.dec = j.dec /\ k2.up = j.up
      /\ k2.sentUp = j.sentUp /\ k2.gotUp = j.gotUp /\ k2.gotDown = j.gotDown
  BY <1>3, <1>4 DEF ConnSet
<1>7. Queued(k2)
  <2>1. Len(k.pending) \in Nat
    BY <1>1, ConnFields, LenProperties
  <2> QED  BY <1>1, <1>3, <1>6, <2>1, Bounds DEF HostState, Queued
<1>8. HostState(k2)
  BY <1>1, <1>3, <1>6, <1>7 DEF HostState
<1>9. DownKept(k, k2, c) /\ UpWire(k2, c)
  BY <1>1, <1>3, <1>6 DEF DownKept, DownWire, UpWire
<1>10. Grows(k, k2)
  BY <1>1, <1>3, <1>6, GrowsSelf DEF Grows
<1>11. Unserved(k, c) => Unserved(k2, c)
  BY <1>3, <1>6 DEF Unserved
<1>12. Excused(k, k2, c)
  BY <1>3, <1>6 DEF Excused
<1>13. HostStep(k, k2, c)
  BY <1>1, <1>3, <1>5, <1>6, <1>8, <1>9, <1>10, <1>11 DEF HostStep
<1> QED  BY <1>2, <1>12, <1>13, HostStepKeeps DEF k

LEMMA CloseKeeps ==
  ASSUME Inv, NEW c \in Conns, HostClose(c)
  PROVE  Inv' /\ Progress
<1> DEFINE k == conn[c]
           k2 == [k EXCEPT !.st = "gone", !.closed = TRUE, !.timer = FALSE,
                           !.up = <<>>, !.dec = <<>>]
<1>1. k \in ConnSet /\ HostState(k) /\ UpWire(k, c) /\ k.st = "open"
  BY DEF Inv, StatesOK, ConnsOK, HostClose
<1>2. conn' = [conn EXCEPT ![c] = k2] /\ UNCHANGED <<dev, made, broken, token>>
  <2>1. conn \in [Conns -> ConnSet]
    BY DEF Inv, StatesOK
  <2> QED  BY <2>1 DEF HostClose
<1>3. dev.sock # c \/ k.ended \/ c \in broken
  BY DEF HostClose
<1> HIDE DEF k
<1>4. k2 \in ConnSet
  <2>1. <<>> \in Seq(PieceSet)
    OBVIOUS
  <2> QED  BY <1>1, <2>1 DEF ConnSet
<1>5. /\ k2.closed = TRUE /\ k2.ended = k.ended /\ k2.st = "gone" /\ k2.up = <<>> /\ k2.dec = <<>>
      /\ k2.pending = k.pending /\ k2.down = k.down /\ k2.sentDown = k.sentDown
      /\ k2.sendSeq = k.sendSeq /\ k2.authed = k.authed /\ k2.recvSeq = k.recvSeq
      /\ k2.sentUp = k.sentUp /\ k2.gotUp = k.gotUp /\ k2.gotDown = k.gotDown
  BY <1>1, <1>4 DEF ConnSet
<1> HIDE DEF k2
<1>6. Queued(k2)
  <2>1. Len(k.pending) \in Nat
    BY <1>1, ConnFields, LenProperties
  <2> QED  BY <1>1, <1>5, <2>1, Bounds DEF HostState, Queued
<1>7. HostState(k2)
  BY <1>1, <1>5, <1>6 DEF HostState
<1>8. DownKept(k, k2, c) /\ UpWire(k2, c)
  BY <1>1, <1>5 DEF DownKept, DownWire, UpWire
<1>9. Grows(k, k2)
  BY <1>1, <1>5, GrowsSelf DEF Grows
<1>10. Unserved(k, c) => Unserved(k2, c)
  BY <1>5 DEF Unserved
<1>11. Excused(k, k2, c)
  BY <1>1, <1>3 DEF Excused, HostState
<1>12. HostStep(k, k2, c)
  BY <1>1, <1>4, <1>5, <1>7, <1>8, <1>9, <1>10 DEF HostStep
<1> QED  BY <1>2, <1>11, <1>12, HostStepKeeps DEF k

(* data: a chunk joins what the decoder kept, and its records are served.  *)
LEMMA DataKeeps ==
  ASSUME Inv, NEW c \in Conns, HostData(c)
  PROVE  Inv' /\ Progress
<1> DEFINE k == conn[c]
<1>1. k \in ConnSet /\ HostState(k) /\ UpWire(k, c) /\ k.st = "open"
  BY DEF Inv, StatesOK, ConnsOK, HostData
<1>2. PICK n \in 1..Len(k.up) :
        LET buf == k.dec \o SubSeq(k.up, 1, n)
            k1  == [k EXCEPT !.up = SubSeq(@, n + 1, Len(@)), !.dec = Rest(buf)]
        IN  conn' = [conn EXCEPT ![c] = ServeRecords(k1, c, Records(buf))]
  BY DEF HostData
<1> DEFINE chunk == SubSeq(k.up, 1, n)
           later == SubSeq(k.up, n + 1, Len(k.up))
           buf == k.dec \o chunk
           rest == Rest(buf)
           k1 == [k EXCEPT !.up = later, !.dec = rest]
           k2 == ServeRecords(k1, c, Records(buf))
<1>3. conn' = [conn EXCEPT ![c] = k2] /\ UNCHANGED <<dev, made, broken, token>>
  BY <1>2 DEF HostData
<1> HIDE DEF k, k2
<1> DEFINE from == 2 * k.recvSeq
           mid == from + Len(k.dec)
<1>4. /\ k.up \in Seq(PieceSet) /\ k.dec \in Seq(PieceSet) /\ k.sentUp \in Seq(FrameSet)
      /\ Len(k.up) \in Nat /\ Len(k.dec) \in Nat /\ Len(k.sentUp) \in Nat /\ k.recvSeq \in Nat
      /\ from \in Nat /\ mid \in Nat /\ n \in 0..Len(k.up) /\ n # 0
  <2>1. /\ k.up \in Seq(PieceSet) /\ k.dec \in Seq(PieceSet) /\ k.sentUp \in Seq(FrameSet)
        /\ k.recvSeq \in Nat
    BY <1>1, ConnFields
  <2>2. Len(k.up) \in Nat /\ Len(k.dec) \in Nat /\ Len(k.sentUp) \in Nat
    BY <2>1, LenProperties
  <2> QED  BY <2>1, <2>2
<1>5. /\ Bears(k.dec, Up, c, k.sentUp, from) /\ Bears(k.up, Up, c, k.sentUp, mid)
      /\ mid + Len(k.up) <= 2 * Len(k.sentUp)
  BY <1>1 DEF UpWire
<1>6. /\ chunk \in Seq(PieceSet) /\ Len(chunk) = n
      /\ later \in Seq(PieceSet) /\ Len(later) = Len(k.up) - n
      /\ Bears(chunk, Up, c, k.sentUp, mid) /\ Bears(later, Up, c, k.sentUp, mid + n)
  <2> DEFINE u == k.up
  <2>1. u \in Seq(PieceSet) /\ n \in 0..Len(u) /\ mid \in Nat /\ Bears(u, Up, c, k.sentUp, mid)
    BY <1>4, <1>5
  <2> HIDE DEF from, mid, k1, buf, rest, u
  <2>2. /\ SubSeq(u, 1, n) \in Seq(PieceSet) /\ Len(SubSeq(u, 1, n)) = n
        /\ SubSeq(u, n + 1, Len(u)) \in Seq(PieceSet)
        /\ Len(SubSeq(u, n + 1, Len(u))) = Len(u) - n
        /\ Bears(SubSeq(u, 1, n), Up, c, k.sentUp, mid)
        /\ Bears(SubSeq(u, n + 1, Len(u)), Up, c, k.sentUp, mid + n)
    BY <2>1, BearsCut
  <2> QED  BY <2>2 DEF u
<1> HIDE DEF chunk, later
<1>7. /\ buf \in Seq(PieceSet) /\ Len(buf) = Len(k.dec) + n
      /\ Bears(buf, Up, c, k.sentUp, from)
  <2>1. Bears(chunk, Up, c, k.sentUp, from + Len(k.dec))
    BY <1>6
  <2> HIDE DEF from, mid, k1
  <2> QED  BY <1>4, <1>5, <1>6, <2>1, BearsJoin
<1> HIDE DEF buf
<1>8. PICK m \in Nat :
        /\ 2 * m <= Len(buf)
        /\ DOMAIN Records(buf) = 1..m
        /\ \A i \in 1..m :
             Records(buf)[i] = Seal(Up, c, k.recvSeq + (i - 1), k.sentUp[k.recvSeq + (i - 1) + 1])
        /\ rest \in Seq(PieceSet) /\ Len(rest) = Len(buf) - 2 * m /\ Len(rest) <= 1
        /\ Bears(rest, Up, c, k.sentUp, 2 * (k.recvSeq + m))
  <2> HIDE DEF k1
  <2> QED  BY <1>4, <1>7, DecoderFinds
<1> HIDE DEF rest
<1>9. /\ k.recvSeq + m <= Len(k.sentUp)
      /\ 2 * (k.recvSeq + m) + Len(rest) = mid + n
      /\ 2 * (k.recvSeq + m) + Len(rest) + Len(later) = 2 * k.recvSeq + Len(k.dec) + Len(k.up)
      /\ 2 * (k.recvSeq + m) + Len(rest) + Len(later) <= 2 * Len(k.sentUp)
  <2> DEFINE q == k.recvSeq
             e == Len(k.dec)
             u == Len(k.up)
             s == Len(k.sentUp)
             r == Len(rest)
             l == Len(later)
  <2>1. /\ q \in Nat /\ e \in Nat /\ u \in Nat /\ s \in Nat /\ n \in 0..u
        /\ 2 * m <= e + n /\ r = (e + n) - 2 * m /\ l = u - n
        /\ (2 * q + e) + u <= 2 * s
    BY <1>4, <1>5, <1>6, <1>7, <1>8
  <2> HIDE DEF q, e, u, s, r, l, from, mid
  <2>2. /\ q + m <= s
        /\ 2 * (q + m) + r = (2 * q + e) + n
        /\ 2 * (q + m) + r + l = 2 * q + e + u
        /\ 2 * (q + m) + r + l <= 2 * s
    BY <2>1
  <2> QED  BY <2>2 DEF q, e, u, s, r, l, from, mid
<1> HIDE DEF from, mid
<1>10. k1 \in ConnSet
  BY <1>1, <1>6, <1>8 DEF ConnSet
<1>11. /\ k1.up = later /\ k1.dec = rest
       /\ k1.closed = k.closed /\ k1.ended = k.ended /\ k1.st = k.st
       /\ k1.pending = k.pending /\ k1.down = k.down /\ k1.sentDown = k.sentDown
       /\ k1.sendSeq = k.sendSeq /\ k1.authed = k.authed /\ k1.recvSeq = k.recvSeq
       /\ k1.sentUp = k.sentUp /\ k1.gotUp = k.gotUp /\ k1.gotDown = k.gotDown
  BY <1>1, <1>10 DEF ConnSet
<1> HIDE DEF k1
<1>12. HostState(k1)
  BY <1>1, <1>11 DEF HostState, Queued
<1>13. Served(k1, k2, c) /\ k2.recvSeq = k.recvSeq + m
  <2>1. k1.recvSeq + m <= Len(k1.sentUp)
    BY <1>9, <1>11
  <2>2. \A i \in 1..m :
          Records(buf)[i] = Seal(Up, c, k1.recvSeq + (i - 1), k1.sentUp[k1.recvSeq + (i - 1) + 1])
    BY <1>8, <1>11
  <2> DEFINE records == Records(buf)
  <2>3. DOMAIN records = 1..m
    BY <1>8
  <2> HIDE DEF records
  <2>4. /\ Served(k1, ServeRecords(k1, c, records), c)
        /\ ServeRecords(k1, c, records).recvSeq = k1.recvSeq + m
    <3>1. \A i \in 1..m :
            records[i] = Seal(Up, c, k1.recvSeq + (i - 1), k1.sentUp[k1.recvSeq + (i - 1) + 1])
      BY <2>2 DEF records
    <3> QED  BY <1>10, <1>12, <2>1, <2>3, <3>1, ConnRange, DataServes
  <2> QED  BY <1>11, <2>4 DEF k2, records
<1>14. UpWire(k2, c)
  <2>1. /\ k2.dec = rest /\ k2.up = later /\ k2.sentUp = k.sentUp
    BY <1>11, <1>13 DEF Served
  <2>2. Bears(later, Up, c, k.sentUp, 2 * (k.recvSeq + m) + Len(rest))
    BY <1>6, <1>9
  <2> QED  BY <1>8, <1>9, <1>13, <2>1, <2>2 DEF UpWire
<1>15. DownKept(k, k2, c)
  <2>1. \A x \in Nat : DownWire(k, c, x) => DownWire(k1, c, x)
    BY <1>11 DEF DownWire
  <2> QED  BY <1>13, <2>1 DEF DownKept, Served
<1>16. Grows(k, k2)
  BY <1>1, <1>11, <1>13, GrowsSelf DEF Grows, Served
<1>17. ~Unserved(k, c)
  <2>1. Len(k.up) # 0
    BY <1>4
  <2> QED  BY <2>1 DEF Unserved
<1>18. Excused(k, k2, c)
  BY <1>11, <1>13 DEF Excused, Served
<1>19. HostStep(k, k2, c)
  <2>1. /\ k2 \in ConnSet /\ HostState(k2) /\ k2.st = "open" /\ k2.sentUp = k.sentUp
        /\ k2.gotDown = k.gotDown /\ k2.dec = rest /\ k2.up = later
    BY <1>1, <1>11, <1>13 DEF Served
  <2>2. 2 * k2.recvSeq + Len(k2.dec) + Len(k2.up) = 2 * k.recvSeq + Len(k.dec) + Len(k.up)
    BY <1>9, <1>13, <2>1
  <2> QED  BY <1>1, <1>14, <1>15, <1>16, <1>17, <2>1, <2>2 DEF HostStep
<1> QED  BY <1>3, <1>18, <1>19, HostStepKeeps DEF k

LEMMA NoConnHas ==
  /\ NoConn \in ConnSet
  /\ NoConn.st = "none" /\ ~NoConn.authed /\ ~NoConn.closed /\ ~NoConn.ended
  /\ NoConn.sendSeq = 0 /\ NoConn.recvSeq = 0
  /\ NoConn.pending = <<>> /\ NoConn.dec = <<>> /\ NoConn.down = <<>> /\ NoConn.up = <<>>
  /\ NoConn.sentDown = <<>> /\ NoConn.gotDown = <<>> /\ NoConn.sentUp = <<>> /\ NoConn.gotUp = <<>>
<1>1. <<>> \in Seq(PieceSet) /\ <<>> \in Seq(FrameSet)
  OBVIOUS
<1> QED  BY <1>1 DEF NoConn, ConnSet

LEMMA NoneBegins ==
  ASSUME NEW S, NEW s \in Seq(S)
  PROVE  Begins(<<>>, s)
<1>1. Len(<<>>) = 0 /\ 1..0 = {} /\ Len(s) \in Nat
  BY LenProperties
<1> QED  BY <1>1 DEF Begins

LEMMA NoneNone == Len(<<>>) = 0 /\ Begins(<<>>, <<>>)
<1>1. <<>> \in Seq(FrameSet) /\ Len(<<>>) = 0
  OBVIOUS
<1> QED  BY <1>1, NoneBegins

LEMMA NoConnState == HostState(NoConn)
<1>1. <<>> \in Seq(FrameSet) /\ Len(<<>>) = 0
  OBVIOUS
<1>2. Begins(<<>>, <<>>)
  BY NoneNone
<1>3. 0 <= SockCap /\ 0 <= Watermark
  BY Bounds
<1> QED  BY <1>1, <1>2, <1>3, NoConnHas DEF HostState, Queued

(* open: the epoch is all there is. *)
LEMMA OpenKeeps ==
  ASSUME Inv, NEW c \in Conns, HostOpen(c)
  PROVE  Inv' /\ Progress
<1> DEFINE epoch == <<EpochPiece(c)>>
           k2 == [NoConn EXCEPT !.st = "open", !.timer = TRUE, !.down = epoch]
<1>1. c <= made /\ conn[c].st = "none" /\ conn[c] = NoConn
  BY DEF HostOpen, Inv, ConnsOK
<1>2. conn' = [conn EXCEPT ![c] = k2] /\ UNCHANGED <<dev, made, broken, token>>
  <2>1. conn \in [Conns -> ConnSet]
    BY DEF Inv, StatesOK
  <2> QED  BY <1>1, <2>1 DEF HostOpen
<1>3. epoch \in Seq(PieceSet) /\ Len(epoch) = 1
  <2>1. EpochPiece(c) \in PieceSet
    BY ConnRange DEF EpochPiece, PieceSet, RecordSet, Frame, FrameSet, Types
  <2> QED  BY <2>1
<1> HIDE DEF epoch
<1>4. k2 \in ConnSet
  BY <1>3, NoConnHas DEF ConnSet
<1>5. /\ k2.st = "open" /\ k2.down = epoch /\ ~k2.authed /\ ~k2.closed /\ ~k2.ended
      /\ k2.sendSeq = 0 /\ k2.recvSeq = 0
      /\ k2.pending = <<>> /\ k2.dec = <<>> /\ k2.up = <<>>
      /\ k2.sentDown = <<>> /\ k2.gotDown = <<>> /\ k2.sentUp = <<>> /\ k2.gotUp = <<>>
  BY NoConnHas DEF ConnSet
<1> HIDE DEF k2
<1>6. HostState(k2)
  <2>1. Begins(<<>>, <<>>) /\ Len(<<>>) = 0
    BY NoneNone
  <2>2. Queued(k2)
    <3>1. Len(k2.pending) = 0 /\ Len(k2.down) = 1 /\ k2.sendSeq = Len(k2.sentDown)
      BY <1>3, <1>5, <2>1
    <3> QED  BY <1>5, <3>1, Bounds DEF Queued
  <2> QED  BY <1>5, <2>1, <2>2 DEF HostState
<1>7. UpWire(k2, c)
  <2>1. Len(<<>>) = 0
    OBVIOUS
  <2>2. Bears(<<>>, Up, c, <<>>, 2 * 0) /\ Bears(<<>>, Up, c, <<>>, 2 * 0 + 0)
    BY BearsNone
  <2> QED  BY <1>5, <2>1, <2>2 DEF UpWire
<1>8. Grows(conn[c], k2)
  <2>1. Begins(<<>>, <<>>)
    BY NoneNone
  <2> QED  BY <1>1, <1>5, <2>1, NoConnHas DEF Grows
<1>9. Excused(conn[c], k2, c)
  BY <1>5 DEF Excused
<1>10. Unserved(k2, c)
  BY <1>5 DEF Unserved, epoch
<1>11. DeviceOK(dev, conn', made)
  <2>1. DeviceOK(dev, conn, made) /\ conn \in [Conns -> ConnSet]
    BY DEF Inv, StatesOK
  <2>2. conn'[c] = k2 /\ \A x \in Conns : x # c => conn'[x] = conn[x]
    BY <1>2, <2>1
  <2>3. CASE made = c
    <3>1. ~Linked(dev, conn[c], c)
      BY <1>1 DEF Linked, LinkUp
    <3>2. Waits(dev, conn[c], c) => Waits(dev, k2, c)
      BY <1>10 DEF Waits
    <3> QED  BY <2>1, <2>2, <2>3, <3>1, <3>2 DEF DeviceOK
  <2>4. CASE made # c
    BY <2>1, <2>2, <2>4 DEF DeviceOK
  <2> QED  BY <2>3, <2>4
<1>12. dev' = dev /\ dev \in DevSet /\ made' = made /\ broken' = broken /\ token' = token
  BY <1>2 DEF Inv, StatesOK
<1>13. k2.st # "none" /\ dev' \in DevSet /\ DeviceOK(dev', conn', made)
  BY <1>5, <1>11, <1>12
<1> QED  BY <1>1, <1>2, <1>4, <1>6, <1>7, <1>8, <1>9, <1>12, <1>13, OneConn

-----------------------------------------------------------------------------
(* The steps that leave every connection alone. *)

LEMMA ConnsStay ==
  ASSUME Inv, conn' = conn, token' = token, broken' \subseteq Conns,
         made' \in 0..MaxConns, made' >= made, dev' \in DevSet, DeviceOK(dev', conn, made')
  PROVE  Inv' /\ Progress
<1>1. StatesOK'
  BY DEF Inv, StatesOK
<1>2. ConnsOK'
  <2> SUFFICES ASSUME NEW x \in Conns
               PROVE  /\ HostState(conn[x])' /\ UpWire(conn'[x], x)
                      /\ conn'[x].st = "none" => conn'[x] = NoConn
                      /\ x > made' => conn'[x].st = "none"
    BY DEF ConnsOK, UpWire, NoConn
  <2>1. /\ HostState(conn[x]) /\ UpWire(conn[x], x)
        /\ conn[x].st = "none" => conn[x] = NoConn
        /\ x > made => conn[x].st = "none"
    BY DEF Inv, ConnsOK
  <2>2. HostState(conn[x])'
    BY <2>1 DEF HostState, Queued
  <2>3. x > made' => x > made
    BY ConnRange DEF Inv, StatesOK
  <2> QED  BY <2>1, <2>2, <2>3
<1>3. DeviceOK(dev, conn, made)'
  BY DEF DeviceOK
<1>4. Progress
  <2>1. conn \in [Conns -> ConnSet]
    BY DEF Inv, StatesOK
  <2> QED  BY <2>1, GrowsSelf DEF Progress, Excused
<1> QED  BY <1>1, <1>2, <1>3, <1>4 DEF Inv

LEMMA CutKeeps ==
  ASSUME Inv, NEW c \in Conns, NetworkCuts(c)
  PROVE  Inv' /\ Progress
<1>1. /\ broken' \subseteq Conns /\ conn' = conn /\ token' = token /\ made' = made /\ dev' = dev
  BY DEF NetworkCuts, Inv, StatesOK
<1>2. /\ made' \in 0..MaxConns /\ made' >= made /\ dev' \in DevSet /\ DeviceOK(dev', conn, made')
  BY <1>1 DEF Inv, StatesOK
<1> QED  BY <1>1, <1>2, ConnsStay

(* The device off line, and on line. *)
LEMMA OnLine ==
  ASSUME Inv
  PROVE  /\ dev.sock = 0 => dev = Offline
         /\ dev.waiting => dev.sock # 0
         /\ dev.sock # 0 =>
              /\ dev.sock = made /\ made \in Conns
              /\ dev.waiting => Waits(dev, conn[made], made)
              /\ ~dev.waiting => Linked(dev, conn[made], made)
<1>1. DeviceOK(dev, conn, made)
  BY DEF Inv
<1>2. CASE dev = Offline
  BY <1>2 DEF Offline
<1>3. CASE made \in Conns /\ Waits(dev, conn[made], made)
  <2>1. dev.sock = made /\ dev.waiting = TRUE
    BY <1>3 DEF Waits, Offline
  <2> QED  BY <1>3, <2>1, ConnRange
<1>4. CASE made \in Conns /\ Linked(dev, conn[made], made)
  <2>1. dev.sock = made /\ ~dev.waiting
    BY <1>4 DEF Linked, LinkUp
  <2> QED  BY <1>4, <2>1, ConnRange
<1> QED  BY <1>1, <1>2, <1>3, <1>4 DEF DeviceOK

(* recv fails or the budget is spent: ab_net_disconnect. *)
LEMMA LeaveKeeps ==
  ASSUME Inv, dev' = Offline, UNCHANGED <<conn, made, broken, token>>
  PROVE  Inv' /\ Progress
<1>1. /\ broken' \subseteq Conns /\ conn' = conn /\ token' = token /\ made' = made
      /\ made' \in 0..MaxConns /\ made' >= made
  BY DEF Inv, StatesOK
<1>2. dev' \in DevSet /\ DeviceOK(dev', conn, made')
  BY OfflineTyped DEF DeviceOK
<1> QED  BY <1>1, <1>2, ConnsStay

LEMMA ConnectKeeps ==
  ASSUME Inv, DevConnect
  PROVE  Inv' /\ Progress
<1> DEFINE m == made + 1
<1>1. /\ made < MaxConns /\ made' = m /\ UNCHANGED <<conn, broken, token>>
      /\ dev' = [Offline EXCEPT !.sock = m, !.waiting = TRUE]
  BY DEF DevConnect, Disconnect
<1>2. made \in 0..MaxConns /\ MaxConns \in Nat /\ broken \subseteq Conns
  BY Bounds DEF Inv, StatesOK
<1>3. m \in 0..MaxConns /\ m >= made /\ m \in Conns /\ m > made
  BY <1>1, <1>2 DEF Conns
<1> HIDE DEF m
<1>4. dev' \in DevSet
  <2>1. m \in Nat
    BY <1>2, <1>3
  <2> QED  BY <1>1, <2>1, OfflineTyped DEF DevSet
<1>5. conn[m].st = "none"
  BY <1>3 DEF Inv, ConnsOK
<1>6. DeviceOK(dev', conn, m)
  BY <1>1, <1>3, <1>5 DEF DeviceOK, Waits
<1> QED  BY <1>1, <1>2, <1>3, <1>4, <1>6, ConnsStay

(* A send of the device on the connection it has opened records of. *)
LEMMA SentLinks ==
  ASSUME NEW d, NEW k, NEW d2, NEW k2, NEW c, Sent(d, k, d2, k2, c), LinkDown(d, k, c)
  PROVE  d2 = Offline \/ Linked(d2, k2, c)
<1>1. CASE d2 # Offline
  <2>1. LinkUp(d2, k2, c) /\ d2.recvSeq = d.recvSeq /\ d2.rx = d.rx
    BY <1>1 DEF Sent
  <2>2. LinkDown(d2, k2, c)
    BY <2>1 DEF Sent, LinkDown, DownWire
  <2> QED  BY <2>1, <2>2 DEF Sent, Linked
<1> QED  BY <1>1

(* The device's connection and the device change together. *)
LEMMA DeviceStepKeeps ==
  ASSUME Inv, dev.sock # 0, NEW c, c = dev.sock, NEW d2 \in DevSet, NEW k2 \in ConnSet,
         dev' = d2, conn' = [conn EXCEPT ![c] = k2], UNCHANGED <<made, broken, token>>,
         HostState(k2), UpWire(k2, c), Grows(conn[c], k2),
         k2.st # "none", k2.closed = conn[c].closed,
         d2 = Offline \/ Linked(d2, k2, c)
  PROVE  Inv' /\ Progress
<1>1. c = made /\ c \in Conns /\ c <= made
  <2>1. c = made /\ c \in Conns
    BY OnLine
  <2> QED  BY <2>1, ConnRange
<1>2. conn'[c] = k2
  BY <1>1 DEF Inv, StatesOK
<1>3. DeviceOK(dev', conn', made)
  BY <1>1, <1>2 DEF DeviceOK
<1>4. Excused(conn[c], k2, c)
  BY DEF Excused
<1>5. made' = made /\ broken' = broken /\ token' = token /\ dev' \in DevSet
  OBVIOUS
<1> QED  BY <1>1, <1>3, <1>4, <1>5, OneConn

LEMMA OutcomesOfSend == \A c : Outcomes(c) \subseteq 0..2
BY DEF Outcomes

(* A key press. *)
LEMMA SendKeeps ==
  ASSUME Inv, DevSend
  PROVE  Inv' /\ Progress
<1> DEFINE c == dev.sock
           k == conn[c]
<1>1. PICK written \in Outcomes(c) :
        Update(c, DeviceSends([d |-> dev, k |-> k], Keys, written))
  BY DEF DevSend
<1> DEFINE w == DeviceSends([d |-> dev, k |-> k], Keys, written)
<1>2. c # 0 /\ ~dev.waiting /\ UNCHANGED <<made, broken, token>>
  BY DEF DevSend
<1>3. dev' = w.d /\ conn' = [conn EXCEPT ![c] = w.k]
  BY <1>1 DEF Update
<1>4. c \in Conns /\ Linked(dev, k, c) /\ c \in Nat
  BY <1>2, OnLine, ConnRange
<1>5. dev \in DevSet /\ k \in ConnSet /\ HostState(k) /\ UpWire(k, c)
  BY <1>4 DEF Inv, StatesOK, ConnsOK
<1> HIDE DEF k
<1>6. w = [d |-> w.d, k |-> w.k] /\ Sent(dev, k, w.d, w.k, c)
  <2>1. Keys \in Types /\ written \in 0..2
    BY <1>1, OutcomesOfSend DEF Types
  <2>2. LinkUp(dev, k, c) /\ k.sentUp # <<>>
    BY <1>4 DEF Linked
  <2> HIDE DEF c
  <2> DEFINE v == w
  <2>3. v = DeviceSends([d |-> dev, k |-> k], Keys, written)
    OBVIOUS
  <2> HIDE DEF v
  <2>4. v = [d |-> v.d, k |-> v.k] /\ Sent(dev, k, v.d, v.k, c)
    BY <1>2, <1>4, <1>5, <2>1, <2>2, <2>3, DeviceSendsKeeps
  <2> QED  BY <2>4 DEF v
<1> HIDE DEF w, c
<1>7. w.d = Offline \/ Linked(w.d, w.k, c)
  BY <1>4, <1>6, SentLinks DEF Linked
<1>8. Grows(k, w.k)
  BY <1>5, <1>6, GrowsSelf DEF Grows, Sent
<1>9. /\ w.d \in DevSet /\ w.k \in ConnSet /\ HostState(w.k) /\ UpWire(w.k, c)
      /\ w.k.closed = k.closed /\ w.k.st = k.st
  BY <1>6 DEF Sent
<1>10. w.k.st # "none"
  BY <1>4, <1>9 DEF Linked, LinkUp
<1>11. dev.sock # 0 /\ c = dev.sock
  BY <1>2 DEF c
<1> QED  BY <1>2, <1>3, <1>7, <1>8, <1>9, <1>10, <1>11, DeviceStepKeeps DEF k

(* recv_exact gets the epoch, and ATTACH is the first record. *)
LEMMA EpochKeeps ==
  ASSUME Inv, DevEpoch
  PROVE  Inv' /\ Progress
<1> DEFINE c == dev.sock
           k == conn[c]
           d0 == [dev EXCEPT !.waiting = FALSE, !.epoch = k.down[1].rec.epoch]
           k0 == [k EXCEPT !.down = Tail(k.down)]
<1>1. PICK written \in Outcomes(c) :
        Update(c, DeviceSends([d |-> d0, k |-> k0], Attach, written))
  <2>1. \E written \in Outcomes(c) :
          Update(c, DeviceSends(
            [d |-> [dev EXCEPT !.waiting = FALSE, !.epoch = conn[c].down[1].rec.epoch],
             k |-> [conn[c] EXCEPT !.down = Tail(@)]], Attach, written))
    BY DEF DevEpoch
  <2> QED  BY <2>1
<1> DEFINE w == DeviceSends([d |-> d0, k |-> k0], Attach, written)
<1>2. dev.waiting /\ k.down # <<>> /\ UNCHANGED <<made, broken, token>>
  BY DEF DevEpoch
<1>3. dev' = w.d /\ conn' = [conn EXCEPT ![c] = w.k]
  BY <1>1 DEF Update
<1>4. c \in Conns /\ c # 0 /\ c \in Nat /\ Waits(dev, k, c)
  BY <1>2, OnLine, ConnRange
<1>5. dev \in DevSet /\ k \in ConnSet /\ HostState(k) /\ UpWire(k, c) /\ (k.st = "none" => k = NoConn)
  BY <1>4 DEF Inv, StatesOK, ConnsOK
<1>11. dev.sock # 0 /\ c = dev.sock
  BY <1>4
<1> HIDE DEF k, c, w
<1>6. k.st # "none" /\ Unserved(k, c)
  BY <1>2, <1>4, <1>5, NoConnHas DEF Waits
<1>7. /\ k.down[1].rec.epoch = c /\ Tail(k.down) = <<>>
  <2> DEFINE p == EpochPiece(c)
  <2>1. k.down = <<p>> /\ p.rec.epoch = c
    BY <1>6 DEF Unserved, EpochPiece
  <2> HIDE DEF p
  <2> QED  BY <2>1
<1>8. /\ d0 \in DevSet /\ d0.sock = c /\ ~d0.waiting /\ d0.epoch = c
      /\ d0.sendSeq = 0 /\ d0.recvSeq = 0 /\ d0.rx = <<>>
  <2>1. d0 = [dev EXCEPT !.waiting = FALSE, !.epoch = c]
    BY <1>7
  <2>2. dev = [Offline EXCEPT !.sock = c, !.waiting = TRUE]
    BY <1>4 DEF Waits
  <2>3. dev.sock = c /\ dev.sendSeq = 0 /\ dev.recvSeq = 0 /\ dev.rx = <<>>
    BY <2>2 DEF Offline
  <2> HIDE DEF d0
  <2>4. d0 \in DevSet
    BY <1>4, <1>5, <2>1 DEF DevSet
  <2> QED  BY <1>5, <2>1, <2>3, <2>4 DEF DevSet
<1>9. /\ k0 \in ConnSet /\ k0.down = <<>>
      /\ k0.sentUp = k.sentUp /\ k0.up = k.up /\ k0.dec = k.dec /\ k0.gotDown = k.gotDown
      /\ k0.recvSeq = k.recvSeq /\ k0.sendSeq = k.sendSeq
      /\ k0.st = k.st /\ k0.authed = k.authed /\ k0.closed = k.closed
      /\ k0.ended = k.ended /\ k0.pending = k.pending
      /\ k0.sentDown = k.sentDown /\ k0.gotUp = k.gotUp
  <2>0. <<>> \in Seq(PieceSet)
    OBVIOUS
  <2>1. k0 = [k EXCEPT !.down = <<>>]
    <3> DEFINE rest == Tail(k.down)
    <3>1. rest = <<>> /\ k0 = [k EXCEPT !.down = rest]
      BY <1>7
    <3> HIDE DEF rest, k0
    <3> QED  BY <3>1
  <2> HIDE DEF k0
  <2>2. k0 \in ConnSet
    BY <1>5, <2>0, <2>1 DEF ConnSet
  <2> QED  BY <1>5, <2>1, <2>2 DEF ConnSet
<1> HIDE DEF d0, k0
<1>10. HostState(k0) /\ UpWire(k0, c) /\ k0.recvSeq = 0 /\ LinkUp(d0, k0, c)
  <2>1. Len(<<>>) = 0 /\ 0 <= SockCap
    BY Bounds
  <2>2. HostState(k0)
    BY <1>5, <1>9, <2>1 DEF HostState, Queued
  <2>3. UpWire(k0, c)
    BY <1>5, <1>9 DEF UpWire
  <2>4. k0.recvSeq = 0
    <3>1. k0.recvSeq \in Nat /\ k0.recvSeq <= Len(k0.sentUp) /\ k0.sentUp = <<>>
      BY <1>6, <1>9, <2>2, ConnFields DEF HostState, Unserved
    <3> QED  BY <2>1, <3>1
  <2>5. LinkUp(d0, k0, c)
    <3>1. Len(k0.dec) = 0 /\ Len(k0.up) = 0 /\ Len(k0.sentUp) = 0
      BY <1>6, <1>9, <2>1 DEF Unserved
    <3> QED  BY <1>6, <1>8, <1>9, <2>4, <3>1 DEF LinkUp
  <2> QED  BY <2>2, <2>3, <2>4, <2>5
<1>12. LinkDown(d0, k0, c)
  <2>1. Len(<<>>) = 0
    OBVIOUS
  <2>2. \A from : Bears(<<>>, Down, c, <<>>, from)
    BY BearsNone
  <2>3. /\ k0.down = <<>> /\ k0.pending = <<>> /\ k0.sentDown = <<>> /\ k0.gotDown = <<>>
        /\ d0.rx = <<>> /\ d0.recvSeq = 0
    BY <1>6, <1>8, <1>9 DEF Unserved
  <2>4. DownWire(k0, c, 0)
    BY <2>1, <2>2, <2>3 DEF DownWire
  <2>5. 2 * d0.recvSeq + Len(d0.rx) = 0
    BY <2>1, <2>3
  <2> QED  BY <2>1, <2>2, <2>3, <2>4, <2>5 DEF LinkDown
<1>13. w = [d |-> w.d, k |-> w.k] /\ Sent(d0, k0, w.d, w.k, c)
  <2>1. Attach \in Types /\ written \in 0..2
    BY <1>1, OutcomesOfSend DEF Types
  <2>2. w = DeviceSends([d |-> d0, k |-> k0], Attach, written)
    BY DEF w
  <2> QED  BY <1>4, <1>8, <1>9, <1>10, <2>1, <2>2, DeviceSendsKeeps
<1>14. w.d = Offline \/ Linked(w.d, w.k, c)
  BY <1>12, <1>13, SentLinks
<1>15. Grows(k, w.k)
  BY <1>5, <1>9, <1>13, GrowsSelf DEF Grows, Sent
<1>16. /\ w.d \in DevSet /\ w.k \in ConnSet /\ HostState(w.k) /\ UpWire(w.k, c)
       /\ w.k.closed = k.closed /\ w.k.st # "none"
  BY <1>6, <1>9, <1>13 DEF Sent
<1> QED  BY <1>2, <1>3, <1>11, <1>14, <1>15, <1>16, DeviceStepKeeps DEF k

(* ab_net_poll: what recv takes joins the buffer, and every whole record   *)
(* opens.                                                                  *)
LEMMA PollActionKeeps ==
  ASSUME Inv, DevPoll
  PROVE  Inv' /\ Progress
<1> DEFINE c == dev.sock
           k == conn[c]
           avail == SmallerOf(Len(k.down), RxCap - Len(dev.rx))
<1>1. PICK n \in 1..avail, written \in Outcomes(c) :
        LET rx == dev.rx \o SubSeq(k.down, 1, n)
            k1 == [k EXCEPT !.down = SubSeq(@, n + 1, Len(@))]
            w  == PollRecords([d |-> dev, k |-> k1], Records(rx), written)
        IN  Update(c, IF w.d.sock = 0 THEN w ELSE [w EXCEPT !.d.rx = Rest(rx)])
  BY DEF DevPoll
<1> DEFINE chunk == SubSeq(k.down, 1, n)
           later == SubSeq(k.down, n + 1, Len(k.down))
           rx == dev.rx \o chunk
           rest == Rest(rx)
           k1 == [k EXCEPT !.down = later]
           w == [d |-> dev, k |-> k1]
           w2 == PollRecords(w, Records(rx), written)
           d2 == IF w2.d.sock = 0 THEN w2.d ELSE [w2.d EXCEPT !.rx = rest]
<1>2. c # 0 /\ ~dev.waiting /\ UNCHANGED <<made, broken, token>>
  BY DEF DevPoll
<1>3. c \in Conns /\ Linked(dev, k, c) /\ c \in Nat /\ c = made
  BY <1>2, OnLine, ConnRange
<1>4. dev \in DevSet /\ k \in ConnSet /\ HostState(k) /\ UpWire(k, c)
  BY <1>3 DEF Inv, StatesOK, ConnsOK
<1>5. Update(c, IF w2.d.sock = 0 THEN w2 ELSE [w2 EXCEPT !.d.rx = rest])
  BY <1>1
<1>6. dev.sock # 0 /\ c = dev.sock
  BY <1>2
<1> HIDE DEF c, k, w2
<1> DEFINE from == 2 * dev.recvSeq
           mid == from + Len(dev.rx)
<1>7. /\ k.down \in Seq(PieceSet) /\ dev.rx \in Seq(PieceSet) /\ k.sentDown \in Seq(FrameSet)
      /\ Len(k.down) \in Nat /\ Len(dev.rx) \in Nat /\ Len(k.sentDown) \in Nat
      /\ Len(k.pending) \in Nat /\ dev.recvSeq \in Nat /\ from \in Nat /\ mid \in Nat
      /\ n \in 0..Len(k.down) /\ n # 0
  <2>1. dev.rx \in Seq(PieceSet) /\ dev.recvSeq \in Nat
    BY <1>4 DEF DevSet
  <2>2. /\ k.down \in Seq(PieceSet) /\ k.sentDown \in Seq(FrameSet) /\ k.pending \in Seq(PieceSet)
    BY <1>4, ConnFields
  <2>3. /\ Len(k.down) \in Nat /\ Len(dev.rx) \in Nat /\ Len(k.sentDown) \in Nat
        /\ Len(k.pending) \in Nat
    BY <2>1, <2>2, LenProperties
  <2> DEFINE room == RxCap - Len(dev.rx)
             a == Len(k.down)
  <2>4. room \in Int /\ a \in Nat /\ n \in 1..(IF a < room THEN a ELSE room)
    BY <2>3, Bounds DEF SmallerOf
  <2> HIDE DEF room, a
  <2>5. n \in 0..a /\ n # 0
    BY <2>4
  <2> QED  BY <2>1, <2>2, <2>3, <2>5 DEF a
<1> HIDE DEF avail
<1>8. /\ Bears(dev.rx, Down, c, k.sentDown, from)
      /\ Bears(k.down, Down, c, k.sentDown, mid)
      /\ Bears(k.pending, Down, c, k.sentDown, mid + Len(k.down))
      /\ mid + Len(k.down) + Len(k.pending) = 2 * Len(k.sentDown)
      /\ dev.recvSeq = Len(k.gotDown)
  BY <1>3 DEF Linked, LinkDown, DownWire
<1>9. /\ chunk \in Seq(PieceSet) /\ Len(chunk) = n
      /\ later \in Seq(PieceSet) /\ Len(later) = Len(k.down) - n
      /\ Bears(chunk, Down, c, k.sentDown, mid) /\ Bears(later, Down, c, k.sentDown, mid + n)
  <2> DEFINE u == k.down
  <2>1. u \in Seq(PieceSet) /\ n \in 0..Len(u) /\ mid \in Nat /\ Bears(u, Down, c, k.sentDown, mid)
    BY <1>7, <1>8
  <2> HIDE DEF from, mid, k1, rx, rest, u, d2, w
  <2>2. /\ SubSeq(u, 1, n) \in Seq(PieceSet) /\ Len(SubSeq(u, 1, n)) = n
        /\ SubSeq(u, n + 1, Len(u)) \in Seq(PieceSet)
        /\ Len(SubSeq(u, n + 1, Len(u))) = Len(u) - n
        /\ Bears(SubSeq(u, 1, n), Down, c, k.sentDown, mid)
        /\ Bears(SubSeq(u, n + 1, Len(u)), Down, c, k.sentDown, mid + n)
    BY <2>1, BearsCut
  <2> QED  BY <2>2 DEF u
<1> HIDE DEF chunk, later
<1>10. /\ rx \in Seq(PieceSet) /\ Len(rx) = Len(dev.rx) + n
       /\ Bears(rx, Down, c, k.sentDown, from)
  <2>1. Bears(chunk, Down, c, k.sentDown, from + Len(dev.rx))
    BY <1>9
  <2> HIDE DEF from, mid, k1, w, d2
  <2> QED  BY <1>7, <1>8, <1>9, <2>1, BearsJoin
<1> HIDE DEF rx
<1>11. PICK m \in Nat :
         /\ 2 * m <= Len(rx)
         /\ DOMAIN Records(rx) = 1..m
         /\ \A i \in 1..m :
              Records(rx)[i]
                = Seal(Down, c, dev.recvSeq + (i - 1), k.sentDown[dev.recvSeq + (i - 1) + 1])
         /\ rest \in Seq(PieceSet) /\ Len(rest) = Len(rx) - 2 * m /\ Len(rest) <= 1
         /\ Bears(rest, Down, c, k.sentDown, 2 * (dev.recvSeq + m))
  <2> HIDE DEF k1, w, d2
  <2> QED  BY <1>7, <1>10, DecoderFinds
<1> HIDE DEF rest
<1>12. /\ dev.recvSeq + m <= Len(k.sentDown)
       /\ 2 * (dev.recvSeq + m) + Len(rest) = mid + n
       /\ (mid + n) + Len(later) = mid + Len(k.down)
       /\ (mid + n) + Len(later) + Len(k.pending) = 2 * Len(k.sentDown)
  <2> DEFINE q == dev.recvSeq
             e == Len(dev.rx)
             u == Len(k.down)
             p == Len(k.pending)
             s == Len(k.sentDown)
             r == Len(rest)
             l == Len(later)
  <2>1. /\ q \in Nat /\ e \in Nat /\ u \in Nat /\ s \in Nat /\ p \in Nat /\ n \in 0..u
        /\ 2 * m <= e + n /\ r = (e + n) - 2 * m /\ l = u - n
        /\ (2 * q + e) + u + p = 2 * s
    BY <1>7, <1>8, <1>9, <1>10, <1>11
  <2> HIDE DEF q, e, u, s, r, l, p, from, mid, w, d2, k1
  <2>2. /\ q + m <= s
        /\ 2 * (q + m) + r = (2 * q + e) + n
        /\ ((2 * q + e) + n) + l = (2 * q + e) + u
        /\ ((2 * q + e) + n) + l + p = 2 * s
    BY <2>1
  <2> QED  BY <2>2 DEF q, e, u, s, r, l, p, from, mid
<1> HIDE DEF from
<1>13. k1 \in ConnSet
  <2> HIDE DEF mid, w, d2
  <2> QED  BY <1>4, <1>9 DEF ConnSet
<1>14. /\ k1.down = later /\ k1.up = k.up /\ k1.dec = k.dec
       /\ k1.closed = k.closed /\ k1.ended = k.ended /\ k1.st = k.st
       /\ k1.pending = k.pending /\ k1.sentDown = k.sentDown
       /\ k1.sendSeq = k.sendSeq /\ k1.authed = k.authed /\ k1.recvSeq = k.recvSeq
       /\ k1.sentUp = k.sentUp /\ k1.gotUp = k.gotUp /\ k1.gotDown = k.gotDown
  <2> HIDE DEF mid, w, d2
  <2> QED  BY <1>4, <1>13 DEF ConnSet
<1>15. w.d = dev /\ w.k = k1 /\ w \in WorkSet /\ dev # Offline
  <2>1. w.d = dev /\ w.k = k1 /\ w \in WorkSet
    BY <1>4, <1>13 DEF WorkSet
  <2>2. dev # Offline
    BY <1>6, OnLine DEF Offline
  <2> QED  BY <2>1, <2>2
<1> HIDE DEF k1, w
<1>16. HostState(k1) /\ UpWire(k1, c) /\ LinkUp(dev, k1, c) /\ k1.sentUp # <<>>
  <2>1. Queued(k1)
    <3>1. Len(k1.down) <= Len(k.down) /\ Len(k.down) <= SockCap
      <4>1. Len(k.down) <= SockCap
        BY <1>4 DEF HostState, Queued
      <4> DEFINE a == Len(k.down)
                 b == Len(later)
      <4>2. a \in Nat /\ n \in 0..a /\ b = a - n
        BY <1>7, <1>9
      <4> HIDE DEF a, b
      <4>3. b <= a
        BY <4>2
      <4> QED  BY <1>14, <4>1, <4>3 DEF a, b
    <3>2. Len(k1.down) \in Nat
      BY <1>13, ConnFields, LenProperties
    <3> QED  BY <1>4, <1>7, <1>14, <3>1, <3>2, Bounds DEF HostState, Queued
  <2>2. HostState(k1)
    BY <1>4, <1>14, <2>1 DEF HostState
  <2>3. UpWire(k1, c) /\ LinkUp(dev, k1, c) /\ k1.sentUp # <<>>
    BY <1>3, <1>4, <1>14 DEF UpWire, LinkUp, Linked
  <2> QED  BY <2>2, <2>3
<1>17. Polling(w, c)
  BY <1>8, <1>14, <1>15, <1>16 DEF Polling
<1>18. /\ Polled(w, w2, c)
       /\ w2.d # Offline => w2.d.recvSeq = dev.recvSeq + m
  <2> DEFINE records == Records(rx)
  <2>1. written \in 0..2 /\ w.d # Offline /\ w.d.recvSeq + m <= Len(w.k.sentDown)
    BY <1>12, <1>14, <1>15, OutcomesOfSend
  <2>2. DOMAIN records = 1..m
    BY <1>11
  <2>3. \A i \in 1..m :
          records[i] = Seal(Down, c, w.d.recvSeq + (i - 1), w.k.sentDown[w.d.recvSeq + (i - 1) + 1])
    BY <1>11, <1>14, <1>15
  <2>4. w2 = PollRecords(w, records, written)
    BY DEF w2
  <2> HIDE DEF records, mid, d2
  <2> DEFINE v == PollRecords(w, records, written)
  <2>5. Polled(w, v, c) /\ (v.d # Offline => v.d.recvSeq = w.d.recvSeq + m)
    <3>1. c \in Nat /\ c # 0 /\ m \in Nat
      BY <1>3, <1>6, ConnRange
    <3> QED  BY ONLY <3>1, <1>17, <2>1, <2>2, <2>3, PollsKeep
  <2> HIDE DEF v
  <2>6. w2 = v
    BY <2>4 DEF v
  <2> QED  BY <1>15, <2>5, <2>6
<1>19. /\ w2.d \in DevSet /\ w2.k \in ConnSet /\ HostState(w2.k) /\ UpWire(w2.k, c)
       /\ w2.k.sentUp # <<>>
       /\ \/ w2.d = Offline
          \/ LinkUp(w2.d, w2.k, c) /\ Len(w2.k.gotDown) = w2.d.recvSeq
       /\ Begins(k1.sentUp, w2.k.sentUp) /\ Begins(k1.gotDown, w2.k.gotDown)
       /\ w2.k.st = k1.st /\ w2.k.closed = k1.closed
       /\ w2.k.pending = k1.pending /\ w2.k.down = k1.down
       /\ w2.k.sentDown = k1.sentDown /\ w2.k.gotUp = k1.gotUp
  BY <1>15, <1>18 DEF Polled, Polling, WorkSet
<1>20. dev' = d2 /\ conn' = [conn EXCEPT ![c] = w2.k]
  <2>1. w2 \in WorkSet
    BY <1>18 DEF Polled, Polling
  <2>2. CASE w2.d.sock = 0
    BY <1>5, <2>2 DEF Update
  <2>3. CASE w2.d.sock # 0
    <3>1. [w2 EXCEPT !.d.rx = rest].d = [w2.d EXCEPT !.rx = rest]
      BY <2>1 DEF WorkSet
    <3>2. [w2 EXCEPT !.d.rx = rest].k = w2.k
      BY <2>1 DEF WorkSet
    <3> QED  BY <1>5, <2>3, <3>1, <3>2 DEF Update
  <2> QED  BY <2>2, <2>3
<1>21. d2 \in DevSet /\ (d2 = Offline \/ Linked(d2, w2.k, c))
  <2>1. CASE w2.d = Offline
    <3>1. w2.d.sock = 0
      BY <2>1 DEF Offline
    <3> QED  BY <2>1, <3>1, OfflineTyped
  <2>2. CASE w2.d # Offline
    <3>1. LinkUp(w2.d, w2.k, c) /\ Len(w2.k.gotDown) = w2.d.recvSeq /\ w2.d.sock # 0
      BY <1>6, <1>19, <2>2 DEF LinkUp
    <3>2. d2 = [w2.d EXCEPT !.rx = rest]
      BY <3>1
    <3> HIDE DEF d2
    <3>3. d2 \in DevSet
      BY <1>11, <1>19, <3>2 DEF DevSet
    <3>4. /\ d2.sock = w2.d.sock /\ d2.waiting = w2.d.waiting /\ d2.epoch = w2.d.epoch
          /\ d2.sendSeq = w2.d.sendSeq /\ d2.recvSeq = w2.d.recvSeq /\ d2.rx = rest
      BY <1>19, <3>2, <3>3 DEF DevSet
    <3>5. LinkUp(d2, w2.k, c)
      BY <3>1, <3>4 DEF LinkUp
    <3>6. d2.recvSeq = dev.recvSeq + m
      BY <1>18, <2>2, <3>4
    <3>7. DownWire(w2.k, c, 2 * d2.recvSeq + Len(d2.rx))
      <4> DEFINE at == mid + n
      <4>1. at = 2 * d2.recvSeq + Len(d2.rx)
        BY <1>12, <3>4, <3>6
      <4>2. Bears(later, Down, c, k.sentDown, at)
        BY <1>9
      <4>3. Bears(k.pending, Down, c, k.sentDown, at + Len(later))
        BY <1>8, <1>12
      <4>4. at + Len(later) + Len(k.pending) = 2 * Len(k.sentDown)
        BY <1>12
      <4>5. w2.k.down = later /\ w2.k.pending = k.pending /\ w2.k.sentDown = k.sentDown
        BY <1>14, <1>19
      <4> HIDE DEF at, mid
      <4>6. DownWire(w2.k, c, at)
        BY <4>2, <4>3, <4>4, <4>5 DEF DownWire
      <4> QED  BY <4>1, <4>6
    <3>8. LinkDown(d2, w2.k, c)
      <4>1. Bears(d2.rx, Down, c, w2.k.sentDown, 2 * d2.recvSeq)
        BY <1>11, <1>14, <1>19, <3>4, <3>6
      <4> QED  BY <1>11, <3>1, <3>4, <3>7, <4>1 DEF LinkDown
    <3> QED  BY <1>19, <3>3, <3>5, <3>8 DEF Linked
  <2> QED  BY <2>1, <2>2
<1>22. Grows(k, w2.k)
  BY <1>4, <1>14, <1>19, GrowsSelf DEF Grows
<1>23. w2.k.st # "none" /\ w2.k.closed = k.closed
  BY <1>3, <1>14, <1>19 DEF Linked, LinkUp
<1> HIDE DEF d2, mid
<1> QED  BY <1>2, <1>6, <1>19, <1>20, <1>21, <1>22, <1>23, DeviceStepKeeps DEF k
-----------------------------------------------------------------------------
(* The invariant holds at first and every step keeps it. *)

LEMMA InitHolds ==
  ASSUME Init PROVE Inv
<1>1. NoConn \in ConnSet /\ NoConn.st = "none"
  BY NoConnHas
<1>2. conn \in [Conns -> ConnSet] /\ \A c \in Conns : conn[c] = NoConn
  BY <1>1 DEF Init
<1>3. StatesOK
  BY <1>2, OfflineTyped, Bounds DEF Init, StatesOK
<1>4. ConnsOK
  BY <1>1, <1>2, NoConnState DEF ConnsOK, UpWire
<1>5. DeviceOK(dev, conn, made)
  BY DEF Init, DeviceOK
<1> QED  BY <1>3, <1>4, <1>5 DEF Inv

LEMMA DeviceLoopKeeps ==
  ASSUME Inv, DevLoop
  PROVE  Inv' /\ Progress
<1>1. ASSUME DevEpochFails PROVE Inv' /\ Progress
  BY <1>1, LeaveKeeps DEF DevEpochFails, Disconnect
<1>2. ASSUME DevLost PROVE Inv' /\ Progress
  BY <1>2, LeaveKeeps DEF DevLost, Disconnect
<1> QED  BY <1>1, <1>2, ConnectKeeps, EpochKeeps, PollActionKeeps DEF DevLoop

LEMMA HostKeeps ==
  ASSUME Inv, NEW c \in Conns, HostSocket(c) \/ HostApp(c) \/ HostTimer(c) \/ NetworkCuts(c)
  PROVE  Inv' /\ Progress
<1>1. CASE HostSocket(c)
  BY <1>1, OpenKeeps, DataKeeps, DrainKeeps, CloseKeeps DEF HostSocket
<1>2. CASE HostApp(c)
  BY <1>2, AppKeeps
<1>3. CASE HostTimer(c)
  BY <1>3, TimerKeeps
<1>4. CASE NetworkCuts(c)
  BY <1>4, CutKeeps
<1> QED  BY <1>1, <1>2, <1>3, <1>4

LEMMA StepKeeps ==
  ASSUME Inv, [Next]_vars
  PROVE  Inv' /\ Progress
<1>1. CASE DevLoop
  BY <1>1, DeviceLoopKeeps
<1>2. CASE DevSend
  BY <1>2, SendKeeps
<1>3. CASE \E c \in Conns : HostSocket(c) \/ HostApp(c) \/ HostTimer(c) \/ NetworkCuts(c)
  BY <1>3, HostKeeps
<1>4. CASE UNCHANGED vars
  <2>1. /\ broken' \subseteq Conns /\ conn' = conn /\ token' = token
        /\ made' \in 0..MaxConns /\ made' >= made /\ dev' \in DevSet
        /\ DeviceOK(dev', conn, made')
    BY <1>4 DEF vars, Inv, StatesOK
  <2> QED  BY <2>1, ConnsStay
<1> QED  BY <1>1, <1>2, <1>3, <1>4 DEF Next

-----------------------------------------------------------------------------
(* What the invariant says of a state and of a step. *)

LEMMA InvTypes ==
  ASSUME Inv PROVE TypeOK
<1>1. /\ dev \in DevSet /\ conn \in [Conns -> ConnSet]
      /\ made \in 0..MaxConns /\ broken \subseteq Conns /\ token \in {"good", "bad"}
  BY DEF Inv, StatesOK
<1>2. /\ dev.sock \in Nat /\ dev.waiting \in BOOLEAN /\ dev.epoch \in Nat
      /\ dev.sendSeq \in Nat /\ dev.recvSeq \in Nat
  BY <1>1 DEF DevSet
<1>3. dev.sock \in 0..made /\ dev.epoch \in 0..made /\ Len(dev.rx) <= 1
  <2>1. made \in Nat /\ 0 \in 0..made /\ made \in 0..made
    BY <1>1, Bounds
  <2>2. CASE dev.sock = 0
    <3>1. dev = Offline
      BY <2>2, OnLine
    <3>2. dev.sock = 0 /\ dev.epoch = 0 /\ dev.rx = <<>>
      BY <3>1 DEF Offline
    <3> QED  BY <2>1, <3>2, NoneNone
  <2>3. CASE dev.sock # 0 /\ dev.waiting
    <3>1. dev.sock = made /\ Waits(dev, conn[made], made)
      BY <2>3, OnLine
    <3>2. dev.epoch = 0 /\ dev.rx = <<>>
      BY <3>1 DEF Waits, Offline
    <3> QED  BY <2>1, <3>1, <3>2, NoneNone
  <2>4. CASE dev.sock # 0 /\ ~dev.waiting
    <3>1. dev.sock = made /\ Linked(dev, conn[made], made)
      BY <2>4, OnLine
    <3>2. dev.epoch = made /\ Len(dev.rx) <= 1
      BY <3>1 DEF Linked, LinkUp, LinkDown
    <3> QED  BY <2>1, <3>1, <3>2
  <2> QED  BY <2>2, <2>3, <2>4
<1>4. Len(dev.rx) < RxCap
  <2>1. Len(dev.rx) \in Nat
    BY <1>1 DEF DevSet
  <2> QED  BY <1>3, <2>1, Bounds
<1>5. ASSUME NEW c \in Conns
      PROVE  LET k == conn[c] IN
               /\ k.st \in {"none", "open", "gone"}
               /\ {k.authed, k.closed, k.ended, k.timer} \subseteq BOOLEAN
               /\ k.sendSeq \in Nat /\ k.recvSeq \in Nat
               /\ Len(k.pending) <= IF k.closed THEN Watermark + 2 ELSE Watermark
               /\ Len(k.down) <= SockCap
               /\ \A i \in DOMAIN k.pending : DOMAIN k.pending[i] = Piece
  <2> DEFINE k == conn[c]
  <2>1. k \in ConnSet
    BY <1>1
  <2>2. Queued(k)
    BY DEF Inv, ConnsOK, HostState
  <2> HIDE DEF k
  <2>3. ASSUME NEW i \in DOMAIN k.pending PROVE DOMAIN k.pending[i] = Piece
    <3>1. k.pending \in Seq(PieceSet)
      BY <2>1, ConnFields
    <3>2. k.pending[i] \in PieceSet
      BY <3>1, ElementOfSeq
    <3> QED  BY <3>2 DEF PieceSet, Piece
  <2>4. /\ k.st \in {"none", "open", "gone"}
        /\ {k.authed, k.closed, k.ended, k.timer} \subseteq BOOLEAN
        /\ k.sendSeq \in Nat /\ k.recvSeq \in Nat
    BY <2>1, ConnFields
  <2> QED  BY <2>2, <2>3, <2>4 DEF Queued, k
<1> QED  BY <1>1, <1>2, <1>3, <1>4, <1>5 DEF TypeOK

LEMMA InvCounts ==
  ASSUME Inv PROVE CountersAgree
<1> DEFINE c == dev.sock
           k == conn[c]
<1> SUFFICES ASSUME c # 0, ~dev.waiting, k.st = "open"
             PROVE  /\ Len(dev.rx) + Len(k.down) + Len(k.pending) = 2 * (k.sendSeq - dev.recvSeq)
                    /\ Len(k.dec) + Len(k.up) = 2 * (dev.sendSeq - k.recvSeq)
  BY DEF CountersAgree
<1>1. c = made /\ c \in Conns /\ Linked(dev, k, c)
  BY OnLine
<1>2. k \in ConnSet /\ dev \in DevSet
  BY <1>1 DEF Inv, StatesOK
<1>3. Queued(k)
  BY <1>1 DEF Inv, ConnsOK, HostState
<1> DEFINE x == Len(dev.rx)
           d == Len(k.down)
           p == Len(k.pending)
           e == Len(k.dec)
           u == Len(k.up)
<1>4. /\ x \in Nat /\ d \in Nat /\ p \in Nat /\ e \in Nat /\ u \in Nat
      /\ k.sendSeq \in Nat /\ dev.recvSeq \in Nat /\ dev.sendSeq \in Nat /\ k.recvSeq \in Nat
  <2>1. /\ k.down \in Seq(PieceSet) /\ k.pending \in Seq(PieceSet)
        /\ k.dec \in Seq(PieceSet) /\ k.up \in Seq(PieceSet)
        /\ k.sendSeq \in Nat /\ k.recvSeq \in Nat
    <3> HIDE DEF k
    <3> QED  BY <1>2, ConnFields
  <2>2. dev.rx \in Seq(PieceSet) /\ dev.recvSeq \in Nat /\ dev.sendSeq \in Nat
    BY <1>2 DEF DevSet
  <2> QED  BY <2>1, <2>2, LenProperties
<1>5. (2 * dev.recvSeq + x) + d + p = 2 * k.sendSeq
  BY <1>1, <1>3 DEF Linked, LinkDown, DownWire, Queued
<1>6. 2 * k.recvSeq + e + u = 2 * dev.sendSeq
  BY <1>1 DEF Linked, LinkUp
<1> HIDE DEF x, d, p, e, u, k, c
<1>7. x + d + p = 2 * (k.sendSeq - dev.recvSeq)
  BY <1>4, <1>5
<1>8. e + u = 2 * (dev.sendSeq - k.recvSeq)
  BY <1>4, <1>6
<1> QED  BY <1>7, <1>8 DEF x, d, p, e, u

(* A step moves frames along each stream, and moves nothing else. *)
LEMMA InvDelivers ==
  ASSUME Inv, Inv', Progress PROVE Delivered!Next
<1>1. /\ conn \in [Conns -> ConnSet] /\ conn' \in [Conns -> ConnSet]
  BY DEF Inv, StatesOK
<1>2. ASSUME NEW c \in Conns, NEW dir \in {Up, Down}
      PROVE  /\ IsPrefix(Handed(c, dir), Handed(c, dir)')
             /\ IsPrefix(Given(c, dir), Given(c, dir)')
             /\ IsPrefix(Given(c, dir)', Handed(c, dir)')
  <2>1. /\ conn[c].sentUp \in Seq(FrameSet) /\ conn[c].gotUp \in Seq(FrameSet)
        /\ conn[c].sentDown \in Seq(FrameSet) /\ conn[c].gotDown \in Seq(FrameSet)
    BY <1>1, ConnFields
  <2>2. /\ conn'[c].sentUp \in Seq(FrameSet) /\ conn'[c].gotUp \in Seq(FrameSet)
        /\ conn'[c].sentDown \in Seq(FrameSet) /\ conn'[c].gotDown \in Seq(FrameSet)
    BY <1>1, ConnFields
  <2>3. Grows(conn[c], conn'[c])
    BY DEF Progress
  <2>4. Begins(conn'[c].gotUp, conn'[c].sentUp) /\ Begins(conn'[c].gotDown, conn'[c].sentDown)
    BY DEF Inv, ConnsOK, HostState
  <2>5. CASE dir = Up
    <3>1. /\ Handed(c, dir) = conn[c].sentUp /\ Handed(c, dir)' = conn'[c].sentUp
          /\ Given(c, dir) = conn[c].gotUp /\ Given(c, dir)' = conn'[c].gotUp
      BY <2>5 DEF Handed, Given
    <3>2. /\ IsPrefix(conn[c].sentUp, conn'[c].sentUp)
          /\ IsPrefix(conn[c].gotUp, conn'[c].gotUp)
          /\ IsPrefix(conn'[c].gotUp, conn'[c].sentUp)
      BY <2>1, <2>2, <2>3, <2>4, BeginsIsPrefix DEF Grows
    <3> QED  BY <3>1, <3>2
  <2>6. CASE dir # Up
    <3>1. /\ Handed(c, dir) = conn[c].sentDown /\ Handed(c, dir)' = conn'[c].sentDown
          /\ Given(c, dir) = conn[c].gotDown /\ Given(c, dir)' = conn'[c].gotDown
      BY <2>6 DEF Handed, Given
    <3>2. /\ IsPrefix(conn[c].sentDown, conn'[c].sentDown)
          /\ IsPrefix(conn[c].gotDown, conn'[c].gotDown)
          /\ IsPrefix(conn'[c].gotDown, conn'[c].sentDown)
      BY <2>1, <2>2, <2>3, <2>4, BeginsIsPrefix DEF Grows
    <3> QED  BY <3>1, <3>2
  <2> QED  BY <2>5, <2>6
<1>3. \A s \in Streams : s[1] \in Conns /\ s[2] \in {Up, Down}
  BY DEF Streams
<1>4. \A s \in Streams :
        /\ IsPrefix(Handed(s[1], s[2]), Handed(s[1], s[2])')
        /\ IsPrefix(Given(s[1], s[2]), Given(s[1], s[2])')
        /\ IsPrefix(Given(s[1], s[2])', Handed(s[1], s[2])')
  BY <1>2, <1>3
<1> DEFINE handed == [s \in Streams |-> Handed(s[1], s[2])]
           given == [s \in Streams |-> Given(s[1], s[2])]
<1>5. /\ DOMAIN handed' = Streams /\ DOMAIN given' = Streams
      /\ \A s \in Streams :
           /\ handed[s] = Handed(s[1], s[2]) /\ handed'[s] = Handed(s[1], s[2])'
           /\ given[s] = Given(s[1], s[2]) /\ given'[s] = Given(s[1], s[2])'
  OBVIOUS
<1> HIDE DEF handed, given
<1>6. \A a, b : IsPrefix(a, b) => Delivered!IsPrefix(a, b)
  BY DEF IsPrefix, Delivered!IsPrefix
<1>7. \A s \in Streams : /\ Delivered!IsPrefix(handed[s], handed'[s])
                         /\ Delivered!IsPrefix(given[s], given'[s])
                         /\ Delivered!IsPrefix(given'[s], handed'[s])
  BY <1>4, <1>5, <1>6
<1>8. DOMAIN handed' = Streams /\ DOMAIN given' = Streams
  BY <1>5
<1> USE DEF handed, given
<1> QED  BY ONLY <1>7, <1>8, Zenon DEF Delivered!Next, Delivered!Transfer

LEMMA InitDelivers ==
  ASSUME Init PROVE Delivered!Init
<1>1. \A c \in Conns : conn[c] = NoConn
  BY DEF Init
<1>2. ASSUME NEW s \in Streams
      PROVE  Handed(s[1], s[2]) = <<>> /\ Given(s[1], s[2]) = <<>>
  <2>1. s[1] \in Conns
    BY DEF Streams
  <2>2. conn[s[1]] = NoConn
    BY <1>1, <2>1
  <2> QED  BY <2>2, NoConnHas DEF Handed, Given
<1> QED  BY <1>2 DEF Delivered!Init

LEMMA InvExcuses ==
  ASSUME Inv, [Next]_vars
  PROVE  \A c \in Conns :
           conn[c].authed /\ ~conn[c].closed /\ conn'[c].closed =>
             dev.sock # c \/ c \in broken \/ Len(conn'[c].pending) > Watermark
BY StepKeeps DEF Progress, Excused

-----------------------------------------------------------------------------
(* The strengthening of the safety properties below is inductive. *)
THEOREM WireInductive == Spec => []Inv
<1>1. Init => Inv
  BY InitHolds
<1>2. Inv /\ [Next]_vars => Inv'
  BY StepKeeps
<1> QED  BY <1>1, <1>2, PTL DEF Spec

(* The connection's two states keep their types, the host's queue for an   *)
(* open connection stays within the watermark, and poll always has room    *)
(* for a recv: it never takes a full buffer for the host's close.          *)
THEOREM TransportTypeCorrect == Spec => []TypeOK
<1>1. Inv => TypeOK
  BY InvTypes
<1> QED  BY <1>1, WireInductive, PTL

(* At whatever place a write, a read or a reconnect cuts a record, the two *)
(* ends' record counters differ by the records between them, so no record  *)
(* of the device's connection is refused later.                            *)
THEOREM CountersDifferByTheWire == Spec => []CountersAgree
<1>1. Inv => CountersAgree
  BY InvCounts
<1> QED  BY <1>1, WireInductive, PTL

(* The host closes a connection whose device has attached only when the    *)
(* device left it, the network cut it or its queue passed the watermark:   *)
(* never because the attach timer was still running.                       *)
THEOREM TimerSparesTheAttached == Spec => AttachedStays
<1>1. Inv /\ [Next]_vars =>
        [\A c \in Conns :
           conn[c].authed /\ ~conn[c].closed /\ conn'[c].closed =>
             dev.sock # c \/ c \in broken \/ Len(conn'[c].pending) > Watermark]_vars
  BY InvExcuses
<1> QED  BY <1>1, WireInductive, PTL DEF Spec, AttachedStays

(* net.c, crypto.c and the host's server implement a FIFO that may lose    *)
(* its tail, in each direction of each connection: what is given is a      *)
(* prefix of what was handed over on that very connection, whatever was    *)
(* cut, held back, dropped or reconnected.                                 *)
THEOREM TransportDelivers == Spec => Delivers
<1>1. Init => Delivered!Init
  BY InitDelivers
<1>2. Inv /\ Inv' /\ [Next]_vars => [Delivered!Next]_(Delivered!streams)
  BY StepKeeps, InvDelivers
<1> QED  BY <1>1, <1>2, WireInductive, PTL DEF Spec, Delivers, Delivered!Spec
=============================================================================
