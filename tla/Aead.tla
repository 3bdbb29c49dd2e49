-------------------------------- MODULE Aead --------------------------------
(***************************************************************************)
(* The sealed record of the device: crypto.c over the authenticated        *)
(* encryption of monocypher.c (XChaCha20 and Poly1305), the parts of that  *)
(* library the device calls.  Bytes are numbers below 256.  A 32-bit word  *)
(* is a pair of 16-bit halves <<high, low>>, and a number modulo 2^130 is  *)
(* thirteen digits in base 1024, least first: both are representations,    *)
(* not limits.                                                             *)
(***************************************************************************)
EXTENDS Integers, SequencesExt, Bitwise

B16 == 65536
Slice(s, from, n) == SubSeq(s, from + 1, from + n)
(* A function over 1..n as the tuple it is: evaluated once, element by element. *)
Tuple(s) == IF DOMAIN s = {} THEN <<>> ELSE s \o <<>>
Zeros(n) == Tuple([i \in 1..n |-> 0])

(* How many bytes are missing to a multiple of n. *)
Gap(x, n) == (n - (x % n)) % n

Word(b) == <<b[4] * 256 + b[3], b[2] * 256 + b[1]>>
WordBytes(w) == <<w[2] % 256, w[2] \div 256, w[1] % 256, w[1] \div 256>>
Words(b) == Tuple([i \in 1..(Len(b) \div 4) |-> Word(Slice(b, 4 * (i - 1), 4))])
BytesOf(ws) == FlattenSeq(Tuple([i \in 1..Len(ws) |-> WordBytes(ws[i])]))

AddW(v, w) == LET low == v[2] + w[2]
              IN  <<(v[1] + w[1] + low \div B16) % B16, low % B16>>
XorW(v, w) == <<v[1] ^^ w[1], v[2] ^^ w[2]>>

(* rotl32, for 0 < n < 16 or n = 16. *)
Rotl(w, n) ==
  IF n = 16 THEN <<w[2], w[1]>>
  ELSE LET up == 2^n
           down == 2^(16 - n)
       IN  <<((w[1] % down) * up) + (w[2] \div down), ((w[2] % down) * up) + (w[1] \div down)>>

-----------------------------------------------------------------------------
(* ChaCha20 *)

HalfRound(q, n, m) ==
  LET a == AddW(q[1], q[2])
      d == Rotl(XorW(q[4], a), n)
      c == AddW(q[3], d)
      b == Rotl(XorW(q[2], c), m)
  IN  <<a, b, c, d>>

QuarterRound(q) == HalfRound(HalfRound(q, 16, 12), 8, 7)

(* Four quarter rounds down the columns of the 4 x 4 square, its rows      *)
(* turned by turn places to the left, as the diagonals need them.          *)
Round[t \in Seq(Nat \X Nat), turn \in 0..1] ==
  LET At(row, k) == 4 * row + ((k + turn * row) % 4) + 1
      q == Tuple([k \in 1..4 |-> QuarterRound(<<t[At(0, k - 1)], t[At(1, k - 1)],
                                               t[At(2, k - 1)], t[At(3, k - 1)]>>)])
      Column(i) == (((i - 1) % 4) - turn * ((i - 1) \div 4)) % 4
  IN  Tuple([i \in 1..16 |-> q[Column(i) + 1][(i - 1) \div 4 + 1]])

Rounds(in) ==
  LET after[n \in 0..20] == IF n = 0 THEN in ELSE Round[after[n - 1], (n + 1) % 2]
  IN  after[20]

(* "expand 32-byte k" *)
Sigma == <<101, 120, 112, 97, 110, 100, 32, 51, 50, 45, 98, 121, 116, 101, 32, 107>>

(* crypto_chacha20_h: the first and the last row of the mixed square. *)
SubKey(key, in) ==
  LET t == Rounds(Words(Sigma \o key \o in))
  IN  BytesOf(SubSeq(t, 1, 4) \o SubSeq(t, 13, 16))

(* One block of the key stream; the counters of one record stay small. *)
StreamBlock(key, nonce, ctr) ==
  LET in == Words(Sigma \o key) \o <<<<ctr \div B16, ctr % B16>>, <<0, 0>>>> \o Words(nonce)
      t == Rounds(in)
  IN  BytesOf(Tuple([i \in 1..16 |-> AddW(t[i], in[i])]))

(* crypto_chacha20_djb: whole blocks, then the head of one more, and the   *)
(* counter for whoever goes on.                                            *)
Stream(text, key, nonce, ctr) ==
  LET blocks == (Len(text) + 63) \div 64
      pad == FlattenSeq(Tuple([i \in 1..blocks |-> StreamBlock(key, nonce, ctr + i - 1)]))
  IN  [text |-> Tuple([i \in 1..Len(text) |-> text[i] ^^ pad[i]]), ctr |-> ctr + blocks]

-----------------------------------------------------------------------------
(* Poly1305 *)

Base == 1024
Bit(b, k) == IF k \div 8 < Len(b) THEN (b[k \div 8 + 1] \div 2^(k % 8)) % 2 ELSE 0
Digits130(b) ==
  LET At(i, j) == Bit(b, 10 * (i - 1) + j) * 2^j
  IN  Tuple([i \in 1..13 |-> MapThenSumSet(LAMBDA j : At(i, j), 0..9)])

(* The carry into digit i. *)
Carries(d, first) == LET c[i \in 1..14] == IF i = 1 THEN first ELSE (d[i - 1] + c[i - 1]) \div Base
                     IN  c

(* Carries, the one past 2^130 coming back five times. *)
Carried(d) ==
  LET Pass[e \in Seq(Nat)] ==
        LET c == Tuple([i \in 1..14 |-> Carries(e, 0)[i]])
        IN  Tuple([i \in 1..13 |-> ((e[i] + c[i]) % Base) + (IF i = 1 THEN 5 * c[14] ELSE 0)])
  IN  Pass[Pass[Pass[d]]]

AddMod(x, y) == Carried(Tuple([i \in 1..13 |-> x[i] + y[i]]))

(* The product, its digits from the thirteenth on folded back times five. *)
MulMod(x, y) ==
  LET Part(k, i) == x[i] * (IF i <= k THEN y[k - i + 1] ELSE 5 * y[k - i + 14])
  IN  Carried(Tuple([k \in 1..13 |-> MapThenSumSet(LAMBDA i : Part(k, i), 1..13)]))

(* crypto_poly1305_init: r loses some of its bits. *)
Clamped(b) == Tuple([i \in 1..16 |-> IF i % 4 = 0 THEN b[i] % 16
                               ELSE IF i % 4 = 1 /\ i > 1 THEN b[i] - (b[i] % 4) ELSE b[i]])

(* poly_blocks: h = (h + block) * r, the block carrying a 1 above its end. *)
Absorbed[r \in Seq(Nat), h \in Seq(Nat), block \in Seq(Nat)] ==
  MulMod(AddMod(h, Digits130(Append(block, 1))), r)

(* How crypto_poly1305_update cuts what is waiting and a message: fill the *)
(* open block, take whole blocks of sixteen, keep the rest.                *)
Chunks(waiting, msg) ==
  LET lead == Min({Gap(Len(waiting), 16), Len(msg)})
      open == waiting \o SubSeq(msg, 1, lead)
      rest == SubSeq(msg, lead + 1, Len(msg))
      whole == Len(rest) \div 16
      Whole(i) == Slice(rest, 16 * (i - 1), 16)
  IN  [blocks |-> (IF Len(open) = 16 THEN <<open>> ELSE <<>>)
                     \o [i \in 1..whole |-> Whole(i)],
       kept   |-> (IF Len(open) = 16 THEN <<>> ELSE open)
                     \o SubSeq(rest, 16 * whole + 1, Len(rest))]

PolyUpdate(r, st, msg) ==
  LET chunks == Chunks(st.c, msg)
  IN  [h |-> FoldLeft(LAMBDA h, block : Absorbed[r, h, block], st.h, chunks.blocks),
       c |-> chunks.kept]

(* crypto_poly1305_final: the open block, one subtraction of 2^130 - 5 if  *)
(* it is due, and the second half of the key, modulo 2^128.                *)
Mac(r, st, pad) ==
  LET h == IF st.c = <<>> THEN st.h ELSE Absorbed[r, st.h, st.c]
      plus == Tuple([i \in 1..13 |-> h[i] + pad[i]])
      due == 5 * Carries(h, 5)[14]
      BitAt(k) == LET i == k \div 10 + 1
                  IN  (((plus[i] + Carries(plus, due)[i]) % Base) \div 2^(k % 10)) % 2
  IN  Tuple([i \in 1..16 |-> MapThenSumSet(LAMBDA j : BitAt(8 * (i - 1) + j) * 2^j, 0..7)])

-----------------------------------------------------------------------------
(* The record. *)

Size64(n) == <<n % 256, (n \div 256) % 256, n \div B16>> \o Zeros(5)

(* lock_auth: the additional data and the text, each padded to sixteen. *)
Tag(authKey, ad, text) ==
  LET r == Digits130(Clamped(Slice(authKey, 0, 16)))
      Add(st, msg) == PolyUpdate(r, st, msg)
      parts == <<ad, Zeros(Gap(Len(ad), 16)), text, Zeros(Gap(Len(text), 16)),
                 Size64(Len(ad)) \o Size64(Len(text))>>
  IN  Mac(r, FoldLeft(Add, [h |-> Zeros(13), c |-> <<>>], parts),
          Digits130(Slice(authKey, 16, 16)))

(* crypto_aead_lock and crypto_aead_unlock over a 24-byte nonce: block 0   *)
(* keys the tag, the text starts at block 1.                               *)
Lock[key, nonce, ad, plain \in Seq(Nat)] ==
  LET sub == SubKey(key, SubSeq(nonce, 1, 16))
      tail == SubSeq(nonce, 17, 24)
      cipher == Stream(plain, sub, tail, 1).text
  IN  [cipher |-> cipher, mac |-> Tag(StreamBlock(sub, tail, 0), ad, cipher)]

Unlock[key, nonce, ad, cipher, mac \in Seq(Nat)] ==
  LET sub == SubKey(key, SubSeq(nonce, 1, 16))
      tail == SubSeq(nonce, 17, 24)
  IN  IF mac # Tag(StreamBlock(sub, tail, 0), ad, cipher)
        THEN [ok |-> FALSE, plain |-> <<>>]
        ELSE [ok |-> TRUE, plain |-> Stream(cipher, sub, tail, 1).text]

(* ab_build_aad: context, direction, epoch and sequence number, the last  *)
(* two of eight bytes each, most significant first.                        *)
U64BE(n) == Zeros(4) \o <<n \div 16777216, (n \div B16) % 256, (n \div 256) % 256, n % 256>>
BuildAad(context, dir, epoch, seq) == context \o <<dir>> \o U64BE(epoch) \o U64BE(seq)

(* ab_seal_frame and ab_open_frame: nonce, cipher text, tag. *)
Overhead == 40
SealFrame(key, context, dir, epoch, seq, nonce, plain) ==
  LET s == Lock[key, nonce, BuildAad(context, dir, epoch, seq), plain]
  IN  nonce \o s.cipher \o s.mac

OpenFrame(key, context, dir, epoch, seq, frame) ==
  IF Len(frame) < Overhead THEN [ok |-> FALSE, plain |-> <<>>]
  ELSE LET n == Len(frame) - Overhead
       IN  Unlock[key, Slice(frame, 0, 24), BuildAad(context, dir, epoch, seq),
                  Slice(frame, 24, n), Slice(frame, 24 + n, 16)]

DirDown == 0
DirUp == 1
Probe == 1
Reply == 2

(* discovery.c: magic, type and a record under the context of discovery.  *)
BuildProbe(key, magic, context, challenge, nonce) ==
  magic \o <<Probe>> \o SealFrame(key, context, DirUp, 0, 0, nonce, challenge)

BuildReply(key, magic, context, challenge, port, nonce) ==
  magic \o <<Reply>> \o SealFrame(key, context, DirDown, 0, 0, nonce,
                                  challenge \o <<port \div 256, port % 256>>)

(* ab_dsc_parse_reply: exact length, magic, type, key and challenge. *)
ParseReply(key, magic, context, challenge, datagram) ==
  LET head == Len(magic) + 1
      r == OpenFrame(key, context, DirDown, 0, 0, SubSeq(datagram, head + 1, Len(datagram)))
      n == Len(challenge)
  IN  IF /\ Len(datagram) = head + Overhead + n + 2
         /\ Slice(datagram, 0, head) = Append(magic, Reply)
         /\ r.ok /\ Slice(r.plain, 0, n) = challenge
        THEN [ok |-> TRUE, port |-> r.plain[n + 1] * 256 + r.plain[n + 2]]
        ELSE [ok |-> FALSE, port |-> 0]
=============================================================================
