------------------------------ MODULE QrChecks ------------------------------
(* The decoder of Qr beside an encoder written from the definition of the    *)
(* codes: a generator polynomial each, the grid filled along the walk.       *)
EXTENDS Qr

(* BCH(15, 5): five bits of data and the remainder modulo the generator. *)
FormatGenerator == {0, 1, 2, 4, 5, 8, 10}
FormatWord(level, mask) ==
  LET bits == BitsOf(<<8 * level + mask>>)
      data == {i \in 10..14 : bits[18 - i] = 1}
      Reduce(r, i) == IF i \in r THEN SymDiff(r, {g + i - 10 : g \in FormatGenerator}) ELSE r
  IN  data \cup FoldLeft(Reduce, data, <<14, 13, 12, 11, 10>>)

(* Reed-Solomon: the product of x - 2^i, and the remainder of the data. *)
Generator(npar) ==
  LET Multiply(g, i) ==
        Tuple([j \in 1..(Len(g) + 1) |->
                 (IF j > Len(g) THEN 0 ELSE g[j])
                   ^^ (IF j = 1 THEN 0 ELSE Times(gf256, g[j - 1], Exp(gf256, i)))])
      g[n \in 0..npar] == IF n = 0 THEN <<1>> ELSE Multiply(g[n - 1], n - 1)
  IN  g[npar]
WithParity(data, npar) ==
  LET gen == Generator(npar)
      rem[k \in 0..Len(data)] ==
        IF k = 0 THEN data \o [j \in 1..npar |-> 0]
        ELSE LET r == rem[k - 1]
             IN  Tuple([j \in 1..Len(r) |-> IF j - k \in 0..npar
                                              THEN r[j] ^^ Times(gf256, r[k], gen[j - k + 1])
                                              ELSE r[j]])
  IN  data \o SubSeq(rem[Len(data)], Len(data) + 1, Len(data) + npar)

(* A byte segment: type, count, the bytes, a terminator, padding. *)
ByteSegment(payload, dw) ==
  LET head == <<0, 1, 0, 0>> \o BitsOf(<<Len(payload)>>) \o BitsOf(payload) \o <<0, 0, 0, 0>>
      bytes == [i \in 1..(Len(head) \div 8) |-> RawByte(head, i - 1)]
  IN  Tuple([i \in 1..dw |-> IF i <= Len(bytes) THEN bytes[i]
                             ELSE IF Even(i - Len(bytes)) THEN 17 ELSE 236])

(* The codewords of a code: the blocks laid side by side. *)
Codewords(data, version, level) ==
  LET e == quirc_version_db[version].ecc[level]
      blocks == Tuple([b \in 1..e.ns |-> WithParity(SubSeq(data, e.dw * (b - 1) + 1, e.dw * b),
                                                    e.bs - e.dw)])
  IN  Tuple([n \in 1..(e.bs * e.ns) |-> blocks[((n - 1) % e.ns) + 1][((n - 1) \div e.ns) + 1]])

(* A grid of the codewords, those in hit misread and the format words     *)
(* misread in the bits lost.                                               *)
Grid(words, version, level, mask, hit, lost) ==
  LET bits == BitsOf(Tuple([n \in 1..Len(words) |-> IF n \in hit THEN words[n] ^^ 165 ELSE words[n]]))
      walk == Walk(version)
      size == SizeOf(version)
      Black(n) == (IF n <= Len(bits) THEN bits[n] ELSE 0)
                    # (IF mask_bit(mask, walk[n][2], walk[n][1]) THEN 1 ELSE 0)
      word == SymDiff(FormatWord(level, mask), FormatMask)
      Copy(which) == {FormatCell(size, which, i) : i \in SymDiff(word, lost[which + 1])}
  IN  [size |-> size,
       black |-> {walk[n] : n \in {m \in 1..Len(walk) : Black(m)}} \cup Copy(0) \cup Copy(1)]

Sample == <<51, 100, 115>>
(* What is read from a sample of version 1 or 3, level 0 or 2. *)
Reads(version, level, mask, hit, lost) ==
  LET e == quirc_version_db[version].ecc[level]
      words == Codewords(ByteSegment(Sample, e.dw * e.ns), version, level)
      r == quirc_decode(Grid(words, version, level, mask, hit, lost))
  IN  [err |-> r.err, payload |-> r.payload]
Right == [err |-> "none", payload |-> Sample]

-----------------------------------------------------------------------------
(* The tables are the powers of two modulo a polynomial, and undo each     *)
(* other but for zero.                                                     *)
ASSUME TablesAgree ==
  \A f \in {<<gf16, 19>>, <<gf256, 285>>} :
    LET gf == f[1]
    IN  /\ Len(gf.exp) = gf.p + 1 /\ Len(gf.log) = gf.p + 1
        /\ \A n \in 0..(gf.p - 1) :
             Exp(gf, n + 1) = IF 2 * Exp(gf, n) > gf.p THEN (2 * Exp(gf, n)) ^^ f[2] ELSE 2 * Exp(gf, n)
        /\ \A v \in 1..gf.p : Exp(gf, Log(gf, v)) = v

(* Up to three misread bits of a format word are corrected, each error on  *)
(* another word.                                                           *)
ASSUME FormatCorrects ==
  \A S \in UNION {kSubset(k, 0..14) : k \in 0..3} :
    LET sum == FoldSet(+, 0, S)
        word == FormatWord(sum % 4, sum % 8)
        r == correct_format(SymDiff(word, S))
    IN  r.ok /\ r.u = word

(* The walk reads every cell that is not reserved, once, and they hold the *)
(* bytes of the version and less than one byte more.                       *)
ASSUME WalkReadsAll ==
  \A v \in Versions :
    LET walk == Walk(v)
        cells == {<<x, y>> \in (0..(SizeOf(v) - 1)) \X (0..(SizeOf(v) - 1)) :
                    ~reserved_cell(v, y, x)}
    IN  /\ ToSet(walk) = cells /\ Len(walk) = Cardinality(cells)
        /\ Len(walk) \div 8 = quirc_version_db[v].data_bytes

(* The blocks of a version use its bytes up, at every level. *)
ASSUME BlocksFill ==
  \A v \in Versions : \A l \in 0..3 :
    LET row == quirc_version_db[v]
        e == row.ecc[l]
    IN  (row.data_bytes - e.bs * e.ns) % (e.bs + 1) = 0

(* A code word of five, and any misread bytes up to half the parity, the   *)
(* first and the last among them, comes back; one more never gives a       *)
(* corrected block that is no code word.                                   *)
ASSUME BlockCorrects ==
  LET ecc == [bs |-> 9, dw |-> 5]
      word == WithParity(<<1, 0, 255, 29, 142>>, 4)
      Misread(S) == [i \in 1..9 |-> IF i \in S THEN word[i] ^^ (16 * i + 1) ELSE word[i]]
  IN  \A S \in UNION {kSubset(k, 1..9) : k \in 0..3} :
        LET r == correct_block(Tuple(Misread(S)), ecc)
        IN  IF Cardinality(S) <= 2 THEN r.ok /\ r.data = word
            ELSE r.ok => ~Nonzero(block_syndromes(r.data, 4))

(* Every mask, a ruined first format word, and misread bytes at both ends  *)
(* of a code leave what was encoded; one byte too many is refused.         *)
ASSUME CodeReads ==
  /\ \A mask \in 0..7 : Reads(1, 2, mask, {1, 9, 26}, <<{0, 3, 5, 9, 14}, {mask}>>) = Right
  /\ Reads(3, 2, 3, {1, 2, 3, 4, 69, 70}, <<{1, 2, 3}, {}>>) = Right
  /\ Reads(1, 0, 1, {1, 2, 3, 4, 5, 6}, <<{}, {}>>).err = "data"

(* The four ways to pack characters: a full group, a group cut short, and  *)
(* a stream that ends within one, or before its count.                     *)
ASSUME PayloadReads ==
  LET Bits(n, w) == [b \in 1..w |-> (n \div 2^(w - b)) % 2]
      Decode(bits) == LET r == decode_payload(Stream(bits), 1)
                      IN  <<r.err, r.payload>>
      numeric == <<0, 0, 0, 1>> \o Bits(4, 10) \o Bits(120, 10) \o Bits(7, 4)
      alpha == <<0, 0, 1, 0>> \o Bits(3, 9) \o Bits(45 * 10 + 44, 11) \o Bits(0, 6)
      kanji == <<1, 0, 0, 0>> \o Bits(1, 8) \o Bits(7973, 13)
      eci == <<0, 1, 1, 1>> \o Bits(26, 8)
  IN  /\ Decode(numeric) = <<"none", <<49, 50, 48, 55>>>>
      /\ Decode(SubSeq(numeric, 1, 27))[1] = "underflow"
      /\ Decode(alpha) = <<"none", <<65, 58, 48>>>>
      /\ Decode(kanji) = <<"none", <<234, 165>>>>
      /\ Decode(eci \o numeric \o alpha) = <<"none", <<49, 50, 48, 55, 65, 58, 48>>>>
      /\ Decode(SubSeq(eci, 1, 10))[1] = "underflow"
      /\ Decode(<<0, 1, 0, 0>> \o Bits(2, 8) \o Bits(65, 8))[1] = "underflow"
=============================================================================
