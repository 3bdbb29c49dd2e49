--------------------------------- MODULE Qr ---------------------------------
(***************************************************************************)
(* The decoding half of quirc.c, the library that reads a pairing code out *)
(* of a camera frame: error correction, the walk over the grid, the blocks *)
(* and the segments of the payload.  A code is the set of its black cells  *)
(* <<x, y>> and its size; a format word is the set of its one bits; a      *)
(* polynomial is its coefficients from x^0 on.                             *)
(***************************************************************************)
EXTENDS Integers, SequencesExt, Bitwise

XorAll(f(_), S) == FoldSet(LAMBDA i, x : x ^^ f(i), 0, S)
Even(n) == n % 2 = 0
Number(bits) == FoldLeft(LAMBDA n, b : 2 * n + b, 0, bits)
(* A function over 1..n as the tuple it is, evaluated once. *)
Tuple(s) == IF DOMAIN s = {} THEN <<>> ELSE s \o <<>>

-----------------------------------------------------------------------------
(* Galois fields by tables: log of 1 is p, not 0, and log of 0 is 0. *)

gf16_exp == <<
  1, 2, 4, 8, 3, 6, 12, 11, 5, 10, 7, 14, 15, 13, 9, 1>>
gf16_log == <<
  0, 15, 1, 4, 2, 8, 5, 10, 3, 14, 9, 7, 6, 13, 11, 12>>
gf256_exp == <<
  1, 2, 4, 8, 16, 32, 64, 128, 29, 58, 116, 232, 205, 135, 19, 38, 76, 152, 45, 90, 180,
  117, 234, 201, 143, 3, 6, 12, 24, 48, 96, 192, 157, 39, 78, 156, 37, 74, 148, 53, 106,
  212, 181, 119, 238, 193, 159, 35, 70, 140, 5, 10, 20, 40, 80, 160, 93, 186, 105, 210,
  185, 111, 222, 161, 95, 190, 97, 194, 153, 47, 94, 188, 101, 202, 137, 15, 30, 60, 120,
  240, 253, 231, 211, 187, 107, 214, 177, 127, 254, 225, 223, 163, 91, 182, 113, 226, 217,
  175, 67, 134, 17, 34, 68, 136, 13, 26, 52, 104, 208, 189, 103, 206, 129, 31, 62, 124,
  248, 237, 199, 147, 59, 118, 236, 197, 151, 51, 102, 204, 133, 23, 46, 92, 184, 109, 218,
  169, 79, 158, 33, 66, 132, 21, 42, 84, 168, 77, 154, 41, 82, 164, 85, 170, 73, 146, 57,
  114, 228, 213, 183, 115, 230, 209, 191, 99, 198, 145, 63, 126, 252, 229, 215, 179, 123,
  246, 241, 255, 227, 219, 171, 75, 150, 49, 98, 196, 149, 55, 110, 220, 165, 87, 174, 65,
  130, 25, 50, 100, 200, 141, 7, 14, 28, 56, 112, 224, 221, 167, 83, 166, 81, 162, 89, 178,
  121, 242, 249, 239, 195, 155, 43, 86, 172, 69, 138, 9, 18, 36, 72, 144, 61, 122, 244,
  245, 247, 243, 251, 235, 203, 139, 11, 22, 44, 88, 176, 125, 250, 233, 207, 131, 27, 54,
  108, 216, 173, 71, 142, 1>>
gf256_log == <<
  0, 255, 1, 25, 2, 50, 26, 198, 3, 223, 51, 238, 27, 104, 199, 75, 4, 100, 224, 14, 52,
  141, 239, 129, 28, 193, 105, 248, 200, 8, 76, 113, 5, 138, 101, 47, 225, 36, 15, 33, 53,
  147, 142, 218, 240, 18, 130, 69, 29, 181, 194, 125, 106, 39, 249, 185, 201, 154, 9, 120,
  77, 228, 114, 166, 6, 191, 139, 98, 102, 221, 48, 253, 226, 152, 37, 179, 16, 145, 34,
  136, 54, 208, 148, 206, 143, 150, 219, 189, 241, 210, 19, 92, 131, 56, 70, 64, 30, 66,
  182, 163, 195, 72, 126, 110, 107, 58, 40, 84, 250, 133, 186, 61, 202, 94, 155, 159, 10,
  21, 121, 43, 78, 212, 229, 172, 115, 243, 167, 87, 7, 112, 192, 247, 140, 128, 99, 13,
  103, 74, 222, 237, 49, 197, 254, 24, 227, 165, 153, 119, 38, 184, 180, 124, 17, 68, 146,
  217, 35, 32, 137, 46, 55, 63, 209, 91, 149, 188, 207, 205, 144, 135, 151, 178, 220, 252,
  190, 97, 242, 86, 211, 171, 20, 42, 93, 158, 132, 60, 57, 83, 71, 109, 65, 162, 31, 45,
  67, 216, 183, 123, 164, 118, 196, 23, 73, 236, 127, 12, 111, 246, 108, 161, 59, 82, 41,
  157, 85, 170, 251, 96, 134, 177, 187, 204, 62, 90, 203, 89, 95, 176, 156, 169, 160, 81,
  11, 245, 22, 235, 122, 117, 44, 215, 79, 174, 213, 233, 230, 231, 173, 232, 116, 214,
  244, 234, 168, 80, 88, 175>>

gf16 == [p |-> 15, exp |-> gf16_exp, log |-> gf16_log]
gf256 == [p |-> 255, exp |-> gf256_exp, log |-> gf256_log]

Exp(gf, n) == gf.exp[n + 1]
Log(gf, v) == gf.log[v + 1]
Times(gf, a, b) == IF a = 0 \/ b = 0 THEN 0 ELSE Exp(gf, (Log(gf, a) + Log(gf, b)) % gf.p)

(* The coefficients of x^0 to x^(n - 1). *)
Poly(n, Coefficient(_)) == Tuple([i \in 1..n |-> Coefficient(i - 1)])

(* dst + c * x^shift * src, over the exponents of dst. *)
poly_add(dst, src, c, shift, gf) ==
  Poly(Len(dst), LAMBDA i : dst[i + 1] ^^ (IF i < shift THEN 0
                                           ELSE Times(gf, src[i - shift + 1], c)))

poly_eval(s, x, gf) ==
  LET Term(i) == IF s[i] = 0 THEN 0 ELSE Exp(gf, (Log(gf, s[i]) + Log(gf, x) * (i - 1)) % gf.p)
  IN  IF x = 0 THEN s[1] ELSE XorAll(Term, DOMAIN s)

(* The shortest recurrence C of the n syndromes s. *)
berlekamp_massey(s, n, gf) ==
  LET One == Poly(n + 1, LAMBDA i : IF i = 0 THEN 1 ELSE 0)
      Step(st, k) ==
        LET d == s[k] ^^ XorAll(LAMBDA i : Times(gf, st.C[i + 1], s[k - i]), 1..st.L)
            C == poly_add(st.C, st.B, Exp(gf, (gf.p - Log(gf, st.b) + Log(gf, d)) % gf.p), st.m, gf)
        IN  IF d = 0 THEN [st EXCEPT !.m = @ + 1]
            ELSE IF 2 * st.L <= k - 1
              THEN [C |-> C, B |-> st.C, L |-> k - st.L, b |-> d, m |-> 1]
              ELSE [st EXCEPT !.C = C, !.m = @ + 1]
      after[k \in 0..n] ==
        IF k = 0 THEN [C |-> One, B |-> One, L |-> 0, b |-> 1, m |-> 1]
                 ELSE Step(after[k - 1], k)
  IN  after[n].C

-----------------------------------------------------------------------------
(* A block of bytes data[1..bs], the coefficient of x^0 last.              *)

block_syndromes(data, npar) ==
  LET bs == Len(data)
      At(i, j) == LET c == data[bs - j]
                  IN  IF c = 0 THEN 0 ELSE Exp(gf256, (Log(gf256, c) + i * j) % 255)
  IN  Poly(npar, LAMBDA i : XorAll(LAMBDA j : At(i, j), 0..(bs - 1)))
Nonzero(s) == \E i \in DOMAIN s : s[i] # 0

(* The error evaluator. *)
eloc_poly(s, sigma, npar) ==
  Poly(npar, LAMBDA k : XorAll(LAMBDA i : Times(gf256, sigma[i + 1], s[k - i + 2]), 0..k))

(* Flip what the locator points at, and accept a code word only. *)
correct_block(data, ecc) ==
  LET npar == ecc.bs - ecc.dw
      s == block_syndromes(data, npar)
      sigma == berlekamp_massey(s, npar, gf256)
      deriv == Poly(npar, LAMBDA i : IF Even(i) THEN sigma[i + 2] ELSE 0)
      omega == eloc_poly(s, sigma, npar - 1)
      Error(i) ==
        LET xinv == Exp(gf256, 255 - i)
        IN  IF poly_eval(sigma, xinv, gf256) # 0 THEN 0
            ELSE Exp(gf256, (255 - Log(gf256, poly_eval(deriv, xinv, gf256))
                                + Log(gf256, poly_eval(omega, xinv, gf256))) % 255)
      fixed == Tuple([k \in 1..ecc.bs |-> data[k] ^^ Error(ecc.bs - k)])
  IN  IF ~Nonzero(s) THEN [ok |-> TRUE, data |-> data]
      ELSE [ok |-> ~Nonzero(block_syndromes(fixed, npar)), data |-> fixed]

-----------------------------------------------------------------------------
(* The format word: five bits of data and ten of BCH(15, 5). *)

format_syndromes(u) == Poly(6, LAMBDA i : XorAll(LAMBDA j : Exp(gf16, ((i + 1) * j) % 15), u))

correct_format(u) ==
  LET s == format_syndromes(u)
      sigma == berlekamp_massey(s, 6, gf16)
      roots == {i \in 0..14 : poly_eval(sigma, Exp(gf16, 15 - i), gf16) = 0}
      fixed == SymDiff(u, roots)
  IN  IF ~Nonzero(s) THEN [ok |-> TRUE, u |-> u]
      ELSE [ok |-> ~Nonzero(format_syndromes(fixed)), u |-> fixed]

FormatMask == {1, 4, 10, 12, 14}
FormatXs == <<8, 8, 8, 8, 8, 8, 8, 8, 7, 5, 4, 3, 2, 1, 0>>
FormatYs == <<0, 1, 2, 3, 4, 5, 7, 8, 8, 8, 8, 8, 8, 8, 8>>

(* Where bit i of the word stands, in either copy. *)
FormatCell(size, which, i) ==
  IF which = 0 THEN <<FormatXs[i + 1], FormatYs[i + 1]>>
  ELSE IF i > 7 THEN <<8, size - 1 - (14 - i)>> ELSE <<size - 1 - i, 8>>

read_format(code, which) ==
  LET raw == {i \in 0..14 : FormatCell(code.size, which, i) \in code.black}
      r == correct_format(SymDiff(raw, FormatMask))
      Is(i) == IF i \in r.u THEN 1 ELSE 0
  IN  [ok |-> r.ok, ecc_level |-> Number(<<Is(14), Is(13)>>),
       mask |-> Number(<<Is(12), Is(11), Is(10)>>)]

-----------------------------------------------------------------------------
(* The grid. *)

(* Versions 1 to 7 of quirc_version_db; ecc levels count from 0. *)
Row(bytes, apat, ecc) ==
  [data_bytes |-> bytes, apat |-> apat,
   ecc |-> [l \in 0..3 |-> [bs |-> ecc[l + 1][1], dw |-> ecc[l + 1][2], ns |-> ecc[l + 1][3]]]]
quirc_version_db == <<
  Row(26, <<>>, <<<<26, 16, 1>>, <<26, 19, 1>>, <<26, 9, 1>>, <<26, 13, 1>>>>),
  Row(44, <<6, 18>>, <<<<44, 28, 1>>, <<44, 34, 1>>, <<44, 16, 1>>, <<44, 22, 1>>>>),
  Row(70, <<6, 22>>, <<<<70, 44, 1>>, <<70, 55, 1>>, <<35, 13, 2>>, <<35, 17, 2>>>>),
  Row(100, <<6, 26>>, <<<<50, 32, 2>>, <<100, 80, 1>>, <<25, 9, 4>>, <<50, 24, 2>>>>),
  Row(134, <<6, 30>>, <<<<67, 43, 2>>, <<134, 108, 1>>, <<33, 11, 2>>, <<33, 15, 2>>>>),
  Row(172, <<6, 34>>, <<<<43, 27, 4>>, <<86, 68, 2>>, <<43, 15, 4>>, <<43, 19, 4>>>>),
  Row(196, <<6, 22, 38>>, <<<<49, 31, 4>>, <<98, 78, 2>>, <<39, 13, 4>>, <<32, 14, 2>>>>)>>
Versions == 1..Len(quirc_version_db)
SizeOf(version) == version * 4 + 17

mask_bit(mask, i, j) ==
  CASE mask = 0 -> Even(i + j)
    [] mask = 1 -> Even(i)
    [] mask = 2 -> j % 3 = 0
    [] mask = 3 -> (i + j) % 3 = 0
    [] mask = 4 -> Even(i \div 2 + j \div 3)
    [] mask = 5 -> ((i * j) % 2) + ((i * j) % 3) = 0
    [] mask = 6 -> Even(((i * j) % 2) + ((i * j) % 3))
    [] mask = 7 -> Even(((i * j) % 3) + ((i + j) % 2))

(* The alignment coordinate near n: its index from 0, the last that fits. *)
Near(version, n) ==
  LET apat == quirc_version_db[version].apat
  IN  {a - 1 : a \in {b \in 1..Len(apat) : n - apat[b] \in -2..2}}

reserved_cell(version, i, j) ==
  LET size == SizeOf(version)
      ai == Near(version, i)
      aj == Near(version, j)
      last == Len(quirc_version_db[version].apat) - 1
  IN  \/ i < 9 /\ (j < 9 \/ j + 8 >= size)
      \/ i + 8 >= size /\ j < 9
      \/ i = 6 \/ j = 6
      \/ version >= 7 /\ ((i < 6 /\ j + 11 >= size) \/ (i + 11 >= size /\ j < 6))
      \/ /\ ai # {} /\ aj # {}
         /\ \/ Max(ai) \in 1..(last - 1)
            \/ Max(aj) \in 1..(last - 1)
            \/ Max(ai) = last /\ Max(aj) = last

(* read_data: up and down pairs of columns from the right, past column 6. *)
Walk(version) ==
  LET size == SizeOf(version)
      Pair(k) == LET x == size - 1 - 2 * k
                     right == IF x <= 6 THEN x - 1 ELSE x
                     y(n) == IF Even(k) THEN size - n ELSE n - 1
                 IN  [m \in 1..(2 * size) |-> <<right - ((m + 1) % 2), y((m + 1) \div 2)>>]
      All == FlattenSeq([k \in 1..((size - 1) \div 2) |-> Pair(k - 1)])
  IN  SelectSeq(All, LAMBDA c : ~reserved_cell(version, c[2], c[1]))

(* read_bit along the walk: the raw bytes, the last one short of a byte. *)
RawBits(code, version, mask) ==
  LET walk == Walk(version)
      Bit(c) == ((IF c \in code.black THEN 1 ELSE 0)
                 + (IF mask_bit(mask, c[2], c[1]) THEN 1 ELSE 0)) % 2
  IN  Tuple([n \in 1..Len(walk) |-> Bit(walk[n])])
RawByte(bits, n) == Number(SubSeq(bits, 8 * n + 1, 8 * n + 8))

(* codestream_ecc: take the blocks apart, correct each, join the data. *)
codestream_ecc(bits, version, level) ==
  LET row == quirc_version_db[version]
      sb == row.ecc[level]
      lb_count == (row.data_bytes - sb.bs * sb.ns) \div (sb.bs + 1)
      bc == lb_count + sb.ns
      ecc_offset == sb.dw * bc + lb_count
      Ecc(i) == IF i < sb.ns THEN sb ELSE [sb EXCEPT !.dw = @ + 1, !.bs = @ + 1]
      From(i, j) == IF j < Ecc(i).dw THEN j * bc + i ELSE ecc_offset + (j - Ecc(i).dw) * bc + i
      Block(i) == Tuple([j \in 1..Ecc(i).bs |-> RawByte(bits, From(i, j - 1))])
      blocks == Tuple([i \in 1..bc |-> correct_block(Block(i - 1), Ecc(i - 1))])
  IN  [ok |-> \A i \in 1..bc : blocks[i].ok,
       data |-> FlattenSeq([i \in 1..bc |-> SubSeq(blocks[i].data, 1, Ecc(i - 1).dw)])]

-----------------------------------------------------------------------------
(* The payload: a stream of bits not read yet, and what they said so far.  *)

MaxPayload == 8896
AlphaMap == [i \in 1..10 |-> 47 + i] \o [i \in 1..26 |-> 64 + i]
              \o <<32, 36, 37, 42, 43, 45, 46, 47, 58>>

(* take_bits: fewer when the stream ends. *)
Taken(st, n) == Number(SubSeq(st.bits, 1, Min({n, Len(st.bits)})))
Skip(st, n) == [st EXCEPT !.bits = SubSeq(@, n + 1, Len(@))]
Fails(st, why) == [st EXCEPT !.err = why]

(* The width of a count: by version below 10, below 27, and from there. *)
Width(version, w) == w[IF version < 10 THEN 1 ELSE IF version < 27 THEN 2 ELSE 3]

(* numeric_tuple and alpha_tuple: n characters out of one number. *)
Characters(number, n, map) ==
  [i \in 1..n |-> map[((number \div Len(map)^(n - i)) % Len(map)) + 1]]

(* Groups of characters, of as many bits as widths says for their number.  *)
RECURSIVE Groups(_, _, _, _)
Groups(st, count, widths, map) ==
  LET n == Min({count, Len(widths)})
  IN  IF count = 0 THEN st
      ELSE IF Len(st.bits) < widths[n] THEN Fails(st, "underflow")
      ELSE Groups(Skip([st EXCEPT !.payload = @ \o Characters(Taken(st, widths[n]), n, map)],
                       widths[n]),
                  count - n, widths, map)

(* Items of a fixed width, all there or none. *)
Items(st, count, width, Bytes(_)) ==
  IF Len(st.bits) < count * width THEN Fails(st, "underflow")
  ELSE LET Item(i) == Bytes(Number(SubSeq(st.bits, width * (i - 1) + 1, width * i)))
       IN  Skip([st EXCEPT !.payload = @ \o FlattenSeq([i \in 1..count |-> Item(i)])],
                count * width)

(* A two-byte character: 13 bits, in one of two ranges. *)
Kanji(d) == LET code == (d \div 192) * 256 + (d % 192)
                sjw == code + (IF code + 33088 <= 40956 THEN 33088 ELSE 49472)
            IN  <<(sjw \div 256) % 256, sjw % 256>>

Counted(st, version, widths, bytesPer, Decode(_, _)) ==
  LET w == Width(version, widths)
      count == Taken(st, w)
  IN  IF Len(st.payload) + count * bytesPer + 1 > MaxPayload THEN Fails(st, "overflow")
      ELSE Decode(Skip(st, w), count)

decode_numeric(st, version) ==
  Counted(st, version, <<10, 12, 14>>, 1,
          LAMBDA s, n : Groups(s, n, <<4, 7, 10>>, SubSeq(AlphaMap, 1, 10)))
decode_alpha(st, version) ==
  Counted(st, version, <<9, 11, 13>>, 1, LAMBDA s, n : Groups(s, n, <<6, 11>>, AlphaMap))
decode_byte(st, version) ==
  Counted(st, version, <<8, 16, 16>>, 1, LAMBDA s, n : Items(s, n, 8, LAMBDA b : <<b>>))
decode_kanji(st, version) ==
  Counted(st, version, <<8, 10, 12>>, 2, LAMBDA s, n : Items(s, n, 13, Kanji))

decode_eci(st) ==
  LET first == Taken(st, 8)
      more == IF first \div 64 = 2 THEN 8 ELSE IF first \div 32 = 6 THEN 16 ELSE 0
      s == Skip(st, 8)
  IN  IF Len(st.bits) < 8 + more THEN Fails(st, "underflow")
      ELSE Skip([st EXCEPT !.eci = first * 2^more + Taken(s, more)], 8 + more)

Segment(st, type, version) ==
  CASE type = 1 -> decode_numeric(st, version)
    [] type = 2 -> decode_alpha(st, version)
    [] type = 4 -> decode_byte(st, version)
    [] type = 7 -> decode_eci(st)
    [] type = 8 -> decode_kanji(st, version)

(* Segments until the terminator, an unknown type or an error. *)
RECURSIVE decode_payload(_, _)
decode_payload(st, version) ==
  LET type == Taken(st, 4)
      s == Segment(Skip(st, 4), type, version)
  IN  IF Len(st.bits) < 4 \/ type \notin {1, 2, 4, 7, 8} THEN st
      ELSE IF s.err # "none" THEN s
      ELSE decode_payload([s EXCEPT !.type = IF type = 7 THEN @ ELSE Max({@, type})], version)

BitsOf(bytes) ==
  FlattenSeq([i \in 1..Len(bytes) |-> [b \in 1..8 |-> (bytes[i] \div 2^(8 - b)) % 2]])
Stream(bits) == [bits |-> bits, payload |-> <<>>, type |-> 0, eci |-> 0, err |-> "none"]

(* quirc_decode *)
quirc_decode(code) ==
  LET version == (code.size - 17) \div 4
      first == read_format(code, 0)
      format == IF first.ok THEN first ELSE read_format(code, 1)
      data == codestream_ecc(RawBits(code, version, format.mask), version, format.ecc_level)
  IN  IF code.size > 177 \/ (code.size - 17) % 4 # 0 THEN Fails(Stream(<<>>), "grid size")
      ELSE IF version \notin 1..40 THEN Fails(Stream(<<>>), "version")
      ELSE IF ~format.ok THEN Fails(Stream(<<>>), "format")
      ELSE IF ~data.ok THEN Fails(Stream(<<>>), "data")
      ELSE decode_payload(Stream(BitsOf(data.data)), version)
=============================================================================
