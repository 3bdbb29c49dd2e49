-------------------------------- MODULE Text --------------------------------
(***************************************************************************)
(* The device's text helpers: the JSON field scanner and escaper (json.c), *)
(* hexadecimal decoding (json.c, crypto.c), the pairing URI (paircfg.c)    *)
(* beside the host's parser of the same grammar (pair.ts), and the grey    *)
(* value of a camera pixel (cam.h).  A text is a sequence of characters; a *)
(* buffer of n bytes holds n - 1 of them.                                  *)
(***************************************************************************)
EXTENDS Integers, SequencesExt

Quote == "\""
Backslash == "\\"

(* The first position of t in s, 0 when it is nowhere: strstr. *)
Find(s, t) ==
  LET At(i) == SubSeq(s, i, i + Len(t) - 1) = t
      where == {i \in 1..(Len(s) - Len(t) + 1) : At(i)}
  IN  IF where = {} THEN 0 ELSE Min(where)

(* How many characters at the head of s pass the test: strspn. *)
Span(s, Test(_)) ==
  LET stops == {i \in 1..Len(s) : ~Test(s[i])}
  IN  IF stops = {} THEN Len(s) ELSE Min(stops) - 1

From(s, i) == SubSeq(s, i, Len(s))

-----------------------------------------------------------------------------
(* json.c *)

Escapes == [n |-> "\n", r |-> "\r", t |-> "\t"]
Unescaped(c) == IF c \in DOMAIN Escapes THEN Escapes[c] ELSE c

(* The body of a string value up to its closing quote or cap characters; a *)
(* backslash at the very end of the text stands for itself.                *)
Value(s, cap) ==
  LET Read(st, i) ==
        IF st.done \/ (Len(st.out) = cap /\ ~st.esc) THEN [st EXCEPT !.done = TRUE]
        ELSE IF st.esc THEN [st EXCEPT !.out = Append(@, Unescaped(s[i])), !.esc = FALSE]
        ELSE IF s[i] = Quote THEN [st EXCEPT !.done = TRUE]
        ELSE IF s[i] = Backslash /\ i < Len(s) THEN [st EXCEPT !.esc = TRUE]
        ELSE [st EXCEPT !.out = Append(@, s[i])]
  IN  FoldLeftDomain(Read, [out |-> <<>>, esc |-> FALSE, done |-> FALSE], s).out

(* json_get_string: the value after the first place where the quoted key   *)
(* stands, be it a key or a value.                                         *)
GetString(json, key, size) ==
  LET needle == <<Quote>> \o key \o <<Quote>>
      at == Find(json, needle)
      rest == From(json, at + Len(needle))
      value == From(rest, 1 + Span(rest, LAMBDA c : c \in {" ", ":"}))
  IN  IF size = 0 \/ at = 0 \/ value = <<>> \/ Head(value) # Quote
        THEN [found |-> FALSE, text |-> <<>>]
        ELSE [found |-> TRUE, text |-> Value(Tail(value), size - 1)]

EscapeOf(c) ==
  LET letters == {l \in DOMAIN Escapes : Escapes[l] = c}
  IN  IF c \in {Quote, Backslash} THEN <<Backslash, c>>
      ELSE IF letters = {} THEN <<c>> ELSE <<Backslash, CHOOSE l \in letters : TRUE>>

(* json_escape_string: stops where two more characters might not fit. *)
Escape(s, size) ==
  LET Add(st, c) == IF st.full \/ Len(st.out) + 2 >= size
                      THEN [st EXCEPT !.full = TRUE]
                      ELSE [st EXCEPT !.out = @ \o EscapeOf(c)]
  IN  FoldLeft(Add, [out |-> <<>>, full |-> FALSE], s).out

Digits == <<"0", "1", "2", "3", "4", "5", "6", "7", "8", "9">>
LowerHex == Digits \o <<"a", "b", "c", "d", "e", "f">>
UpperHex == Digits \o <<"A", "B", "C", "D", "E", "F">>
IsHex(c) == c \in ToSet(LowerHex) \cup ToSet(UpperHex)
Nibble(c) == (CHOOSE i \in 1..16 : c \in {LowerHex[i], UpperHex[i]}) - 1

Bytes(hex, n) == [i \in 1..n |-> 16 * Nibble(hex[2 * i - 1]) + Nibble(hex[2 * i])]

(* ab_hex_decode: whole pairs, up to the first that is not hexadecimal. *)
HexDecode(hex, cap) ==
  LET pairs == Span(hex, IsHex) \div 2
  IN  Bytes(hex, Min({pairs, cap}))

(* ab_key_from_hex: all or nothing. *)
KeyFromHex(hex, bytes) ==
  IF Len(hex) # 2 * bytes \/ Span(hex, IsHex) < Len(hex)
    THEN [ok |-> FALSE, key |-> <<>>]
    ELSE [ok |-> TRUE, key |-> Bytes(hex, bytes)]

-----------------------------------------------------------------------------
(* The pairing URI.  The scheme is one token, as is "token="; the key has *)
(* KeyDigits digits and a host or a token fits in Room characters.         *)

CONSTANTS KeyDigits, Room

Scheme == "3dsendai://"
TokenIs == "token="
NoPairing == [psk |-> <<>>, host |-> <<>>, port |-> 0, token |-> <<>>]
Refused == [ok |-> FALSE, cfg |-> NoPairing]

LowerDigit(c) == IF c \in ToSet(UpperHex) THEN LowerHex[Nibble(c) + 1] ELSE c

(* The decimal digits d, refused as soon as the number passes 65535. *)
Port(d) ==
  LET Add(n, c) == IF n < 0 \/ c \notin ToSet(Digits) THEN -1
                   ELSE IF n * 10 + Nibble(c) > 65535 THEN -1 ELSE n * 10 + Nibble(c)
  IN  FoldLeft(Add, 0, d)

(* The part after "@" and before "?": the last colon splits it. *)
HostPort(s) ==
  LET colons == {i \in 1..Len(s) : s[i] = ":"}
      colon == IF colons = {} THEN 0 ELSE Max(colons)
      port == Port(From(s, colon + 1))
  IN  [ok |-> colon > 1 /\ colon - 1 < Room /\ port >= 1,
       host |-> SubSeq(s, 1, colon - 1), port |-> port]

(* ab_paircfg_parse_uri *)
ParseUri(uri) ==
  LET body == IF uri = <<>> THEN <<>> ELSE Tail(uri)
      key == Span(body, LAMBDA c : c \notin {"@", "?"})
      psk == SubSeq(body, 1, key)
      afterKey == From(body, key + 1)
      hasHost == afterKey # <<>> /\ Head(afterKey) = "@"
      hostLen == IF hasHost THEN Span(Tail(afterKey), LAMBDA c : c # "?") ELSE 0
      hp == IF hasHost THEN HostPort(SubSeq(afterKey, 2, hostLen + 1))
                       ELSE [ok |-> TRUE, host |-> <<>>, port |-> 0]
      query == IF hasHost THEN From(afterKey, hostLen + 2) ELSE afterKey
      token == From(query, 3)
  IN  IF /\ uri # <<>> /\ Head(uri) = Scheme
         /\ key = KeyDigits /\ \A i \in 1..key : IsHex(psk[i])
         /\ hp.ok
         /\ query # <<>> => Len(query) > 2 /\ query[2] = TokenIs /\ Len(token) < Room
      THEN [ok |-> TRUE,
            cfg |-> [psk |-> [i \in 1..key |-> LowerDigit(psk[i])],
                     host |-> hp.host, port |-> hp.port,
                     token |-> IF query = <<>> THEN <<>> ELSE token]]
      ELSE Refused

Decimal[n \in 0..65535] ==
  IF n < 10 THEN <<Digits[n + 1]>> ELSE Append(Decimal[n \div 10], Digits[(n % 10) + 1])

(* ab_paircfg_to_uri *)
ToUri(c) ==
  <<Scheme>> \o c.psk
    \o (IF c.host = <<>> THEN <<>> ELSE <<"@">> \o c.host \o <<":">> \o Decimal[c.port])
    \o (IF c.token = <<>> THEN <<>> ELSE <<"?", TokenIs>> \o c.token)

(* What ab_paircfg_save writes and ab_paircfg_load reads back: one line. *)
FirstLine(s) == SubSeq(s, 1, Span(s, LAMBDA c : c \notin {"\n", "\r"}))
SavedAndLoaded(c) == ParseUri(FirstLine(Append(ToUri(c), "\n")))

(* parsePairUri of the host: splits at the first "?", then at the first    *)
(* "@"; a port has at most five digits and nothing else is bounded.        *)
HostParseUri(uri) ==
  LET rest == Tail(uri)
      q == Find(rest, <<"?">>)
      base == IF q = 0 THEN rest ELSE SubSeq(rest, 1, q - 1)
      query == IF q = 0 THEN <<>> ELSE From(rest, q + 1)
      at == Find(base, <<"@">>)
      psk == IF at = 0 THEN base ELSE SubSeq(base, 1, at - 1)
      hostPort == IF at = 0 THEN <<>> ELSE From(base, at + 1)
      colons == {i \in 1..Len(hostPort) : hostPort[i] = ":"}
      colon == IF colons = {} THEN 0 ELSE Max(colons)
      digits == From(hostPort, colon + 1)
      port == Port(digits)
  IN  IF /\ uri # <<>> /\ Head(uri) = Scheme
         /\ q # 0 => Len(query) > 1 /\ Head(query) = TokenIs
         /\ at # 0 => colon > 1 /\ Len(digits) \in 1..5 /\ port >= 1
         /\ Len(psk) = KeyDigits /\ \A i \in 1..Len(psk) : IsHex(psk[i])
      THEN [ok |-> TRUE,
            cfg |-> [psk |-> [i \in 1..Len(psk) |-> LowerDigit(psk[i])],
                     host |-> SubSeq(hostPort, 1, colon - 1),
                     port |-> IF at = 0 THEN 0 ELSE port,
                     token |-> IF q = 0 THEN <<>> ELSE Tail(query)]]
      ELSE Refused

-----------------------------------------------------------------------------
(* ab_cam_luma565: bit replication to 8 bits, then (77R + 150G + 29B) / 256. *)
Widen5(v) == v * 8 + v \div 4
Widen6(v) == v * 4 + v \div 16
Luma(r5, g6, b5) == (77 * Widen5(r5) + 150 * Widen6(g6) + 29 * Widen5(b5)) \div 256
=============================================================================
