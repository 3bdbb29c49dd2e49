----------------------------- MODULE TextChecks -----------------------------
(* Text on every short input over the letters its grammars tell apart.        *)
EXTENDS Text

(* What the escaper writes into any buffer, the scanner reads back: all of  *)
(* the text if the buffer is wide enough, else the head of it.              *)
ASSUME EscapeRoundTrip ==
  \A s \in BoundedSeq({"a", "n", "\n", Quote, Backslash}, 3) : \A size \in 1..9 :
    LET e == Escape(s, size)
        got == GetString(<<Quote, "k", Quote, ":", Quote>> \o e \o <<Quote, "}">>, <<"k">>, 99)
    IN  /\ Len(e) < size
        /\ got.found /\ IsPrefix(got.text, s)
        /\ size > 2 * Len(s) + 1 => got.text = s

(* A value that reads like a key hides it: the field after it is missed. *)
ASSUME ValuesHideKeys ==
  LET json == <<Quote, "n", Quote, ":", Quote, "s", Quote, ",", Quote, "s", Quote, ":",
                Quote, "x", Quote>>
  IN  ~GetString(json, <<"s">>, 9).found /\ GetString(json, <<"n">>, 9).text = <<"s">>

UriLetters == {"1", "A", "@", ":", "?", TokenIs, "\n"}
Uris == {<<Scheme>> \o u : u \in BoundedSeq(UriLetters, 5)}

(* A URI the device accepts within its buffers means the same to the host, *)
(* and the device refuses what the host refuses.                            *)
ASSUME ParsersAgree ==
  \A uri \in Uris :
    LET device == ParseUri(uri)
        host == HostParseUri(uri)
        fits == Len(host.cfg.host) < Room /\ Len(host.cfg.token) < Room
    IN  device = IF host.ok /\ ~fits THEN Refused ELSE host

(* What was accepted is written and read back: verbatim as a URI, and from *)
(* the card unless a line ends within it.                                   *)
ASSUME PairingsReturn ==
  \A uri \in Uris :
    LET r == ParseUri(uri)
        oneLine == "\n" \notin ToSet(r.cfg.host) \cup ToSet(r.cfg.token)
    IN  r.ok => ParseUri(ToUri(r.cfg)) = r /\ (SavedAndLoaded(r.cfg) = r <=> oneLine)

(* A port is read back from its digits at both ends of its range. *)
ASSUME PortsReturn ==
  /\ \A p \in {1, 9, 10, 41337, 65535} : Port(Decimal[p]) = p
  /\ Port(<<"6", "5", "5", "3", "6">>) = -1
  /\ Port(<<"0", "0", "0", "0", "0", "1">>) = 1

(* Keys: all the digits or none, capitals as good as small letters. *)
ASSUME KeysDecode ==
  /\ KeyFromHex(<<"0", "f", "F", "a">>, 2) = [ok |-> TRUE, key |-> <<15, 250>>]
  /\ ~KeyFromHex(<<"0", "f", "F">>, 2).ok /\ ~KeyFromHex(<<"0", "g", "F", "a">>, 2).ok
  /\ HexDecode(<<"0", "1", "a", "g", "f", "f">>, 9) = <<1>>
  /\ HexDecode(<<"0", "1", "a", "b">>, 1) = <<1>>

(* Grey values stay in a byte, keep both ends, and grow with each channel. *)
ASSUME GreyIsMonotone ==
  /\ Luma(0, 0, 0) = 0 /\ Luma(31, 63, 31) = 255
  /\ \A r, b \in {0, 1, 15, 30} : \A g \in {0, 1, 31, 62} :
       Luma(r, g, b) <= Min({Luma(r + 1, g, b), Luma(r, g + 1, b), Luma(r, g, b + 1)})
=============================================================================
