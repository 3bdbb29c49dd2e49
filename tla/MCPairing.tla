------------------------------ MODULE MCPairing ------------------------------
(* Two hosts' keys.  The camera sees a pairing with an address and a token,   *)
(* and one with neither; the port of the address and the token each have a    *)
(* beginning that is one too.  The PSK of config.h is empty or malformed.      *)
EXTENDS Pairing, TextChecks, QrChecks, QrScanChecks

CONSTANTS k1, k2, a1, a2, t1, t1cut

Config3(k, a, t) == [psk |-> k, addr |-> a, token |-> t]

MCCodes == {Config3(k1, NoAddr, NoToken), Config3(k2, a1, t1)}
MCFallbacks == {Config3(k, a1, NoToken) : k \in {NoKey, BadKey}}
MCCutAddr == [a \in Addrs \cup {NoAddr} |-> IF a = a1 THEN {a2} ELSE {}]
MCCutToken == [t \in Tokens \cup {NoToken} |-> IF t = t1 THEN {t1cut} ELSE {}]

(* A pairing in the letters of Text: a2 is a1 less the last digit of its port, *)
(* and t1cut is t1 less its last letter.                                       *)
Letters(c) ==
  [psk   |-> IF c.psk = k1 THEN <<"1">> ELSE <<"2">>,
   host  |-> IF c.addr = NoAddr THEN <<>> ELSE <<"h">>,
   port  |-> IF c.addr = a1 THEN 41 ELSE IF c.addr = a2 THEN 4 ELSE 0,
   token |-> IF c.token = t1 THEN <<"x", "y">> ELSE IF c.token = t1cut THEN <<"x">> ELSE <<>>]

(* paircfg.c:97-129: what Pairing says a cut save leaves is what the parser *)
(* makes of the written line, wherever it ends: nothing more and no less.   *)
ASSUME CutsAreRead ==
  \A c \in Codes :
    LET line == Append(ToUri(Letters(c)), "\n")
    IN  {ParseUri(FirstLine(SubSeq(line, 1, n))) : n \in 0..Len(line)}
          = {IF f = Torn THEN Refused ELSE [ok |-> TRUE, cfg |-> Letters(f)] : f \in Beginnings(c)}
=============================================================================
