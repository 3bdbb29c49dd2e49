------------------------------- MODULE Delivery -------------------------------
(***************************************************************************)
(* What the transport promises in each direction of each connection: the   *)
(* receiver gets a prefix of what the sender handed over on that very      *)
(* connection, in order, nothing twice and nothing from another            *)
(* connection.  What is missing at the end was lost with the connection.   *)
(***************************************************************************)
EXTENDS Naturals, Sequences, SequencesExt

CONSTANT Streams      \* one per connection and direction

VARIABLES sent, got   \* [Streams -> Seq(frame)]

streams == <<sent, got>>

Init == /\ sent = [s \in Streams |-> <<>>]
        /\ got = [s \in Streams |-> <<>>]

(* One step of one end of the network: frames are handed over, whole       *)
(* frames come out.                                                        *)
Transfer ==
  /\ DOMAIN sent' = Streams /\ DOMAIN got' = Streams
  /\ \A s \in Streams : /\ IsPrefix(sent[s], sent'[s])
                        /\ IsPrefix(got[s], got'[s])
                        /\ IsPrefix(got'[s], sent'[s])

Next == Transfer

Spec == Init /\ [][Next]_streams

=============================================================================
