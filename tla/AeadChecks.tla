----------------------------- MODULE AeadChecks -----------------------------
(* Aead on known answers, at the edges of its arithmetic, and on records     *)
(* that were altered or are replayed at another place of the stream.         *)
EXTENDS Aead

Key == Tuple([i \in 1..32 |-> i - 1])
Nonce == Tuple([i \in 1..24 |-> 63 + i])
KatAd == <<51, 100, 115, 101, 110, 100, 97, 105, 45, 107, 97, 116>>
KatPlain == <<51, 100, 115, 101, 110, 100, 97, 105, 32, 75, 65, 84, 32, 118, 49>>

(* The known answer both sides are tested against. *)
ASSUME KnownAnswer ==
  Lock[Key, Nonce, KatAd, KatPlain]
    = [cipher |-> <<231, 93, 118, 21, 190, 132, 24, 127, 175, 191, 198, 234, 143, 234, 84>>,
       mac |-> <<181, 178, 116, 87, 235, 104, 170, 239, 126, 35, 54, 167, 197, 45, 111, 113>>]

(* A text that needs a second block of the tag, and one of none. *)
ASSUME LongAndShort ==
  \A n \in {0, 17} :
    LET plain == Tuple([i \in 1..n |-> i])
        s == Lock[Key, Nonce, <<>>, plain]
    IN  /\ Len(s.cipher) = n
        /\ Unlock[Key, Nonce, <<>>, s.cipher, s.mac] = [ok |-> TRUE, plain |-> plain]

(* The key stream goes on where the counter says it stopped. *)
ASSUME StreamGoesOn ==
  LET nonce == Slice(Nonce, 0, 8)
      whole == Stream(Zeros(65), Key, nonce, 1)
      head == Stream(Zeros(64), Key, nonce, 1)
  IN  /\ whole.text = head.text \o Stream(<<0>>, Key, nonce, head.ctr).text
      /\ whole.ctr = 3 /\ head.ctr = 2

(* Arithmetic at the modulus: p = 2^130 - 5 and its neighbours. *)
Top(low) == <<low>> \o Tuple([i \in 1..12 |-> Base - 1])
Small(n) == <<n>> \o Zeros(12)
FirstByte(n) == <<n>> \o Zeros(15)
ASSUME AtTheModulus ==
  LET Final(h) == Mac(Small(1), [h |-> h, c |-> <<>>], Zeros(13))
      minusOne == Top(Base - 6)
  IN  /\ Final(Top(Base - 5)) = FirstByte(0)
      /\ Final(Top(Base - 1)) = FirstByte(4)
      /\ Final(minusOne) = <<250>> \o Tuple([i \in 1..15 |-> 255])
      /\ Final(MulMod(minusOne, minusOne)) = FirstByte(1)
      /\ Final(AddMod(minusOne, Small(3))) = FirstByte(2)

(* Cutting a message in any two parts cuts the blocks it would be cut in at *)
(* once, whatever is already waiting in the open block.                    *)
ASSUME ChunksDoNotMatter ==
  LET Msg(n) == Tuple([i \in 1..n |-> i])
  IN  \A waiting \in {0, 1, 15} : \A n \in {0, 1, 15, 16, 17, 32, 33} : \A k \in 0..n :
        LET one == Chunks(Zeros(waiting), Msg(n))
            two == Chunks(Zeros(waiting), SubSeq(Msg(n), 1, k))
            more == Chunks(two.kept, SubSeq(Msg(n), k + 1, n))
        IN  /\ two.blocks \o more.blocks = one.blocks
            /\ more.kept = one.kept /\ Len(one.kept) < 16

Context == <<7, 8, 9>>
Plain == <<1, 2, 3>>
Record == SealFrame(Key, Context, DirUp, 1, 5, Nonce, Plain)
OpensAt(dir, epoch, seq, frame) == OpenFrame(Key, Context, dir, epoch, seq, frame).ok

(* A record opens where it was sealed and nowhere else: not for the other *)
(* direction, epoch or number, not cut, not altered in nonce, text or tag. *)
ASSUME RecordsStayInPlace ==
  LET Altered(i) == [Record EXCEPT ![i] = (@ + 1) % 256]
  IN  /\ OpenFrame(Key, Context, DirUp, 1, 5, Record) = [ok |-> TRUE, plain |-> Plain]
      /\ ~OpensAt(DirDown, 1, 5, Record) /\ ~OpensAt(DirUp, 2, 5, Record)
      /\ ~OpensAt(DirUp, 1, 4, Record) /\ ~OpensAt(DirUp, 1, 261, Record)
      /\ \A i \in {1, 24, 25, Len(Record)} : ~OpensAt(DirUp, 1, 5, Altered(i))
      /\ ~OpensAt(DirUp, 1, 5, Front(Record)) /\ ~OpensAt(DirUp, 1, 5, Zeros(Overhead - 1))

(* A reply is read by who asked with that challenge under that key, and a *)
(* probe is no reply.                                                      *)
ASSUME RepliesAnswerProbes ==
  LET magic == <<51, 68>>
      ask == <<11, 12>>
      reply == BuildReply(Key, magic, Context, ask, 41337, Nonce)
      probe == BuildProbe(Key, magic, Context, ask, Nonce)
      Read(key, challenge, d) == ParseReply(key, magic, Context, challenge, d)
  IN  /\ Read(Key, ask, reply) = [ok |-> TRUE, port |-> 41337]
      /\ ~Read(Key, <<11, 13>>, reply).ok
      /\ ~Read(Reverse(Key), ask, reply).ok
      /\ ~Read(Key, ask, probe).ok /\ ~Read(Key, ask, Append(reply, 0)).ok
      /\ ~Read(Key, ask, <<>>).ok
=============================================================================
