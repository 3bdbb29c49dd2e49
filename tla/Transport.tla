------------------------------- MODULE Transport -------------------------------
(***************************************************************************)
(* The encrypted AgentBus connection: the device's net.c and crypto.c      *)
(* against the host's server/index.ts (with EncryptingSink), connection.ts *)
(* and the decoders of protocol/secureFrame.ts and frames.ts.              *)
(*                                                                         *)
(* The device has one socket and makes one connection after another; the   *)
(* host keeps a state per connection until its socket closes, so an old    *)
(* one may outlive the device's interest in it.  conn[c] holds the host's  *)
(* state of connection c and the bytes in flight both ways.                *)
(*                                                                         *)
(* Bytes: a sealed record is two pieces, so a write or a read may cut it.  *)
(* AEAD is symbolic: a record opens only under its own direction, epoch    *)
(* and counter, and only whole.  Every record carries one frame, as both   *)
(* senders make them.  The epoch a host mints is the connection's number.  *)
(* A record over the size cap takes the watermark's path (onFatal).        *)
(***************************************************************************)
EXTENDS Naturals, Sequences, SequencesExt, FiniteSets

CONSTANTS MaxConns,    \* bound: connections the device makes
          MaxDown,     \* bound: frames the host application sends per connection
          MaxUp,       \* bound: frames the device sends per connection
          RxCap,       \* RXBUF, in pieces
          SockCap,     \* what the host's socket buffers, in pieces
          Watermark    \* SINK_HIGH_WATERMARK, in pieces

ASSUME TransportAssumption ==
  /\ MaxConns \in Nat \ {0} /\ MaxDown \in Nat /\ MaxUp \in Nat
  /\ RxCap \in Nat /\ RxCap >= 2          \* a maximal record fits the buffer
  /\ SockCap \in Nat \ {0} /\ Watermark \in Nat \ {0}

VARIABLES dev,     \* net.c's statics; sock 0 is the code's -1
          conn,    \* per connection: the host's ConnState and the wire
          made,    \* how many connections the device has made
          broken,  \* the connections the network has cut
          token    \* whether the pairing token of this device is the host's

vars == <<dev, conn, made, broken, token>>

Conns == 1..MaxConns
Attach == "attach"
ClientSize == "client_size"
Keys == "keys"
Hello == "hello"
Error == "error"
Data == "data"

(* The last connection the bound allows meets no fault, so that liveness   *)
(* may be asked of it.                                                     *)
MayFail(c) == c < MaxConns

-----------------------------------------------------------------------------
(* Records and pieces.                                                     *)

Frame(type, n) == [type |-> type, n |-> n]
Clear == "clear"
Up == "up"
Down == "down"

(* ab_seal_frame, sealRecord: the AAD binds direction, epoch and counter.  *)
Seal(dir, epoch, seq, frame) ==
  LET rec == [dir |-> dir, epoch |-> epoch, seq |-> seq, frame |-> frame]
  IN  <<[rec |-> rec, part |-> 1], [rec |-> rec, part |-> 2]>>

(* The cleartext epoch, the first bytes of a connection. *)
EpochPiece(c) == [rec |-> [dir |-> Clear, epoch |-> c, seq |-> 0, frame |-> Frame(Clear, 0)],
                  part |-> 1]

(* ab_open_frame, openRecord. *)
Opens(record, dir, epoch, seq) ==
  \E frame \in {record[1].rec.frame} : record = Seal(dir, epoch, seq, frame)

(* A decoder that forgets the record it has begun. *)
RestForgets(buf) == <<>>

(* The whole records at the front of a buffer, and what is left of it. *)
Records(buf) == [i \in 1..(Len(buf) \div 2) |-> SubSeq(buf, 2 * i - 1, 2 * i)]
Rest(buf) == SubSeq(buf, 2 * (Len(buf) \div 2) + 1, Len(buf))

-----------------------------------------------------------------------------
(* Host: EncryptingSink, Connection and the server's routing.  The         *)
(* operators map a connection record to its successor.                     *)

NoConn == [st |-> "none", authed |-> FALSE, closed |-> FALSE, ended |-> FALSE,
           timer |-> FALSE, sendSeq |-> 0, recvSeq |-> 0,
           pending |-> <<>>, dec |-> <<>>, down |-> <<>>, up |-> <<>>,
           sentDown |-> <<>>, gotDown |-> <<>>, sentUp |-> <<>>, gotUp |-> <<>>]

(* drop: the queue goes, the socket is half-closed. *)
DropConn(k) == [k EXCEPT !.timer = FALSE, !.closed = TRUE, !.ended = TRUE]

SmallerOf(a, b) == IF a < b THEN a ELSE b

(* A flush that forgets that part of its bytes were taken. *)
FlushResends(k) ==
  LET room == IF k.ended THEN 0 ELSE SmallerOf(Len(k.pending), SockCap - Len(k.down))
  IN  [k EXCEPT !.down = @ \o SubSeq(k.pending, 1, room),
                !.pending = IF room = Len(@) THEN <<>> ELSE @]

(* flushPending: the socket takes what it has room for. *)
FlushPending(k) ==
  LET room == IF k.ended THEN 0 ELSE SmallerOf(Len(k.pending), SockCap - Len(k.down))
  IN  [k EXCEPT !.down = @ \o SubSeq(k.pending, 1, room),
                !.pending = SubSeq(@, room + 1, Len(@))]

(* A sink without the watermark, and one that drops the frame the socket   *)
(* has no room for.                                                        *)
HostSendsUnbounded(k, c, type) ==
  LET frame == Frame(type, Len(k.sentDown) + 1)
  IN  IF k.closed THEN k
      ELSE FlushPending([k EXCEPT !.sentDown = Append(@, frame), !.sendSeq = @ + 1,
                                  !.pending = @ \o Seal(Down, c, k.sendSeq, frame)])
HostSendsLossy(k, c, type) ==
  LET frame == Frame(type, Len(k.sentDown) + 1)
  IN  IF k.closed THEN k
      ELSE IF SockCap - Len(k.down) < 2
      THEN [k EXCEPT !.sentDown = Append(@, frame)]
      ELSE FlushPending([k EXCEPT !.sentDown = Append(@, frame), !.sendSeq = @ + 1,
                                  !.pending = @ \o Seal(Down, c, k.sendSeq, frame)])

(* Connection.send, flush and EncryptingSink.write: the sink takes every   *)
(* frame whole, so the connection's own queue is empty again.              *)
HostSends(k, c, type) ==
  LET frame  == Frame(type, Len(k.sentDown) + 1)
      queued == [k EXCEPT !.sentDown = Append(@, frame), !.sendSeq = @ + 1,
                          !.pending = @ \o Seal(Down, c, k.sendSeq, frame)]
  IN  IF k.closed THEN k
      ELSE IF Len(queued.pending) > Watermark THEN DropConn(queued)
      ELSE FlushPending(queued)

Refuse(k, c) == [HostSends(k, c, Error) EXCEPT !.ended = TRUE]

(* route *)
Route(k, c, frame) ==
  IF k.authed THEN [k EXCEPT !.gotUp = Append(@, frame)]           \* onFrame
  ELSE IF frame.type # Attach \/ token # "good" THEN Refuse(k, c)
  ELSE HostSends([k EXCEPT !.authed = TRUE, !.timer = FALSE,
                           !.gotUp = Append(@, frame)], c, Hello)   \* onAttach

(* The body of data()'s loop; Connection.feed ignores what comes after     *)
(* close().                                                                *)
ServeRecord(k, c, record) ==
  IF ~Opens(record, Up, c, k.recvSeq) THEN DropConn(k)
  ELSE LET opened == [k EXCEPT !.recvSeq = @ + 1]
       IN  IF k.closed THEN opened ELSE Route(opened, c, record[1].rec.frame)

ServeRecords(k, c, records) ==
  LET Serve(k1, record) == ServeRecord(k1, c, record)
  IN  FoldLeft(Serve, k, records)

-----------------------------------------------------------------------------
(* Device: net.c.  w is a pair of the device's statics and the connection  *)
(* they are on.                                                            *)

Offline == [sock |-> 0, waiting |-> FALSE, epoch |-> 0, sendSeq |-> 0, recvSeq |-> 0,
            rx |-> <<>>]

(* A disconnect that keeps the record counter. *)
DisconnectKeepsSeq(d) == [Offline EXCEPT !.sendSeq = d.sendSeq]

(* ab_net_disconnect *)
Disconnect(d) == Offline

(* ab_net_send and send_sealed, which writes `written` of the record's two *)
(* pieces.  A failing send may have written part of its record; the device *)
(* then disconnects.                                                       *)
DeviceSends(w, type, written) ==
  LET frame  == Frame(type, Len(w.k.sentUp) + 1)
      record == Seal(Up, w.d.epoch, w.d.sendSeq, frame)
  IN  IF w.d.sock = 0 THEN w
      ELSE IF written = 2
      THEN [d |-> [w.d EXCEPT !.sendSeq = @ + 1],
            k |-> [w.k EXCEPT !.up = @ \o record, !.sentUp = Append(@, frame)]]
      ELSE [d |-> Disconnect(w.d),
            k |-> [w.k EXCEPT !.up = @ \o SubSeq(record, 1, written),
                              !.sentUp = Append(@, frame)]]

(* One record of poll_sealed's loop.  HELLO's handler answers with         *)
(* CLIENT_SIZE from inside the callback: if that send fails, the device is *)
(* disconnected and no later record of the buffer opens (epoch 0).         *)
PollRecord(w, record, written) ==
  IF w.d.sock = 0 THEN w
  ELSE IF ~Opens(record, Down, w.d.epoch, w.d.recvSeq) THEN [w EXCEPT !.d = Disconnect(w.d)]
  ELSE LET frame  == record[1].rec.frame
           opened == [d |-> [w.d EXCEPT !.recvSeq = @ + 1],
                      k |-> [w.k EXCEPT !.gotDown = Append(@, frame)]]
       IN  IF frame.type = Hello THEN DeviceSends(opened, ClientSize, written)
                                 ELSE opened

PollRecords(w, records, written) ==
  LET Poll(w1, record) == PollRecord(w1, record, written)
  IN  FoldLeft(Poll, w, records)

-----------------------------------------------------------------------------
Init ==
  /\ dev = Offline
  /\ conn = [c \in Conns |-> NoConn]
  /\ made = 0
  /\ broken = {}
  /\ token \in {"good", "bad"}

(* Whether an operation on the device's socket may fail, and how many      *)
(* pieces of a record a send may have written when it returns.             *)
Fails(c) == c \in broken \/ conn[c].ended \/ conn[c].st = "gone"
Outcomes(c) == IF Fails(c) THEN 0..2 ELSE {2}

Update(c, w) == /\ dev' = w.d
                /\ conn' = [conn EXCEPT ![c] = w.k]

(* ab_net_connect up to the epoch: the TCP connection is made. *)
DevConnect ==
  /\ dev.sock = 0
  /\ made < MaxConns
  /\ made' = made + 1
  /\ dev' = [Disconnect(dev) EXCEPT !.sock = made + 1, !.waiting = TRUE]
  /\ UNCHANGED <<conn, broken, token>>

(* recv_exact gets the epoch; main.c then sends ATTACH. *)
DevEpoch ==
  LET c == dev.sock IN
  /\ dev.waiting
  /\ conn[c].down # <<>>
  /\ \E written \in Outcomes(c) :
       Update(c, DeviceSends(
         [d |-> [dev EXCEPT !.waiting = FALSE, !.epoch = conn[c].down[1].rec.epoch],
          k |-> [conn[c] EXCEPT !.down = Tail(@)]], Attach, written))
  /\ UNCHANGED <<made, broken, token>>

(* recv_exact gives up: the budget is spent, or the host closed. *)
DevEpochFails ==
  /\ dev.waiting
  /\ MayFail(dev.sock) \/ Fails(dev.sock)
  /\ dev' = Disconnect(dev)
  /\ UNCHANGED <<conn, made, broken, token>>

(* A key press: ab_net_send from the main loop. *)
DevSend ==
  LET c == dev.sock IN
  /\ c # 0 /\ ~dev.waiting
  /\ Len(conn[c].sentUp) < MaxUp
  /\ \E written \in Outcomes(c) :
       Update(c, DeviceSends([d |-> dev, k |-> conn[c]], Keys, written))
  /\ UNCHANGED <<made, broken, token>>

(* ab_net_poll: recv takes n pieces, then every whole record is opened.    *)
DevPoll ==
  LET c == dev.sock IN
  /\ c # 0 /\ ~dev.waiting
  /\ \E n \in 1..SmallerOf(Len(conn[c].down), RxCap - Len(dev.rx)),
        written \in Outcomes(c) :
       LET rx == dev.rx \o SubSeq(conn[c].down, 1, n)
           k  == [conn[c] EXCEPT !.down = SubSeq(@, n + 1, Len(@))]
           w  == PollRecords([d |-> dev, k |-> k], Records(rx), written)
       IN  Update(c, IF w.d.sock = 0 THEN w ELSE [w EXCEPT !.d.rx = Rest(rx)])
  /\ UNCHANGED <<made, broken, token>>

(* recv returns 0 or an error. *)
DevLost ==
  /\ dev.sock # 0 /\ ~dev.waiting
  /\ Fails(dev.sock)
  /\ dev' = Disconnect(dev)
  /\ UNCHANGED <<conn, made, broken, token>>

(* open: the connection's state, the cleartext epoch, the attach timer. *)
HostOpen(c) ==
  /\ c <= made /\ conn[c].st = "none"
  /\ conn' = [conn EXCEPT ![c].st = "open", ![c].timer = TRUE,
                          ![c].down = <<EpochPiece(c)>>]
  /\ UNCHANGED <<dev, made, broken, token>>

(* data: a chunk of n pieces. *)
HostData(c) ==
  /\ conn[c].st = "open"
  /\ \E n \in 1..Len(conn[c].up) :
       LET buf == conn[c].dec \o SubSeq(conn[c].up, 1, n)
           k   == [conn[c] EXCEPT !.up = SubSeq(@, n + 1, Len(@)), !.dec = Rest(buf)]
       IN  conn' = [conn EXCEPT ![c] = ServeRecords(k, c, Records(buf))]
  /\ UNCHANGED <<dev, made, broken, token>>

(* The application sends a frame on a connection it was given by onAttach. *)
HostApp(c) ==
  /\ conn[c].authed /\ conn[c].st = "open"
  /\ Len(conn[c].sentDown) < MaxDown
  /\ conn' = [conn EXCEPT ![c] = HostSends(@, c, Data)]
  /\ UNCHANGED <<dev, made, broken, token>>

(* drain: the socket has room again after a short write. *)
HostDrain(c) ==
  /\ conn[c].st = "open"
  /\ conn[c].pending # <<>> /\ ~conn[c].ended
  /\ Len(conn[c].down) < SockCap
  /\ conn' = [conn EXCEPT ![c] = FlushPending(@)]
  /\ UNCHANGED <<dev, made, broken, token>>

TimerFires(k) == [IF k.authed THEN k ELSE DropConn(k) EXCEPT !.timer = FALSE]

(* The attach timer. *)
HostTimer(c) ==
  /\ conn[c].st = "open" /\ conn[c].timer
  /\ MayFail(c) \/ token = "bad"
  /\ conn' = [conn EXCEPT ![c] = TimerFires(@)]
  /\ UNCHANGED <<dev, made, broken, token>>

(* close and error callbacks: the device left, the host ended it, or the   *)
(* network failed.                                                         *)
HostClose(c) ==
  /\ conn[c].st = "open"
  /\ dev.sock # c \/ conn[c].ended \/ c \in broken
  /\ conn' = [conn EXCEPT ![c].st = "gone", ![c].closed = TRUE, ![c].timer = FALSE,
                          ![c].up = <<>>, ![c].dec = <<>>]
  /\ UNCHANGED <<dev, made, broken, token>>

NetworkCuts(c) ==
  /\ MayFail(c) /\ dev.sock = c /\ c \notin broken
  /\ broken' = broken \cup {c}
  /\ UNCHANGED <<dev, conn, made, token>>

(* The device's frame loop, and the host's socket callbacks. *)
DevLoop == DevConnect \/ DevEpoch \/ DevEpochFails \/ DevPoll \/ DevLost
HostSocket(c) == HostOpen(c) \/ HostData(c) \/ HostDrain(c) \/ HostClose(c)

Next ==
  \/ DevLoop \/ DevSend
  \/ \E c \in Conns : HostSocket(c) \/ HostApp(c) \/ HostTimer(c) \/ NetworkCuts(c)

Spec == Init /\ [][Next]_vars

(* The frame loop keeps running, and the event loop serves the last        *)
(* connection; nothing is asked of it for the earlier ones.  Key presses,  *)
(* the application's frames, the attach timer and the faults are under no  *)
(* fairness.                                                               *)
Fairness == WF_vars(DevLoop) /\ WF_vars(HostSocket(MaxConns))

FairSpec == Spec /\ Fairness

-----------------------------------------------------------------------------
Streams == Conns \X {Up, Down}
Handed(c, dir) == IF dir = Up THEN conn[c].sentUp ELSE conn[c].sentDown
Given(c, dir)  == IF dir = Up THEN conn[c].gotUp ELSE conn[c].gotDown

Delivered == INSTANCE Delivery
  WITH sent <- [s \in Streams |-> Handed(s[1], s[2])],
       got  <- [s \in Streams |-> Given(s[1], s[2])]

Piece == {"part", "rec"}

(* The types, and the bounds of the two buffers: what the host holds back  *)
(* for an open connection stays within the watermark, and the device's     *)
(* receive buffer always has room when poll calls recv (a recv of no bytes *)
(* returns 0, which net.c takes for the host's close).                     *)
TypeOK ==
  /\ dev.sock \in 0..made /\ dev.epoch \in 0..made /\ dev.waiting \in BOOLEAN
  /\ dev.sendSeq \in Nat /\ dev.recvSeq \in Nat
  /\ Len(dev.rx) < RxCap
  /\ made \in 0..MaxConns /\ broken \subseteq Conns /\ token \in {"good", "bad"}
  /\ \A c \in Conns :
       LET k == conn[c] IN
         /\ k.st \in {"none", "open", "gone"}
         /\ {k.authed, k.closed, k.ended, k.timer} \subseteq BOOLEAN
         /\ k.sendSeq \in Nat /\ k.recvSeq \in Nat
         /\ Len(k.pending) <= IF k.closed THEN Watermark + 2 ELSE Watermark
         /\ Len(k.down) <= SockCap
         /\ \A i \in DOMAIN k.pending : DOMAIN k.pending[i] = Piece

(* Each direction of each connection is a FIFO that may lose its tail:     *)
(* nothing is repeated, reordered, skipped, or taken from an earlier       *)
(* connection, across partial writes, partial reads, drops and reconnects. *)
Delivers == Delivered!Spec

(* On the device's connection the two record counters of a direction       *)
(* differ by exactly the records between them, at every cut of a record:   *)
(* no record is repeated or cut short, so none is refused later.           *)
CountersAgree ==
  LET c == dev.sock IN
  c # 0 /\ ~dev.waiting /\ conn[c].st = "open" =>
    /\ Len(dev.rx) + Len(conn[c].down) + Len(conn[c].pending)
         = 2 * (conn[c].sendSeq - dev.recvSeq)
    /\ Len(conn[c].dec) + Len(conn[c].up) = 2 * (dev.sendSeq - conn[c].recvSeq)

(* A connection whose device has attached is closed by the host only when  *)
(* the device left, the network failed or the device stopped draining: the *)
(* attach timer that races a late ATTACH never takes it.  The frames here   *)
(* are the device's own, which parse: the host's answer to one its decoder *)
(* or a handler throws at (server/index.ts:219-226: ERROR, then the end)   *)
(* is left out.                                                            *)
AttachedStays ==
  [][\A c \in Conns :
       conn[c].authed /\ ~conn[c].closed /\ conn'[c].closed =>
         dev.sock # c \/ c \in broken \/ Len(conn'[c].pending) > Watermark]_vars

(* Whatever became of the earlier connections, on a connection without     *)
(* faults a device with the right token is greeted, unless the host        *)
(* dropped it for not draining.                                            *)
EventuallyGreeted ==
  token = "good" =>
    (dev.sock = MaxConns
       ~> \/ \E i \in DOMAIN conn[MaxConns].gotDown : conn[MaxConns].gotDown[i].type = Hello
          \/ Len(conn[MaxConns].pending) > Watermark)

=============================================================================
