----------------------------- MODULE DurableBuffer -----------------------------
(***************************************************************************)
(* The bounded log of emitted frames (host/src/registry/durable.ts).  The  *)
(* registry records every frame it emits; a device that reconnects asks    *)
(* for everything after its cursor, the sequence number of the last frame  *)
(* it has seen.                                                            *)
(*                                                                         *)
(* A log is a record [items, seq].  An item is a frame with its number     *)
(* added.  What a replay returns is in the order of the numbers, so its    *)
(* frames are given as a set.                                              *)
(***************************************************************************)
EXTENDS Naturals, Sequences

CONSTANT Capacity   \* frames retained; DurableBuffer's default is 1000

ASSUME BufferAssumption == Capacity \in Nat

EmptyLog == [items |-> <<>>, seq |-> 0]

Numbered(frame, n) == [seq |-> n, frame |-> frame]

\* A bug: nothing is ever dropped.
RecordUnbounded(log, frame) ==
  [items |-> Append(log.items, Numbered(frame, log.seq + 1)), seq |-> log.seq + 1]

(* record: push, then shift when over capacity. *)
Record(log, frame) ==
  LET pushed == Append(log.items, Numbered(frame, log.seq + 1))
  IN  [items |-> IF Len(pushed) > Capacity THEN Tail(pushed) ELSE pushed,
       seq   |-> log.seq + 1]

Retained(log) == {log.items[i] : i \in 1..Len(log.items)}

\* A bug: a cursor just before the oldest retained frame counts as outrun.
OutrunTooSoon(log, cursor) ==
  IF log.items = <<>> THEN log.seq > cursor ELSE log.items[1].seq > cursor

\* A bug: an overflow that left anything to replay is not reported.
OutrunOnlyWhenEmpty(log, cursor) == log.items = <<>> /\ log.seq > cursor

(* Frames after the cursor have been dropped. *)
Outrun(log, cursor) ==
  IF log.items = <<>> THEN log.seq > cursor ELSE log.items[1].seq > cursor + 1

(* replaySince *)
ReplaySince(log, cursor) ==
  [frames    |-> {item \in Retained(log) : item.seq > cursor},
   truncated |-> Outrun(log, cursor),
   latest    |-> log.seq]

(* What a log promises: a replay is flagged truncated exactly when frames  *)
(* after the cursor are missing from it, whatever cursor the device has    *)
(* reached.  Property of replaySince, durable.ts:3-4.                      *)
Honest(log) ==
  \A cursor \in 0..log.seq :
    LET replay == ReplaySince(log, cursor)
    IN  replay.truncated <=> {item.seq : item \in replay.frames} # (cursor + 1)..log.seq
=============================================================================
