----------------------------- MODULE MCTransport -----------------------------
(* Bounds for checking Transport with TLC: they are numbers, in the cfg.    *)
EXTENDS Transport, AeadChecks

(* A write can cut a record, a poll can find two, and the sink can overflow. *)
ASSUME BuffersCutRecords == SockCap % 2 = 1 /\ RxCap >= 4
ASSUME SinkOverflows == SockCap + Watermark < 2 * MaxDown
=============================================================================
