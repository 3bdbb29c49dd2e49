------------------------------ MODULE MCRegistry ------------------------------
(* Bounds for checking Registry with TLC. *)
EXTENDS Registry

(* The log overflows while a request is parked. *)
ASSUME LogOverflows == Capacity + 4 < MaxFrames
=============================================================================
