----------------------------- MODULE MCAgentBoard -----------------------------
(* Model values and bounds for checking AgentBoard with TLC. *)
EXTENDS AgentBoard, TLC, FiniteSets

CONSTANTS a, b, c, d   \* the device ids

MCIds == {a, b, c, d}
SymIds == Permutations(MCIds)

(* The host knows more ids than the board has seats, so eviction and       *)
(* refusal both happen.                                                    *)
ASSUME MoreIdsThanSeats == Cap < Cardinality(Ids)
=============================================================================
