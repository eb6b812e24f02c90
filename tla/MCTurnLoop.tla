------------------------------ MODULE MCTurnLoop ------------------------------
(* Small instances of TurnLoop for TLC. *)
EXTENDS TurnLoop

\* A turn with a tool, then one without.
TwoOldTurns ==
  << Message("user", "user", 0, 0), Message("assistant", "call", 0, 1),
     Message("tool", "result", 0, 1), Message("assistant", "answer", 0, 0),
     Message("user", "user", 0, 0), Message("assistant", "answer", 0, 0) >>

OneOldTurn == << Message("user", "user", 0, 0), Message("assistant", "answer", 0, 0) >>
===============================================================================
