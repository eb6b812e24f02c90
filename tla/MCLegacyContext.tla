---------------------------- MODULE MCLegacyContext ----------------------------
(***************************************************************************)
(* Every history of at most MaxLength messages, grown message by message:  *)
(* the sessions of earlier processes, with turns that were aborted, cut or *)
(* written by two at once.  All of them are inputs of the operators of     *)
(* ContextBudget; the context manager goes on from those in order.         *)
(***************************************************************************)
EXTENDS LegacyContext

CONSTANTS
  MaxLength,   \* bound: messages there are before the first turn
  Kinds        \* the messages they are made of

System == Message("system", "system", 0, 0)

AllKinds ==
  {System, User, Answer, Call(1), Call(2), Result(1, 1), Result(2, 1), Result(2, 2)}

OnlyOversized == {1}

Fresh == turns = 0 /\ turn = Idle /\ added = Len(stored)

Grow ==
  /\ Fresh /\ added < MaxLength
  /\ \E m \in Kinds : stored' = Append(stored, Entry(m))
  /\ added' = added + 1
  /\ UNCHANGED <<told, turn, turns, restore, asks, ghosts>>

MCNext ==
  \/ Grow
  \/ (Fresh => InOrder(Messages(stored)) /\ Paired(Messages(stored))) /\ LegacyNext

MCSpec == LegacyInit /\ [][MCNext]_legacyVars
================================================================================
