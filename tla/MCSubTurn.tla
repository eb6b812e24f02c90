------------------------------ MODULE MCSubTurn ------------------------------
\* Instances of SubTurn for TLC.
EXTENDS SubTurn

\* The children of the user's turn share nothing with each other (it has neither
\* semaphore nor channel), so one of them, asynchronous, with what is below it is
\* every case.  The last sub-turn is a synchronous one too many: its parent's
\* slots are taken, or it is too deep.
SpawnsWithin ==
  \A c \in Subs :
    pc[c] = "idle" /\ pc'[c] # "idle" =>
      /\ (parent'[c] = Root) = (c = 1)
      /\ c = 1 => async'[c]
      /\ c = NumSubs =>
           /\ ~async'[c]
           /\ depth[parent'[c]] = MaxDepth \/ sem[parent'[c]] = MaxConcurrent
=============================================================================
