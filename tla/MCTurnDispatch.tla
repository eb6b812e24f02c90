---- MODULE MCTurnDispatch ----
(* Small instances of TurnDispatch for TLC. *)
EXTENDS TurnDispatch

\* Three messages of one chat and one of another.
TwoChats == [m \in Inbound |-> IF m = 2 THEN "s2" ELSE "s1"]

\* All messages belong to one chat.
OneChat == [m \in Inbound |-> "s1"]

\* Two messages of a chat and a system message, which runs in the main session.
WithSystem == [m \in Inbound |-> IF m \in SystemMsgs THEN "main" ELSE "s1"]
====
