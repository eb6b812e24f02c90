---------------------------- MODULE SessionHistory ----------------------------
(***************************************************************************)
(* What the session store promises its callers: a list of messages and a   *)
(* summary.  A truncated message is gone from the list, but as long as it  *)
(* is on disk a failure may bring it back: stale messages rather than lost *)
(* ones.  SessionStore implements this with two files.                     *)
(***************************************************************************)
EXTENDS Integers, Sequences

CONSTANTS
  Messages,       \* the messages that can be appended
  Old,            \* the history before anything else
  AliasHistory,   \* what the session has under an older key
  AliasSummary,
  Summaries,      \* the summaries that can be set
  NoSummary

VARIABLES
  history,   \* what GetHistory returns
  dropped,   \* truncated messages that may still be on disk
  summary    \* what GetSummary returns

svars == <<history, dropped, summary>>

Init == history = Old /\ dropped = <<>> /\ summary = NoSummary

AddMessage(m) ==
  /\ history' = Append(history, m)
  /\ UNCHANGED <<dropped, summary>>

SetSummary(s) == summary' = s /\ UNCHANGED <<history, dropped>>

TruncateHistory(keepLast) ==
  /\ keepLast < Len(history)
  /\ LET cut == Len(history) - keepLast
     IN  /\ history' = SubSeq(history, cut + 1, Len(history))
         /\ dropped' = dropped \o SubSeq(history, 1, cut)
  /\ UNCHANGED summary

\* Callers put back a part of what they read: its beginning or its end.
SetHistory(from, to) ==
  /\ history' = SubSeq(history, from, to)
  /\ dropped' = <<>>
  /\ UNCHANGED summary

Compact == dropped' = <<>> /\ UNCHANGED <<history, summary>>

\* A failure between the two writes of SetHistory or Compact.
Reappear ==
  /\ history' = dropped \o history
  /\ dropped' = <<>>
  /\ UNCHANGED summary

\* The history under the older key is taken over by an empty session; a failure
\* may leave its summary behind.
Promote(whole) ==
  /\ history = <<>> /\ summary = NoSummary
  /\ history' = AliasHistory
  /\ dropped' = <<>>
  /\ summary' = IF whole THEN AliasSummary ELSE summary

Next ==
  \/ \E m \in Messages : AddMessage(m)
  \/ \E s \in Summaries : SetSummary(s)
  \/ \E keepLast \in 1 .. Len(history) : TruncateHistory(keepLast)
  \/ \E k \in 0 .. Len(history) : SetHistory(1, k) \/ SetHistory(k + 1, Len(history))
  \/ Compact
  \/ Reappear
  \/ \E whole \in BOOLEAN : Promote(whole)

Spec == Init /\ [][Next]_svars
===============================================================================
