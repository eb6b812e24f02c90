----------------------------- MODULE SessionStore -----------------------------
(***************************************************************************)
(* The two files of a session in the JSONL store (jsonl.go): the lines of  *)
(* the .jsonl file and the .meta.json file, with a failure possible        *)
(* between any two writes of an operation.  A failure is a crash, or an    *)
(* error of the file system that the caller logs and ignores; the store    *)
(* keeps nothing in memory, so both leave the same state.                  *)
(*                                                                         *)
(* Operations on a session exclude each other by its lock, so at most one  *)
(* is under way.  A replacement of a whole file is atomic (WriteFileAtomic *)
(* renames); an append is not, it may leave a part of a line.  A part that *)
(* is a whole message but for its newline is not considered.               *)
(***************************************************************************)
EXTENDS Integers, Sequences, SequencesExt

CONSTANTS
  OldLines,       \* the .jsonl file an older version has left
  Transient,      \* messages that only hold a thought: never shown
  AliasHistory,   \* what the store holds under an alias of the session
  AliasSummary,
  Summaries,
  NoSummary,
  Messages,       \* bound: the messages appended, numbers in this order
  MaxFailures     \* bound: crashes and failing writes

Torn == 0   \* a line that cannot be decoded

\* readMessages: what a line must hold to be shown.
Shown == Nat \ (Transient \cup {Torn})

\* The elements of s that are in S, in their order.
Only(s, S) ==
  LET kept[n \in 0 .. Len(s)] ==
        IF n = 0 THEN <<>>
        ELSE IF s[n] \in S THEN Append(kept[n - 1], s[n]) ELSE kept[n - 1]
  IN kept[Len(s)]

\* A message stands for one line of a file, so that none comes twice.  addMsg
\* drops thoughts, and an alias's history has been read by readMessages.
ASSUME SessionStoreAssumption ==
  /\ Messages \subseteq Shown
  /\ OldLines \in Seq(Nat \ Messages)
  /\ IsInjective(Only(OldLines, Shown))
  /\ AliasHistory \in Seq(Shown \ Messages)
  /\ IsInjective(AliasHistory)
  /\ Summaries \subseteq STRING
  /\ AliasSummary \in STRING
  /\ NoSummary \in STRING
  /\ MaxFailures \in Nat

VARIABLES
  lines,      \* the lines of the .jsonl file
  ended,      \* the last of them ends with a newline
  skip,       \* meta.Skip
  count,      \* meta.Count
  summary,    \* meta.Summary
  op,         \* the operation that is between its two writes
  appended,   \* messages that have been given to addMsg
  failures,
  held,       \* what the callers were told is stored
  stale,      \* a failure since the last complete SetHistory
  cleared     \* the last complete operation on the history emptied it

file  == <<lines, ended>>
meta  == <<skip, count, summary>>
ghost == <<held, stale, cleared>>
vars  == <<file, meta, op, appended, failures, ghost>>

NoOp == [of |-> "none"]
Idle == op = NoOp

-------------------------------------------------------------------------------
(* Reading. *)

\* readMessages: the lines after the skipped ones that hold a message.
ReadFrom(start) == Only(SubSeq(lines, start + 1, Len(lines)), Shown)
Visible == ReadFrom(skip)
Hidden  == Only(SubSeq(lines, 1, skip), Shown)

Rewrite(of, target) ==
  [of |-> of, target |-> target, before |-> Visible, hidden |-> Hidden]

LastOnes(s, n) == IF n < Len(s) THEN SubSeq(s, Len(s) - n + 1, Len(s)) ELSE s

Init ==
  /\ lines = OldLines
  /\ ended = TRUE
  /\ skip = 0
  /\ count = Len(OldLines)
  /\ summary = NoSummary
  /\ op = NoOp
  /\ appended = {}
  /\ failures = 0
  /\ held = Only(OldLines, Shown)
  /\ stale = FALSE
  /\ cleared = FALSE

-------------------------------------------------------------------------------
(* addMsg. *)

\* (mutant of Written) writes at the place of the last line.
WrittenOver(m) == IF lines = <<>> THEN <<m>> ELSE [lines EXCEPT ![Len(lines)] = m]

\* The file with one more message.  A line that was torn swallows the message:
\* together they are one line, which cannot be decoded.
Written(m) == IF ended THEN Append(lines, m) ELSE lines

NextMessage(m) == m \in Messages \ appended /\ \A n \in Messages \ appended : m <= n

AddMessage(m) ==
  /\ Idle
  /\ NextMessage(m)
  /\ lines' = Written(m)
  /\ ended' = TRUE
  /\ appended' = appended \cup {m}
  /\ op' = [of |-> "append", msg |-> m, swallowed |-> ~ended]
  /\ cleared' = FALSE
  /\ UNCHANGED <<meta, failures, held, stale>>

AddMessageTorn(m) ==
  /\ Idle
  /\ NextMessage(m)
  /\ failures < MaxFailures
  /\ lines' = IF ended THEN Append(lines, Torn) ELSE lines
  /\ ended' = FALSE
  /\ appended' = appended \cup {m}
  /\ failures' = failures + 1
  /\ stale' = TRUE
  /\ UNCHANGED <<meta, op, held, cleared>>

CountMessage ==
  /\ op.of = "append"
  /\ count' = count + 1
  /\ op' = NoOp
  /\ held' = IF op.swallowed THEN held ELSE Append(held, op.msg)
  /\ UNCHANGED <<file, skip, summary, appended, failures, stale, cleared>>

-------------------------------------------------------------------------------
(* SetSummary, TruncateHistory, SetHistory, Compact. *)

SetSummary(s) ==
  /\ Idle
  /\ summary' = s
  /\ UNCHANGED <<file, skip, count, op, appended, failures, ghost>>

\* (mutant of SkipFor) counts the lines instead of the messages.
SkipForLines(keepLast) == IF keepLast < Len(lines) - skip THEN Len(lines) - keepLast ELSE skip

\* The least number of lines to skip after which no more than keepLast messages
\* are left.
SkipFor(keepLast) ==
  IF keepLast >= Len(Visible) THEN skip
  ELSE CHOOSE at \in skip .. Len(lines) :
         /\ Len(ReadFrom(at)) = keepLast
         /\ \A less \in skip .. at - 1 : Len(ReadFrom(less)) > keepLast

\* summarizeSession, which asks for it, keeps at least one message of a history
\* in which it found some.
TruncateHistory(keepLast) ==
  /\ Idle
  /\ Visible # <<>>
  /\ skip' = SkipFor(keepLast)
  /\ count' = Len(lines)
  /\ held' = Only(held, ToSet(LastOnes(Visible, keepLast)))
  /\ UNCHANGED <<file, summary, op, appended, failures, stale, cleared>>

\* The metadata is written first: until the file is, it is read from its start.
SetHistory(h) ==
  /\ Idle
  /\ skip' = 0
  /\ count' = Len(h)
  /\ op' = Rewrite("set", h)
  /\ UNCHANGED <<file, summary, appended, failures, ghost>>

\* (mutant of Compact) the file will be replaced, the offset stays.
CompactKeepsSkip ==
  /\ Idle
  /\ skip > 0
  /\ count' = Len(Visible)
  /\ op' = Rewrite("compact", Visible)
  /\ UNCHANGED <<file, skip, summary, appended, failures, ghost>>

Compact ==
  /\ Idle
  /\ skip > 0
  /\ skip' = 0
  /\ count' = Len(Visible)
  /\ op' = Rewrite("compact", Visible)
  /\ UNCHANGED <<file, summary, appended, failures, ghost>>

ReplaceFile ==
  /\ op.of \in {"set", "compact"}
  /\ lines' = op.target
  /\ ended' = TRUE
  /\ op' = NoOp
  /\ IF op.of = "compact" THEN UNCHANGED ghost
     ELSE held' = op.target /\ stale' = FALSE /\ cleared' = (op.target = <<>>)
  /\ UNCHANGED <<meta, appended, failures>>

-------------------------------------------------------------------------------
(* PromoteAliasHistory: here the file is replaced before the metadata. *)

PromoteAliasHistory ==
  /\ Idle
  /\ Visible = <<>> /\ summary = NoSummary
  /\ AliasHistory # <<>> \/ AliasSummary # NoSummary
  /\ lines' = AliasHistory
  /\ ended' = TRUE
  /\ op' = [of |-> "promote", lines |-> lines, ended |-> ended]
  /\ UNCHANGED <<meta, appended, failures, ghost>>

WritePromotedMeta ==
  /\ op.of = "promote"
  /\ skip' = 0
  /\ count' = Len(AliasHistory)
  /\ summary' = IF AliasSummary # NoSummary THEN AliasSummary ELSE summary
  /\ op' = NoOp
  /\ held' = AliasHistory
  /\ UNCHANGED <<file, appended, failures, stale, cleared>>

\* The metadata cannot be written, and the file is put back.
RollBackPromotion ==
  /\ op.of = "promote"
  /\ failures < MaxFailures
  /\ lines' = op.lines
  /\ ended' = op.ended
  /\ op' = NoOp
  /\ failures' = failures + 1
  /\ UNCHANGED <<meta, appended, ghost>>

\* An operation ends between its two writes.
Fail ==
  /\ ~Idle
  /\ failures < MaxFailures
  /\ op' = NoOp
  /\ failures' = failures + 1
  /\ stale' = TRUE
  /\ UNCHANGED <<file, meta, appended, held, cleared>>

-------------------------------------------------------------------------------
Next ==
  \/ \E m \in Messages : AddMessage(m) \/ AddMessageTorn(m)
  \/ CountMessage
  \/ \E s \in Summaries : SetSummary(s)
  \/ \E keepLast \in 1 .. Len(Visible) : TruncateHistory(keepLast)
  \/ \E h \in Prefixes(Visible) \cup Suffixes(Visible) : SetHistory(h)
  \/ Compact
  \/ ReplaceFile
  \/ PromoteAliasHistory
  \/ WritePromotedMeta
  \/ RollBackPromotion
  \/ Fail

Spec == Init /\ [][Next]_vars

-------------------------------------------------------------------------------
(* Properties. *)

LinesOf == Messages \cup ToSet(OldLines) \cup ToSet(AliasHistory) \cup {Torn}

TypeOK ==
  /\ lines \in Seq(LinesOf)
  /\ ended \in BOOLEAN
  /\ skip \in 0 .. Len(lines)
  /\ count \in Nat
  /\ summary \in Summaries \cup {NoSummary, AliasSummary}
  /\ op.of \in {"none", "append", "set", "compact", "promote"}
  /\ appended \subseteq Messages
  /\ failures \in 0 .. MaxFailures

\* Nothing a caller was told is stored is lost by a failure in any operation,
\* or hidden by the offset of a truncation, except a message whose line was
\* swallowed by a torn one (the crash semantics of the JSONL store).
NothingLost ==
  Idle => Only(Visible, ToSet(held)) = held

\* Without a failure, and after one as soon as a SetHistory completes, the
\* store holds what its callers left in it and nothing else, whatever lines
\* older versions left in the file.
ExactUnlessStale == Idle /\ ~stale => Visible = held

\* The history the callers have while an operation is between its two writes, and
\* the truncated messages a failure may bring back.
Rewriting == op.of \in {"set", "compact"}
Current == IF Rewriting THEN op.before ELSE IF op.of = "promote" THEN <<>> ELSE Visible
Dropped == IF Rewriting THEN op.hidden ELSE IF op.of = "promote" THEN <<>> ELSE Hidden
Promised == INSTANCE SessionHistory WITH
  Old <- Only(OldLines, Shown), history <- Current, dropped <- Dropped

\* The store is a list of messages and a summary, to which every operation
\* happens as a whole or not at all; a failure may bring truncated messages
\* back, and never does anything else to the list.
KeepsPromise == Promised!Spec

\* A history that was cleared stays empty until a message is added.
ClearedStaysEmpty == cleared /\ Idle => Visible = <<>>
===============================================================================
