---------------------------- MODULE LegacyContext -----------------------------
(***************************************************************************)
(* The legacy context manager on one session: turns that store messages,   *)
(* the emergency compression inside a turn, /clear, and the summariser, a  *)
(* goroutine that outlives the turn it was started after, asks a provider  *)
(* and then truncates the history to a length it computed before.          *)
(*                                                                         *)
(* Each call of the session store is a step (they lock it one by one).     *)
(* GetHistory followed by GetSummary is one step where only a summary that *)
(* tells of more could come in between.  Turns of a session are taken to   *)
(* follow one another and the agent to be the default one; TurnDispatch    *)
(* and TurnLoop say what happens otherwise.  Whether a history is over its *)
(* threshold or a prompt over its budget is free.                          *)
(* The names of Init, Next and Spec begin with Legacy: TurnLoopProofs      *)
(* speaks of this module and of TurnLoop.                                  *)
(***************************************************************************)
EXTENDS ContextBudget

CONSTANTS
  KeepRecent,   \* messages that are not summarised (4 in the code)
  MaxBatch,     \* messages that are summarised at once (maxSummarizationMessages)
  Oversized,    \* messages too long to be summarised, by number
  MaxMessages,  \* bound: messages of the session
  MaxTurns      \* bound: turns

ASSUME LegacyAssumption ==
  /\ KeepRecent \in Nat \ {0} /\ MaxBatch \in Nat
  /\ MaxMessages \in Nat /\ MaxTurns \in Nat

VARIABLES
  stored,   \* the stored history: messages with their numbers
  told,     \* the messages the stored summary tells of
  turn,     \* where the turn is, its messages, and what forceCompression holds
  turns,    \* turns begun
  restore,  \* the turn's restore point
  asks,     \* the summariser: where it is, what it computed
  added,    \* messages stored so far
  gone,     \* messages that are gone for a reason: compressed, undone, cleared, skipped
  lapsed,   \* messages a summary told of before it was replaced by one that does not
  displaced \* messages stored while a summary that was used was made

legacyVars == <<stored, told, turn, turns, restore, asks, added, gone, lapsed, displaced>>
ghosts == <<gone, lapsed, displaced>>

Entry(m) == [id |-> added + 1, msg |-> m]
Ids(h) == {h[i].id : i \in DOMAIN h}
Messages(h) == [i \in DOMAIN h |-> h[i].msg]
KeepLast(h, n) == IF n < Len(h) THEN Keep(h, Len(h) - n) ELSE h

User   == Message("user", "user", 0, 0)
Answer == Message("assistant", "answer", 0, 0)
Call(n)      == Message("assistant", "call", n, n)
Result(n, k) == Message("tool", "result", n, k)

Nothing == [history |-> <<>>, told |-> {}]
Idle    == [at |-> "idle", own |-> <<>>, kept |-> <<>>, told |-> {}]
Off     == [at |-> "off", keep |-> 0, batch |-> {}, skipped |-> {}, told |-> {}, since |-> 0]

LegacyTypeOK ==
  /\ added \in 0 .. MaxMessages /\ turns \in 0 .. MaxTurns /\ displaced \in 0 .. MaxMessages
  /\ Ids(stored) \cup told \cup gone \cup lapsed \subseteq 1 .. added
  /\ turn.at \in {"idle", "setup", "begin", "running", "closing", "read", "noting",
                  "storing", "refresh", "undoing", "clearing"}
  /\ asks.at \in {"off", "started", "asking", "told"}

LegacyInit ==
  /\ stored = <<>> /\ told = {} /\ added = 0
  /\ turn = Idle /\ turns = 0 /\ restore = Nothing /\ asks = Off
  /\ gone = {} /\ lapsed = {} /\ displaced = 0

\* SetSummary: what only the old summary told of is lost with it.
SetSummary(new) == told' = new /\ lapsed' = lapsed \cup (told \ new)

-------------------------------------------------------------------------------
(* The turn. *)

\* What a turn stores after its last message.
NextMessages(last) ==
  CASE last.of = "call" -> {Result(last.n, 1)}
    [] last.of = "result" /\ last.k < last.n -> {Result(last.n, last.k + 1)}
    [] last.of = "answer" -> {}
    [] OTHER -> {Answer, Call(1), Call(2)}

\* A call of the provider is due.
CallsProvider ==
  turn.at = "running" /\ Answer \in NextMessages(Last(turn.own).msg)

\* SetupTurn assembles the context and captures the restore point.
BeginTurn ==
  /\ turn.at = "idle" /\ turns < MaxTurns
  /\ turns' = turns + 1
  /\ restore' = [history |-> stored, told |-> told]
  /\ turn' = [Idle EXCEPT !.at = "setup"]
  /\ UNCHANGED <<stored, told, asks, added, ghosts>>

\* AddMessage and AddFullMessage; a message that comes while a summary is made
\* makes the length that the summariser computed too small.
Store(m) ==
  /\ added < MaxMessages
  /\ added' = added + 1
  /\ stored' = Append(stored, Entry(m))
  /\ turn' = [turn EXCEPT !.at = IF m = Answer THEN "closing" ELSE "running",
                          !.own = Append(@, Entry(m))]
  /\ asks' = [asks EXCEPT !.since = IF asks.at \in {"asking", "told"} THEN @ + 1 ELSE @]
  /\ UNCHANGED <<told, turns, restore, ghosts>>

StoreUser == turn.at \in {"setup", "begin"} /\ Store(User)

StoreNext == turn.at = "running" /\ \E m \in NextMessages(Last(turn.own).msg) : Store(m)

\* The turn is over.  maybeSummarize starts the summariser unless it is under way.
EndTurn ==
  /\ turn.at = "closing"
  /\ turn' = Idle
  /\ \/ asks' = asks
     \/ asks.at = "off" /\ asks' = [Off EXCEPT !.at = "started"]
  /\ UNCHANGED <<stored, told, turns, restore, added, ghosts>>

\* The provider failed for good: what was stored stays.
FailTurn ==
  /\ CallsProvider
  /\ turn' = Idle
  /\ UNCHANGED <<stored, told, turns, restore, asks, added, ghosts>>

\* abortTurn: restoreSession sets the history, then the summary.
RestoreHistory ==
  /\ turn.at = "running"
  /\ stored' = restore.history
  /\ gone' = gone \cup Ids(turn.own)
  /\ turn' = [Idle EXCEPT !.at = "undoing"]
  /\ UNCHANGED <<told, turns, restore, asks, added, lapsed, displaced>>

RestoreSummary ==
  /\ turn.at = "undoing"
  /\ SetSummary(restore.told)
  /\ turn' = Idle
  /\ UNCHANGED <<stored, turns, restore, asks, added, gone, displaced>>

\* /clear, which is handled without a turn: the history goes, then the summary.
Clear ==
  /\ turn.at = "idle"
  /\ stored' = <<>>
  /\ gone' = 1 .. added
  /\ turn' = [Idle EXCEPT !.at = "clearing"]
  /\ UNCHANGED <<told, turns, restore, asks, added, lapsed, displaced>>

ClearSummary ==
  /\ turn.at = "clearing"
  /\ SetSummary({})
  /\ turn' = Idle
  /\ UNCHANGED <<stored, turns, restore, asks, added, gone, displaced>>

-------------------------------------------------------------------------------
(* forceCompression, before the turn's first message or between two calls. *)

Back == IF turn.own = <<>> THEN "begin" ELSE "running"

ReadHistory ==
  /\ turn.at = "setup" \/ CallsProvider
  /\ turn' = IF Len(stored) <= 2 THEN [turn EXCEPT !.at = "refresh"]
             ELSE LET span == CompressionSpan(Messages(stored))
                  IN  [turn EXCEPT !.at = "read", !.kept = SubSeq(stored, span[1], span[2])]
  /\ UNCHANGED <<stored, told, turns, restore, asks, added, ghosts>>

ReadSummary ==
  /\ turn.at = "read"
  /\ turn' = [turn EXCEPT !.at = "noting", !.told = told]
  /\ UNCHANGED <<stored, told, turns, restore, asks, added, ghosts>>

\* The note is appended to the summary that was read.
SetNote ==
  /\ turn.at = "noting"
  /\ SetSummary(turn.told)
  /\ turn' = [turn EXCEPT !.at = "storing"]
  /\ UNCHANGED <<stored, turns, restore, asks, added, gone, displaced>>

\* What is not kept is counted by the note.
SetKept ==
  /\ turn.at = "storing"
  /\ stored' = turn.kept
  /\ gone' = gone \cup (Ids(stored) \ Ids(turn.kept))
  /\ turn' = [turn EXCEPT !.at = "refresh", !.kept = <<>>, !.told = {}]
  /\ UNCHANGED <<told, turns, restore, asks, added, lapsed, displaced>>

\* The longest tail of the history that is a tail of the turn's messages.
OwnTail ==
  LET Tails == {n \in 0 .. Len(turn.own) :
                  n <= Len(stored) /\ KeepLast(stored, n) = KeepLast(turn.own, n)}
  IN  Highest(Tails)

\* refreshRestorePointFromSession
Refresh ==
  /\ turn.at = "refresh"
  /\ restore' = [history |-> SubSeq(stored, 1, Len(stored) - OwnTail), told |-> told]
  /\ turn' = [turn EXCEPT !.at = Back]
  /\ UNCHANGED <<stored, told, turns, asks, added, ghosts>>

-------------------------------------------------------------------------------
(* The summariser (summarizeSession). *)

SummaryCut(h) == SafeBoundary(Messages(h), Len(h) - KeepRecent)

\* (mutant of KeepCount) keeps the recent messages, whatever the boundary was.
KeepRecentOnly(h, cut) == KeepRecent

KeepCount(h, cut) == Len(h) - cut

\* Tool messages and long ones are not summarised.
Valid(e) == e.msg.role \in {"user", "assistant"} /\ e.id \notin Oversized

ReadSession ==
  /\ asks.at = "started"
  /\ LET cut   == SummaryCut(stored)
         taken == SubSeq(stored, 1, cut)
         batch == {taken[i].id : i \in {j \in DOMAIN taken : Valid(taken[j])}}
     IN  asks' = IF Len(stored) <= KeepRecent \/ cut <= 0 \/ batch = {} THEN Off
                 ELSE [at |-> "asking", keep |-> KeepCount(stored, cut), batch |-> batch,
                       skipped |-> Ids(taken) \ batch, told |-> told, since |-> 0]
  /\ UNCHANGED <<stored, told, turn, turns, restore, added, ghosts>>

\* One batch is summarised together with the summary there was.  A batch too large is
\* halved, and a provider that does not answer is replaced by an excerpt: neither has
\* the summary there was.
Summaries ==
  (IF Cardinality(asks.batch) <= MaxBatch THEN {asks.batch \cup asks.told} ELSE {})
    \cup {asks.batch}

WriteSummary ==
  /\ asks.at = "asking"
  /\ \E new \in Summaries : SetSummary(new)
  /\ asks' = [asks EXCEPT !.at = "told"]
  /\ UNCHANGED <<stored, turn, turns, restore, added, gone, displaced>>

\* The provider answered with nothing but blanks, or panicked.
NoSummary ==
  /\ asks.at = "asking"
  /\ asks' = Off
  /\ UNCHANGED <<stored, told, turn, turns, restore, added, ghosts>>

Truncate ==
  /\ asks.at = "told"
  /\ stored' = KeepLast(stored, asks.keep)
  /\ gone' = gone \cup asks.skipped
  /\ displaced' = displaced + asks.since
  /\ asks' = Off
  /\ UNCHANGED <<told, turn, turns, restore, added, lapsed>>

-------------------------------------------------------------------------------
\* The process ends; the files stay.
Crash ==
  /\ turn # Idle \/ asks # Off
  /\ turn' = Idle /\ asks' = Off
  /\ UNCHANGED <<stored, told, turns, restore, added, ghosts>>

Turn ==
  \/ BeginTurn \/ StoreUser \/ StoreNext \/ EndTurn \/ FailTurn
  \/ RestoreHistory \/ RestoreSummary \/ Clear \/ ClearSummary
  \/ ReadHistory \/ ReadSummary \/ SetNote \/ SetKept \/ Refresh

Summarise == ReadSession \/ WriteSummary \/ NoSummary \/ Truncate

LegacyNext == Turn \/ Summarise \/ Crash

LegacySpec == LegacyInit /\ [][LegacyNext]_legacyVars

-------------------------------------------------------------------------------
\* A history a turn can leave behind: it begins with a user's message, and a
\* call follows a user's message or results.
InOrder(m) ==
  /\ m # <<>> => m[1].role = "user"
  /\ \A i \in DOMAIN m : m[i].role # "system"
  /\ \A i \in 2 .. Len(m) :
       m[i].of = "call" => m[i - 1].role \in {"user", "tool"}

\* Whatever the stored history is (turns that were aborted, cut or interleaved
\* by two writers), what a provider is shown of it has every call followed by
\* exactly its results (sanitizeHistoryForProvider); nothing is left out of a
\* history that is in order, and sanitizing again changes nothing.
SanitizedIsPaired ==
  LET h     == Messages(stored)
      shown == Sanitize(h)
  IN  /\ Paired(shown)
      /\ Sanitize(shown) = shown
      /\ InOrder(h) /\ Paired(h) => shown = h

\* A cut never separates a call from its results, wherever it is asked for
\* (findSafeBoundary), unless the history has no turn to cut at.  The emergency
\* compression, which cuts in the middle, also keeps the last message of the user
\* and does make the history shorter.
CutsKeepPairs ==
  LET h      == Messages(stored)
      bounds == TurnBoundaries(h)
      kept   == ForceCompression(h)
  IN  Paired(h) /\ bounds # {} =>
        /\ \A target \in 0 .. Len(h) : Paired(Keep(h, SafeBoundary(h, target)))
        /\ Len(h) > 2 =>
             /\ Len(kept) < Len(h)
             /\ Paired(kept)
             /\ \E i \in DOMAIN kept : kept[i] = h[Highest(bounds) + 1]

\* A message leaves the history only after a summary has told of it, whatever turns,
\* compressions, aborts, clearings and crashes come between the summariser's reading,
\* its writing and its truncation - save for as many messages as were stored while
\* the summary was made, which the length computed before pushes out
\* (context_legacy.go:246), and those that go for a reason of their own: counted by a
\* compression, undone, cleared, or of a kind that is not summarised.
LeavesTold ==
  Cardinality(1 .. added \ (Ids(stored) \cup told \cup lapsed \cup gone)) <= displaced

\* Not so: a summary that is being made when the session is cleared is written to it
\* afterwards, and the next turn is told of what was cleared.
ClearedIsForgotten ==
  [][asks.at = "asking" /\ asks'.at = "told" => stored # <<>>]_legacyVars
===============================================================================
