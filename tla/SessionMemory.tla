---------------------------- MODULE SessionMemory -----------------------------
(***************************************************************************)
(* The memory of a session kept by the seahorse context manager: a         *)
(* database beside the session's file.  Most messages stored in the        *)
(* session are also rows of the database; results of tools denied or       *)
(* skipped and of sub-turns go to the file alone.  The context is a list   *)
(* of items, each a row or a summary, at ordinals that leave gaps.  A leaf *)
(* summary replaces a range of messages, a condensed one replaces          *)
(* summaries.  A turn compacts when it ends and when the provider refused  *)
(* the context, and starts a goroutine that goes on condensing after it.   *)
(*                                                                         *)
(* A statement or a transaction of the database is a step.  Calls of the   *)
(* provider come between the step that reads the context and those that    *)
(* rewrite it.  Failures may come at every step: the database is busy, the *)
(* turn is canceled, the provider fails, the process ends.  At a restart   *)
(* the rows are reconciled with the session's file (Bootstrap).            *)
(*                                                                         *)
(* Messages are numbered in the order in which they are stored; two        *)
(* messages are never alike.  Tokens are small numbers, and where the code *)
(* compares sums of tokens with a budget either outcome is possible.       *)
(***************************************************************************)
EXTENDS FiniteSets, Integers, Sequences, SequencesExt, FiniteSetsExt

CONSTANTS
  Turns,                \* processes that run turns of the session
  NumMessages,          \* messages stored
  FileOnly,             \* bound: those that may be stored in the session's file alone
  MessageTokens,        \* tokens of a message
  SummaryTokens,        \* the numbers of tokens a summary may have
  LeafMinFanout, CondensedMinFanout, FreshTailCount,
  LeafChunkTokens, CondensedTargetTokens, OrdinalStep,
  MaxSummaries,         \* bound on the summaries made
  MaxClears, MaxFaults \* bounds on the clearings and on what is cut short

Background == "background" \* runCondensedLoop
Boot == "boot"             \* bootstrapSession at a start
Actors == Turns \cup {Background, Boot}

ASSUME MemoryAssumption ==
  /\ {NumMessages, MaxSummaries, MaxClears, MaxFaults} \cup FileOnly \subseteq Nat
  /\ {MessageTokens, LeafMinFanout, CondensedMinFanout, OrdinalStep} \subseteq Nat \ {0}
  /\ {FreshTailCount, LeafChunkTokens, CondensedTargetTokens} \cup SummaryTokens \subseteq Nat
  /\ Turns \cap {Background, Boot} = {}

\* A session is claimed by one turn at a time, as TurnDispatch says; not assumed of the
\* model, but by the theorems about it.
OneTurn == \A s, t \in Turns : s = t

VARIABLES
  history,   \* the messages of the session's file
  next,      \* the next message
  rows,      \* messages: the row ids and their messages
  lastRow,   \* AUTOINCREMENT never uses an id again
  items,     \* context_items: at each ordinal a row or a summary
  summaries, \* summaries, with their depth, tokens and the messages they tell of
  lastSum,
  pc,        \* the next step of each actor
  work,      \* what each actor has in its local variables
  clears, faults,
  missed,    \* messages stored whose row was not written
  cut,       \* messages whose row was written and whose item was not
  redone,    \* messages recorded again by a restart
  wiped,     \* messages of a session that was cleared
  tainted    \* a condensation has used what another one or a clearing had changed

db == <<rows, lastRow, items, summaries, lastSum>>
ghosts == <<missed, cut, redone, wiped, tainted>>
counts == <<clears, faults>>
memoryVars == <<history, next, db, pc, work, counts, ghosts>>

\* base: length of the history the turn would be rolled back to; todo, ids: messages
\* to record and row ids recorded; from, to: a range of ordinals; cands: summaries to
\* condense; others: something stands between them; covers, depth: of the summary that is
\* made; made: its id; retry: for CompactUntilUnder; fresh: no one has condensed or
\* cleared since the candidates were selected.
NoWork == [base |-> 0, todo |-> <<>>, ids |-> <<>>, from |-> 0, to |-> 0, cands |-> {},
           others |-> FALSE, covers |-> {}, depth |-> 0, made |-> 0, retry |-> FALSE,
           fresh |-> TRUE]

MemoryInit ==
  /\ history = <<>> /\ next = 1
  /\ rows = <<>> /\ lastRow = 0
  /\ items = <<>>
  /\ summaries = <<>> /\ lastSum = 0
  /\ pc = [a \in Actors |-> IF a = Boot THEN "off" ELSE "idle"]
  /\ work = [a \in Actors |-> NoWork]
  /\ clears = 0 /\ faults = 0
  /\ missed = {} /\ cut = {} /\ redone = {} /\ wiped = {}
  /\ tainted = FALSE

----------------------------------------------------------------------------
\* Reading the context

IsMessage(item) == item.sum = 0
Dangling(item) == IF IsMessage(item) THEN item.row \notin DOMAIN rows
                  ELSE item.sum \notin DOMAIN summaries

Upto(o) == {p \in DOMAIN items : p <= o}
Between(o, p) == {q \in DOMAIN items : q \in o..p}
Adjacent(o, p) == o < p /\ Between(o, p) = {o, p}

\* The items before the fresh tail, which a retry does not spare.
Older == {o \in DOMAIN items : Cardinality({p \in DOMAIN items : p >= o}) > FreshTailCount}
Limit(retry) == IF retry THEN DOMAIN items ELSE Older

\* A run of messages, as compactLeaf scans it: from its first message until a summary,
\* the fresh tail, or the message that fills the chunk.
Full(run) == Cardinality(run) * MessageTokens >= LeafChunkTokens
IsChunk(from, to, limit) ==
  /\ \A o \in Between(from, to) : IsMessage(items[o]) /\ (o < to => ~Full(Between(from, o)))
  /\ ~\E o \in DOMAIN items : Adjacent(o, from) /\ IsMessage(items[o])
  /\ Full(Between(from, to)) \/ ~\E o \in limit : Adjacent(to, o) /\ IsMessage(items[o])

\* The oldest run of messages that is long enough.  The search ends with the first that
\* fills the chunk, even if it has too few messages.
LeafChunks(limit) ==
  LET run(c) == Between(c[1], c[2])
      long(c) == Cardinality(run(c)) >= LeafMinFanout
      ends == {c \in limit \X limit : /\ c[1] <= c[2] /\ IsChunk(c[1], c[2], limit)
                                      /\ long(c) \/ Full(run(c))}
      messages == {o \in DOMAIN items : IsMessage(items[o])}
  IN  IF Cardinality(messages) < LeafMinFanout /\ ~Full(messages) THEN {}
      ELSE {c \in ends : long(c) /\ \A d \in ends : c[1] <= d[1]}

At(depth) == {o \in DOMAIN items : ~IsMessage(items[o]) /\ summaries[items[o].sum].depth = depth}
Depths == {summaries[items[o].sum].depth : o \in {p \in DOMAIN items : ~IsMessage(items[p])}}
SumTokens(ids) == MapThenSumSet(LAMBDA s : summaries[s].tokens, ids)
Sums(ords) == {items[o].sum : o \in ords}

\* selectOldestChunkAtDepth: the summaries of that depth the context begins with.
OldestAtDepth(depth) ==
  LET fits(o) == /\ Upto(o) \subseteq At(depth)
                 /\ SumTokens(Sums(Upto(o))) <= LeafChunkTokens
      chunk == Sums(UNION {Upto(o) : o \in {p \in Older : fits(p)}})
  IN  IF SumTokens(chunk) < CondensedTargetTokens THEN {} ELSE chunk

\* selectShallowestCondensationCandidate: the first CondensedMinFanout summaries of the
\* shallowest depth that has so many, wherever they stand.
Shallowest ==
  LET at(depth) == At(depth) \cap Older
      enough == {depth \in Depths : Cardinality(at(depth)) >= CondensedMinFanout}
      first(S) == {o \in S : Cardinality({p \in S : p <= o}) <= CondensedMinFanout}
  IN  IF enough = {} THEN {} ELSE Sums(first(at(Min(enough))))

Candidates ==
  LET found == {depth \in Depths : OldestAtDepth(depth) # {}}
  IN  IF found # {} THEN OldestAtDepth(Min(found)) ELSE Shallowest

\* Messages the context tells of, in its items or in their summaries.
Tells(item) == IF IsMessage(item) THEN {rows[item.row]} ELSE summaries[item.sum].covers
Remembered == UNION {Tells(items[o]) : o \in {p \in DOMAIN items : ~Dangling(items[p])}}

----------------------------------------------------------------------------
\* Rewriting the context

\* (mutant of MaxOrdinal) The ordinals are counted, though replaced items leave gaps.
CountedOrdinal == Cardinality(DOMAIN items) * OrdinalStep

MaxOrdinal == Max({0} \cup DOMAIN items)
Without(ords) == [o \in DOMAIN items \ ords |-> items[o]]
Add(f, x, value) == [y \in DOMAIN f \cup {x} |-> IF y = x THEN value ELSE f[y]]
SumItem(s) == [row |-> 0, sum |-> s]

\* resequenceContextItemsTx: every item gets a new ordinal, the summary comes last.
Resequence(rest, s) ==
  LET ordinal(o) == Cardinality({p \in DOMAIN rest : p <= o}) * OrdinalStep
      last == (Cardinality(DOMAIN rest) + 1) * OrdinalStep
  IN  [n \in {ordinal(o) : o \in DOMAIN rest} \cup {last} |->
         IF n = last THEN SumItem(s) ELSE rest[CHOOSE o \in DOMAIN rest : ordinal(o) = n]]

\* (mutant of Insert) It is not looked whether the summary still exists.
InsertUnchecked(rest, mid, s) ==
  IF mid \in DOMAIN rest THEN Resequence(rest, s) ELSE Add(rest, mid, SumItem(s))

\* The summary takes the middle of what it replaces, if the row is still there.
Insert(rest, mid, s) ==
  IF s \notin DOMAIN summaries THEN rest
  ELSE IF mid \in DOMAIN rest THEN Resequence(rest, s)
  ELSE Add(rest, mid, SumItem(s))

\* (mutant of ReplaceRange) What arrived after the range is deleted with it.
ReplaceToEnd(from, to, s) ==
  Insert(Without({o \in DOMAIN items : o >= from}), (from + to) \div 2, s)

ReplaceRange(from, to, s) ==
  Insert(Without(Between(from, to)), (from + to) \div 2, s)

Standing(cands) == {o \in DOMAIN items : items[o].sum \in cands}

ReplaceItems(cands, s) ==
  LET gone == Standing(cands)
  IN  IF gone = {} THEN items
      ELSE Insert(Without(gone), (Min(gone) + Max(gone)) \div 2, s)

----------------------------------------------------------------------------
\* Storing and recording messages

Goto(a, label) == pc' = [pc EXCEPT ![a] = label]
Ready(a) == IF a = Boot THEN "done" ELSE "turn"
Forget(a) == work' = [work EXCEPT ![a] = [NoWork EXCEPT !.base = work[a].base]]

Begin(t) ==
  /\ pc[t] = "idle"
  /\ Goto(t, "turn")
  /\ work' = [work EXCEPT ![t].base = Len(history)]
  /\ UNCHANGED <<history, next, db, counts, ghosts>>

End(t) ==
  /\ pc[t] = "turn"
  /\ Goto(t, "idle")
  /\ work' = [work EXCEPT ![t] = NoWork]
  /\ UNCHANGED <<history, next, db, counts, ghosts>>

\* An aborted turn takes its messages out of the session's file, not out of the
\* database.
Abort(t) ==
  /\ pc[t] = "turn" /\ Len(history) > work[t].base
  /\ history' = SubSeq(history, 1, work[t].base)
  /\ Goto(t, "idle")
  /\ work' = [work EXCEPT ![t] = NoWork]
  /\ UNCHANGED <<next, db, counts, ghosts>>

Store(t) ==
  /\ pc[t] = "turn" /\ next <= NumMessages
  /\ history' = Append(history, next)
  /\ next' = next + 1
  /\ Goto(t, "add")
  /\ work' = [work EXCEPT ![t].todo = <<next>>]
  /\ UNCHANGED <<db, counts, ghosts>>

\* The result of a tool denied or skipped, or of a sub-turn: AddFullMessage without
\* ingestMessage.  The next bootstrap finds it in the file.
StoreOnly(t) ==
  /\ pc[t] = "turn" /\ next <= NumMessages /\ next \in FileOnly
  /\ history' = Append(history, next)
  /\ next' = next + 1
  /\ missed' = missed \cup {next}
  /\ UNCHANGED <<db, pc, work, counts, cut, redone, wiped, tainted>>

\* Ingest, under the session's mutex: a row for each message, then their items.
AddRow(a) ==
  /\ pc[a] = "add" /\ work[a].todo # <<>>
  /\ work[a].ids # <<>> \/ \A b \in Actors : work[b].ids = <<>>
  /\ lastRow' = lastRow + 1
  /\ rows' = Add(rows, lastRow', Head(work[a].todo))
  /\ work' = [work EXCEPT ![a].todo = Tail(@), ![a].ids = Append(@, lastRow')]
  /\ UNCHANGED <<history, next, items, summaries, lastSum, pc, counts, ghosts>>

Recorded(a) == {rows[r] : r \in ToSet(work[a].ids) \cap DOMAIN rows}

AppendContext(a) ==
  LET ids == work[a].ids
      ordinal(k) == MaxOrdinal + k * OrdinalStep
      at(o) == CHOOSE k \in DOMAIN ids : ordinal(k) = o
  IN  /\ pc[a] = "add" /\ work[a].todo = <<>>
      /\ items' = [o \in DOMAIN items \cup {ordinal(k) : k \in DOMAIN ids} |->
                     IF o \in DOMAIN items THEN items[o] ELSE [row |-> ids[at(o)], sum |-> 0]]
      /\ missed' = missed \ Recorded(a)
      /\ cut' = cut \ Recorded(a)
      /\ redone' = IF a = Boot THEN redone \cup (Recorded(a) \cap Remembered) ELSE redone
      /\ Goto(a, Ready(a))
      /\ Forget(a)
      /\ UNCHANGED <<history, next, rows, lastRow, summaries, lastSum, counts, wiped, tainted>>

\* The database is busy or the turn is canceled: Ingest returns, what it wrote stays.
IngestFails(a) ==
  /\ pc[a] = "add" /\ faults < MaxFaults
  /\ faults' = faults + 1
  /\ missed' = missed \cup ToSet(work[a].todo)
  /\ cut' = cut \cup Recorded(a)
  /\ Goto(a, Ready(a))
  /\ Forget(a)
  /\ UNCHANGED <<history, next, db, clears, redone, wiped, tainted>>

----------------------------------------------------------------------------
\* Leaf summaries

\* Compact at the end of a turn or before a call that would be too large, and
\* CompactUntilUnder after a call that was.
CompactContext(t) ==
  /\ pc[t] = "turn"
  /\ \E retry \in BOOLEAN :
       /\ Goto(t, IF retry THEN "retry" ELSE "leaf")
       /\ work' = [work EXCEPT ![t].retry = retry]
  /\ UNCHANGED <<history, next, db, counts, ghosts>>

\* CompactUntilUnder returns when the context is small enough.
UnderBudget(t) ==
  /\ pc[t] = "retry"
  /\ Goto(t, "turn")
  /\ Forget(t)
  /\ UNCHANGED <<history, next, db, counts, ghosts>>

\* compactLeaf reads the items, picks a run of messages and loads them; a message that
\* is not found is an error.
SelectLeaf(t) ==
  LET chunks == LeafChunks(Limit(work[t].retry))
      c == CHOOSE c \in chunks : TRUE
      chunk == {items[o] : o \in Between(c[1], c[2])}
  IN  /\ pc[t] \in {"leaf", "retry"} /\ lastSum < MaxSummaries
      /\ IF chunks = {} THEN /\ Goto(t, IF work[t].retry THEN "condense" ELSE "more")
                             /\ UNCHANGED work
         ELSE IF \E item \in chunk : Dangling(item) THEN Goto(t, "turn") /\ Forget(t)
         ELSE /\ Goto(t, "summarize")
              /\ work' = [work EXCEPT ![t].from = c[1], ![t].to = c[2],
                                      ![t].covers = UNION {Tells(item) : item \in chunk}]
      /\ UNCHANGED <<history, next, db, counts, ghosts>>

\* The provider has answered: CreateSummary and LinkSummaryToMessages.
CreateSummary(a, place, goto) ==
  /\ pc[a] = place
  /\ lastSum' = lastSum + 1
  /\ \E n \in SummaryTokens :
       summaries' = Add(summaries, lastSum', [depth |-> work[a].depth, tokens |-> n,
                                              covers |-> work[a].covers])
  /\ work' = [work EXCEPT ![a].made = lastSum']
  /\ Goto(a, goto)
  /\ UNCHANGED <<history, next, rows, lastRow, items, counts, ghosts>>

Summarize(t) == CreateSummary(t, "summarize", "replaceLeaf")

ReplaceLeaf(t) ==
  /\ pc[t] = "replaceLeaf"
  /\ items' = ReplaceRange(work[t].from, work[t].to, work[t].made)
  /\ Goto(t, IF work[t].retry THEN "retry" ELSE "more")
  /\ work' = [work EXCEPT ![t] = [NoWork EXCEPT !.base = work[t].base, !.retry = work[t].retry]]
  /\ UNCHANGED <<history, next, rows, lastRow, summaries, lastSum, counts, ghosts>>

\* The second half of Compact: over its budget it starts runCondensedLoop, unless one is
\* running.
StartCondensing(t) ==
  /\ pc[t] = "more"
  /\ \E over \in BOOLEAN :
       pc' = [pc EXCEPT ![t] = "turn",
                        ![Background] = IF over /\ @ = "idle" THEN "condense" ELSE @]
  /\ Forget(t)
  /\ UNCHANGED <<history, next, db, counts, ghosts>>

----------------------------------------------------------------------------
\* Condensed summaries

\* Where compactCondensed returns to without a summary, and with one.
NothingMade(a) == IF a = Background THEN "idle" ELSE "turn"
Made(a) == IF a = Background THEN {"condense", "idle"} ELSE {"retry"}

SelectCandidates(a) ==
  LET cands == Candidates
  IN  /\ pc[a] = "condense" /\ lastSum < MaxSummaries
      /\ IF cands = {} THEN Goto(a, NothingMade(a)) /\ Forget(a)
         ELSE /\ Goto(a, "merge")
              /\ work' = [work EXCEPT
                   ![a].cands = cands,
                   ![a].covers = UNION {summaries[s].covers : s \in cands},
                   ![a].depth = 1 + Max({summaries[s].depth : s \in cands}),
                   ![a].fresh = TRUE]
      /\ UNCHANGED <<history, next, db, counts, ghosts>>

Merge(a) == CreateSummary(a, "merge", "locate")

\* The candidates that are still in the context, and whether anything stands between
\* them.  None: the summary is not used.
Locate(a) ==
  LET standing == Standing(work[a].cands)
  IN  /\ pc[a] = "locate"
      /\ IF standing = {} THEN Goto(a, NothingMade(a)) /\ Forget(a)
         ELSE /\ Goto(a, "replace")
              /\ work' = [work EXCEPT ![a].from = Min(standing), ![a].to = Max(standing),
                                      ![a].others = \E o \in DOMAIN items \ standing :
                                                      o \in Min(standing)..Max(standing)]
      /\ UNCHANGED <<history, next, db, counts, ghosts>>

\* Others who have selected candidates do not have the context any more that they saw.
NotFresh(w, a) == [b \in Actors |-> IF b = a THEN w[b] ELSE [w[b] EXCEPT !.fresh = FALSE]]

ReplaceCandidates(a) ==
  LET w == work[a]
      done == [NoWork EXCEPT !.base = w.base, !.retry = w.retry]
  IN  /\ pc[a] = "replace"
      /\ items' = IF w.others THEN ReplaceItems(w.cands, w.made) ELSE ReplaceRange(w.from, w.to, w.made)
      /\ tainted' = (tainted \/ (~w.fresh /\ items' # items))
      /\ work' = [NotFresh(work, a) EXCEPT ![a] = done]
      /\ \E label \in Made(a) : Goto(a, label)
      /\ UNCHANGED <<history, next, rows, lastRow, summaries, lastSum, counts, missed, cut, redone, wiped>>

\* An error of the database or the provider: what has been made stays unused.
CompactFails(a) ==
  /\ pc[a] \in {"leaf", "summarize", "replaceLeaf", "condense", "merge", "locate", "replace"}
  /\ Goto(a, NothingMade(a))
  /\ Forget(a)
  /\ UNCHANGED <<history, next, db, counts, ghosts>>

----------------------------------------------------------------------------
\* Clearing, and the end of the process

\* (mutant of ClearMemory) The summaries are left in the database.
ClearKeepsSummaries(t) ==
  /\ pc[t] = "idle" /\ clears < MaxClears
  /\ clears' = clears + 1
  /\ rows' = <<>> /\ items' = <<>>
  /\ work' = NotFresh(work, t)
  /\ Goto(t, "clear")
  /\ UNCHANGED <<history, next, lastRow, summaries, lastSum, faults, ghosts>>

\* The command that clears a session, answered without a turn: the database, then the file.
ClearMemory(t) ==
  /\ pc[t] = "idle" /\ clears < MaxClears
  /\ clears' = clears + 1
  /\ rows' = <<>> /\ items' = <<>> /\ summaries' = <<>>
  /\ work' = NotFresh(work, t)
  /\ Goto(t, "clear")
  /\ UNCHANGED <<history, next, lastRow, lastSum, faults, ghosts>>

ClearHistory(t) ==
  /\ pc[t] = "clear"
  /\ history' = <<>>
  /\ wiped' = 1..(next - 1)
  /\ Goto(t, "idle")
  /\ UNCHANGED <<next, db, work, counts, missed, cut, redone, tainted>>

Crash ==
  /\ faults < MaxFaults
  /\ faults' = faults + 1
  /\ pc' = [a \in Actors |-> IF a = Boot THEN "boot" ELSE IF a = Background THEN "idle" ELSE "off"]
  /\ work' = [a \in Actors |-> NoWork]
  /\ missed' = missed \cup UNION {ToSet(work[a].todo) : a \in Actors}
  /\ cut' = cut \cup UNION {Recorded(a) : a \in Actors}
  /\ UNCHANGED <<history, next, db, clears, redone, wiped, tainted>>

\* Bootstrap reads as many rows as the file has messages.  From the first difference on
\* rows and their items are deleted and the file's messages recorded anew; rows beyond
\* the file's end are not noticed.
Bootstrap ==
  LET place(r) == Cardinality({q \in DOMAIN rows : q <= r})
      read == Min({Cardinality(DOMAIN rows), Len(history)})
      same(p) == \A r \in DOMAIN rows : place(r) <= p => rows[r] = history[place(r)]
      match == Max({p \in 0..read : same(p)})
      old == IF match = read THEN {} ELSE {r \in DOMAIN rows : place(r) > match}
      delta == SubSeq(history, match + 1, Len(history))
  IN  /\ pc[Boot] = "boot"
      /\ rows' = [r \in DOMAIN rows \ old |-> rows[r]]
      /\ items' = Without({o \in DOMAIN items : items[o].row \in old})
      /\ Goto(Boot, IF delta = <<>> THEN "done" ELSE "add")
      /\ work' = [work EXCEPT ![Boot].todo = delta]
      /\ UNCHANGED <<history, next, lastRow, summaries, lastSum, counts, ghosts>>

Resume ==
  /\ pc[Boot] = "done"
  /\ pc' = [a \in Actors |-> IF a = Boot THEN "off" ELSE "idle"]
  /\ UNCHANGED <<history, next, db, work, counts, ghosts>>

----------------------------------------------------------------------------
Turn(t) ==
  \/ Begin(t) \/ End(t) \/ Abort(t) \/ Store(t) \/ StoreOnly(t)
  \/ CompactContext(t) \/ UnderBudget(t) \/ SelectLeaf(t) \/ Summarize(t) \/ ReplaceLeaf(t)
  \/ StartCondensing(t) \/ ClearMemory(t) \/ ClearHistory(t)

Record(a) == AddRow(a) \/ AppendContext(a) \/ IngestFails(a)

Condense(a) ==
  SelectCandidates(a) \/ Merge(a) \/ Locate(a) \/ ReplaceCandidates(a) \/ CompactFails(a)

MemoryNext ==
  \/ \E t \in Turns : Turn(t) \/ Record(t) \/ Condense(t)
  \/ Record(Boot) \/ Condense(Background)
  \/ Crash \/ Bootstrap \/ Resume

MemorySpec == MemoryInit /\ [][MemoryNext]_memoryVars

----------------------------------------------------------------------------
\* Properties

\* All of them are checked and proved with one turn of the session at a time (OneTurn).

\* Assemble and compactLeaf fail on an item whose row or summary is gone, and go on
\* failing: there never is one, however a clearing, a restart and a condensation that waits
\* for the provider meet.  One turn at a time.
Resolvable == \A o \in DOMAIN items : ~Dangling(items[o])

InFlight == UNION {ToSet(work[a].todo) \cup Recorded(a) : a \in Actors}
Settled == pc[Boot] # "boot" /\ \A t \in Turns : pc[t] # "clear"

\* The context tells of every message of the session that was given to Ingest, itself or in
\* a summary, whatever is being condensed while messages arrive, summaries are made, calls
\* fail and the process ends.  Excepted are, until a restart records them, the messages of
\* the file that the turn never gave to Ingest (results of tools denied or skipped and of
\* sub-turns) and those whose recording was cut short; and sessions in which two
\* condensations, or a condensation and a clearing, overlapped.  One turn at a time.
NothingForgotten ==
  (Settled /\ ~tainted) => ToSet(history) \subseteq Remembered \cup InFlight \cup missed \cup cut

\* The context tells of the session's messages in their order and of each only once, save
\* those a restart has recorded again, also when a restart records a message that only the
\* file had amid others the context already told of.  One turn at a time.
Orderly(item) == (Tells(item) \cap ToSet(history)) \ redone
OnceInOrder ==
  ~tainted => \A o, p \in DOMAIN items :
    o < p => \A m \in Orderly(items[o]), n \in Orderly(items[p]) : m < n

\* What a cleared session held does not return, though a condensation of it may finish
\* after the clearing.  One turn at a time.
ClearedStaysCleared == Remembered \cap wiped = {}

\* Not so: the context tells of all the session's file holds; what was stored in the file
\* alone reaches it with the next restart.
EverythingTold ==
  (Settled /\ ~tainted /\ faults = 0) => ToSet(history) \subseteq Remembered \cup InFlight

\* Not so: two condensations that overlap forget messages or tell of them twice.
CondensedTogether ==
  Settled => ToSet(history) \subseteq Remembered \cup InFlight \cup missed \cup cut

\* Not so: every restart brings the context back to the session's file
\* (short_engine.go:395); a message whose row was written and whose item was not stays
\* out of it.
Reconciled == pc[Boot] = "done" => ToSet(history) \subseteq Remembered \cup missed
=============================================================================
