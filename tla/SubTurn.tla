------------------------------- MODULE SubTurn -------------------------------
(***************************************************************************)
(* Sub-turns: a running turn starts child turns through the subagent tool  *)
(* (synchronous: the tool call waits) or the spawn tool (asynchronous: a   *)
(* goroutine of its own), at most maxConcurrent of a parent at once and    *)
(* never deeper than maxDepth.  The result of an asynchronous child goes   *)
(* into the pendingResults channel of its parent, which polls it between   *)
(* tool calls; HardAbort finishes a turn and cascades to its children.     *)
(*                                                                         *)
(* Turns are numbered in the order they are spawned; 0 is the turn of a    *)
(* user's message.  The inside of a turn is abstracted to what it does to  *)
(* other turns: spawning, polling, and the way it ends.  Only HardAbort    *)
(* calls turnState.Finish, always with isHardAbort, so the flag            *)
(* parentEnded never rises and is left out.  The history that HardAbort    *)
(* rolls back belongs to the session, which this module does not hold.     *)
(***************************************************************************)
EXTENDS Integers, Sequences, FiniteSets

CONSTANTS
  NumSubs,        \* bound on the sub-turns of a run
  MaxDepth,       \* subTurnRuntimeConfig.maxDepth
  MaxConcurrent,  \* subTurnRuntimeConfig.maxConcurrent
  Capacity,       \* capacity of pendingResults
  MaxAborts       \* bound on the calls of HardAbort

Root  == 0
Subs  == 1 .. NumSubs
Turns == 0 .. NumSubs

ASSUME SubTurnAssumption ==
  /\ NumSubs \in Nat
  /\ MaxDepth \in Nat \ {0}
  /\ MaxConcurrent \in Nat \ {0}
  /\ Capacity \in Nat \ {0}
  /\ MaxAborts \in Nat

VARIABLES
  pc,             \* the step of each turn's goroutine in spawnSubTurn
  parent,         \* the turn that spawned it (Root is its own)
  depth,          \* turnState.depth
  async,          \* SubTurnConfig.Async
  sem,            \* slots in use of the concurrencySem of each turn
  holds,          \* semAcquired: the child owns a slot of its parent
  chan,           \* pendingResults of each turn: the children whose result it holds
  closed,         \* pendingResults and finishedChan are closed
  isFinished,     \* turnState.isFinished
  cancelled,      \* the context of the turn was canceled by Finish
  children,       \* childTurnIDs
  active,         \* keys of activeTurnStates
  fin,            \* the progress of a Finish(true) of each turn
  aborts,         \* calls of HardAbort so far
  todo,           \* the children a Finish has yet to look up
  outcome,        \* how the turn ended
  events,         \* the delivery events emitted for its result
  received        \* the results a turn has taken from its channel

vars == <<pc, parent, depth, async, sem, holds, chan, closed, isFinished,
          cancelled, children, active, fin, aborts, todo, outcome, events, received>>

spawnVars  == <<parent, depth, async>>
finishVars == <<closed, isFinished, cancelled, fin, aborts, todo>>
resultVars == <<chan, events, received>>

Init ==
  /\ pc = [t \in Turns |-> IF t = Root THEN "running" ELSE "idle"]
  /\ parent = [t \in Turns |-> Root]
  /\ depth = [t \in Turns |-> 0]
  /\ async = [t \in Turns |-> FALSE]
  /\ sem = [t \in Turns |-> 0]
  /\ holds = [t \in Turns |-> FALSE]
  /\ chan = [t \in Turns |-> <<>>]
  /\ closed = [t \in Turns |-> FALSE]
  /\ isFinished = [t \in Turns |-> FALSE]
  /\ cancelled = [t \in Turns |-> FALSE]
  /\ children = [t \in Turns |-> {}]
  /\ active = {Root}
  /\ fin = [t \in Turns |-> "no"]
  /\ aborts = 0
  /\ todo = [t \in Turns |-> {}]
  /\ outcome = [t \in Turns |-> "none"]
  /\ events = [t \in Turns |-> {}]
  /\ received = [t \in Turns |-> {}]

\* A turn waits inside the tool call that spawned a synchronous child.
InTool(t) ==
  \E c \in Subs :
    parent[c] = t /\ ~async[c] /\ pc[c] \notin {"idle", "done"}

Runs(t) == pc[t] = "running" /\ ~InTool(t)

\* The context of the tool call that spawned a child is over.
SpawnContextDone(c) == pc[parent[c]] # "running" \/ cancelled[parent[c]]

SlotsOf(s, p, n) == [s EXCEPT ![p] = @ + n]

\* A child gives its slot back if it has one.
ReleaseSlot(c) ==
  /\ sem' = IF holds[c] THEN SlotsOf(sem, parent[c], -1) ELSE sem
  /\ holds' = [holds EXCEPT ![c] = FALSE]

----------------------------------------------------------------------------
\* spawnSubTurn

\* The subagent or the spawn tool calls SpawnSubTurn from a tool call of p.
Spawn(p, c, isAsync) ==
  /\ Runs(p)
  /\ pc[c] = "idle"
  /\ \A d \in Subs : d < c => pc[d] # "idle"
  /\ pc' = [pc EXCEPT ![c] = "acquire"]
  /\ parent' = [parent EXCEPT ![c] = p]
  /\ depth' = [depth EXCEPT ![c] = depth[p] + 1]
  /\ async' = [async EXCEPT ![c] = isAsync]
  /\ UNCHANGED <<sem, holds, children, active, outcome, finishVars, resultVars>>

\* A slot of the parent; the turn of a user's message has no semaphore.
Acquire(c) ==
  /\ pc[c] = "acquire"
  /\ \/ /\ parent[c] = Root
        /\ UNCHANGED <<sem, holds>>
     \/ /\ parent[c] # Root
        /\ sem[parent[c]] < MaxConcurrent
        /\ sem' = SlotsOf(sem, parent[c], 1)
        /\ holds' = [holds EXCEPT ![c] = TRUE]
  /\ pc' = [pc EXCEPT ![c] = "checks"]
  /\ UNCHANGED <<children, active, outcome, spawnVars, finishVars, resultVars>>

\* concurrencyTimeout passes with every slot taken, or the context is over.
AcquireFails(c) ==
  /\ pc[c] = "acquire"
  /\ parent[c] # Root
  /\ sem[parent[c]] = MaxConcurrent \/ SpawnContextDone(c)
  /\ pc' = [pc EXCEPT ![c] = "done"]
  /\ outcome' = [outcome EXCEPT ![c] = "refused"]
  /\ UNCHANGED <<sem, holds, children, active, spawnVars, finishVars, resultVars>>

\* (mutant of Refuse) an early return that forgets the slot.
RefuseKeepsSlot(c, validConfig) ==
  /\ pc[c] = "checks"
  /\ depth[parent[c]] >= MaxDepth \/ ~validConfig
  /\ pc' = [pc EXCEPT ![c] = "done"]
  /\ outcome' = [outcome EXCEPT ![c] = "refused"]
  /\ UNCHANGED <<sem, holds, children, active, spawnVars, finishVars, resultVars>>

\* The depth limit, or a configuration without a model: the deferred release
\* gives the slot back.
Refuse(c, validConfig) ==
  /\ pc[c] = "checks"
  /\ depth[parent[c]] >= MaxDepth \/ ~validConfig
  /\ ReleaseSlot(c)
  /\ pc' = [pc EXCEPT ![c] = "done"]
  /\ outcome' = [outcome EXCEPT ![c] = "refused"]
  /\ UNCHANGED <<children, active, spawnVars, finishVars, resultVars>>

\* The child's turn state is made, with a channel and a semaphore of its own,
\* and stored in activeTurnStates.
Register(c) ==
  /\ pc[c] = "checks"
  /\ depth[parent[c]] < MaxDepth
  /\ active' = active \cup {c}
  /\ pc' = [pc EXCEPT ![c] = "link"]
  /\ UNCHANGED <<sem, holds, children, outcome, spawnVars, finishVars, resultVars>>

\* Only then does it join the childTurnIDs of its parent, and runs.
Link(c) ==
  /\ pc[c] = "link"
  /\ children' = [children EXCEPT ![parent[c]] = @ \cup {c}]
  /\ pc' = [pc EXCEPT ![c] = "running"]
  /\ UNCHANGED <<sem, holds, active, outcome, spawnVars, finishVars, resultVars>>

\* runTurn returns or panics; its defer takes the turn out of activeTurnStates.
\* A panic unwinds past the release of the slot, straight to the cleanup.
RunEnds(t, o) ==
  /\ Runs(t)
  /\ active' = active \ {t}
  /\ outcome' = [outcome EXCEPT ![t] = o]
  /\ pc' = [pc EXCEPT ![t] = IF t = Root THEN "done"
                             ELSE IF o = "panic" THEN "deliver" ELSE "ran"]
  /\ UNCHANGED <<sem, holds, children, spawnVars, finishVars, resultVars>>

\* The slot is given back as soon as runTurn has returned.
Release(c) ==
  /\ pc[c] = "ran"
  /\ ReleaseSlot(c)
  /\ pc' = [pc EXCEPT ![c] = "deliver"]
  /\ UNCHANGED <<children, active, outcome, spawnVars, finishVars, resultVars>>

----------------------------------------------------------------------------
\* deliverSubTurnResult

\* An orphan event is emitted, unless a panic left no result to speak of.
Orphan(c) ==
  events' = [events EXCEPT ![c] = IF outcome[c] = "panic" THEN @ ELSE @ \cup {"orphan"}]

\* The remaining deferred calls: the end event, the deletion from
\* activeTurnStates, the cancellation, and the slot a panic left taken.
Cleanup(c) ==
  /\ ReleaseSlot(c)
  /\ active' = active \ {c}
  /\ pc' = [pc EXCEPT ![c] = "done"]
  /\ UNCHANGED <<children, outcome, spawnVars, finishVars>>

\* A synchronous result is the return value.
Return(c) ==
  /\ pc[c] = "deliver"
  /\ ~async[c]
  /\ Cleanup(c)
  /\ UNCHANGED resultVars

\* isFinished and the channel are read under the lock; the channel of the
\* user's turn is nil.
DeliverToNobody(c) ==
  /\ pc[c] = "deliver"
  /\ async[c]
  /\ isFinished[parent[c]] \/ parent[c] = Root
  /\ Orphan(c)
  /\ Cleanup(c)
  /\ UNCHANGED <<chan, received>>

\* The lock is released before the channel is written to.
StartSend(c) ==
  /\ pc[c] = "deliver"
  /\ async[c]
  /\ ~isFinished[parent[c]] /\ parent[c] # Root
  /\ pc' = [pc EXCEPT ![c] = "send"]
  /\ UNCHANGED <<sem, holds, children, active, outcome, spawnVars, finishVars, resultVars>>

\* The result goes into the channel.  After a panic the result is nil: it is
\* sent, and reading its length panics before the event is emitted.
Send(c) ==
  /\ pc[c] = "send"
  /\ ~closed[parent[c]]
  /\ Len(chan[parent[c]]) < Capacity
  /\ chan' = [chan EXCEPT ![parent[c]] = Append(@, c)]
  /\ events' = [events EXCEPT ![c] = IF outcome[c] = "panic" THEN @
                                     ELSE @ \cup {"delivered"}]
  /\ Cleanup(c)
  /\ UNCHANGED received

\* (mutant of SendGivesUp) the late result is dropped without an event.
SendGivesUpSilently(c) ==
  /\ pc[c] = "send"
  /\ closed[parent[c]]
  /\ Cleanup(c)
  /\ UNCHANGED resultVars

\* The parent was finished meanwhile: Finished() is ready, and a send on the
\* closed channel panics and is recovered.
SendGivesUp(c) ==
  /\ pc[c] = "send"
  /\ closed[parent[c]]
  /\ Orphan(c)
  /\ Cleanup(c)
  /\ UNCHANGED <<chan, received>>

\* runTurn and the tool loop take one result without waiting.
Poll(t) ==
  /\ Runs(t)
  /\ chan[t] # <<>>
  /\ chan' = [chan EXCEPT ![t] = Tail(@)]
  /\ received' = [received EXCEPT
       ![t] = IF outcome[Head(chan[t])] = "panic" THEN @ ELSE @ \cup {Head(chan[t])}]
  /\ UNCHANGED <<pc, sem, holds, children, active, outcome, events, spawnVars, finishVars>>

----------------------------------------------------------------------------
\* HardAbort and turnState.Finish(true)

\* No Finish of the turn is under way: none began, or its cascade is over.
NoFinish(t) == fin[t] = "no" \/ (fin[t] = "cascade" /\ todo[t] = {})

\* Finds the turn of the session key in activeTurnStates and finishes it.  The
\* turn of a user's message has no channel, no cancelFunc and no loop to cascade
\* with: finishing it raises flags nobody reads, and is left out.
HardAbort(t) ==
  /\ aborts < MaxAborts
  /\ aborts' = aborts + 1
  /\ t \in active
  /\ NoFinish(t)
  /\ fin' = [fin EXCEPT ![t] = "mark"]
  /\ UNCHANGED <<pc, sem, holds, children, active, outcome, closed, isFinished,
                 cancelled, todo, spawnVars, resultVars>>

FinishMark(t) ==
  /\ fin[t] = "mark"
  /\ isFinished' = [isFinished EXCEPT ![t] = TRUE]
  /\ fin' = [fin EXCEPT ![t] = "close"]
  /\ UNCHANGED <<pc, sem, holds, children, active, outcome, closed, cancelled,
                 aborts, todo, spawnVars, resultVars>>

\* (mutant of FinishClose) only the context is canceled.
FinishWithoutClosing(t) ==
  /\ fin[t] = "close"
  /\ cancelled' = [cancelled EXCEPT ![t] = TRUE]
  /\ todo' = [todo EXCEPT ![t] = children[t]]
  /\ fin' = [fin EXCEPT ![t] = "cascade"]
  /\ UNCHANGED <<pc, sem, holds, children, active, outcome, closed, isFinished,
                 aborts, spawnVars, resultVars>>

\* Closes both channels once, cancels the context, copies childTurnIDs.
FinishClose(t) ==
  /\ fin[t] = "close"
  /\ closed' = [closed EXCEPT ![t] = TRUE]
  /\ cancelled' = [cancelled EXCEPT ![t] = TRUE]
  /\ todo' = [todo EXCEPT ![t] = children[t]]
  /\ fin' = [fin EXCEPT ![t] = "cascade"]
  /\ UNCHANGED <<pc, sem, holds, children, active, outcome, isFinished,
                 aborts, spawnVars, resultVars>>

\* (mutant of FinishChild) returns after the first child.
FinishFirstChild(t, c) ==
  /\ fin[t] = "cascade"
  /\ c \in todo[t]
  /\ todo' = [todo EXCEPT ![t] = {}]
  /\ fin' = IF c \in active /\ NoFinish(c) THEN [fin EXCEPT ![c] = "mark"] ELSE fin
  /\ UNCHANGED <<pc, sem, holds, children, active, outcome, closed, isFinished,
                 cancelled, aborts, spawnVars, resultVars>>

\* Looks one child up and finishes it if it is still registered.
FinishChild(t, c) ==
  /\ fin[t] = "cascade"
  /\ c \in todo[t]
  /\ todo' = [todo EXCEPT ![t] = @ \ {c}]
  /\ fin' = IF c \in active /\ NoFinish(c) THEN [fin EXCEPT ![c] = "mark"] ELSE fin
  /\ UNCHANGED <<pc, sem, holds, children, active, outcome, closed, isFinished,
                 cancelled, aborts, spawnVars, resultVars>>

----------------------------------------------------------------------------
Finish(t) ==
  \/ FinishMark(t)
  \/ FinishClose(t)
  \/ \E c \in Subs : FinishChild(t, c)

\* What the goroutine of a child does outside of runTurn.
Around(c) ==
  \/ Acquire(c) \/ AcquireFails(c)
  \/ \E valid \in BOOLEAN : Refuse(c, valid)
  \/ Register(c) \/ Link(c)
  \/ Release(c) \/ Return(c) \/ DeliverToNobody(c)
  \/ StartSend(c) \/ Send(c) \/ SendGivesUp(c)

Ends(t) == \E o \in {"returned", "panic"} : RunEnds(t, o)

Next ==
  \/ \E p \in Turns, c \in Subs, isAsync \in BOOLEAN : Spawn(p, c, isAsync)
  \/ \E c \in Subs : Around(c)
  \/ \E t \in Turns : Ends(t)
  \/ \E t \in Subs : Poll(t) \/ HardAbort(t) \/ Finish(t)

Spec == Init /\ [][Next]_vars

\* As long as spawnSubTurn outside of runTurn, or a Finish, can go on somewhere,
\* it does somewhere; it has a finite amount of work.  Nothing makes a turn end,
\* poll, spawn or be aborted.
FairSpec == Spec /\ WF_vars(\E c \in Subs : Around(c) \/ Finish(c))

----------------------------------------------------------------------------
\* Properties

Steps == {"idle", "acquire", "checks", "link", "running", "ran", "deliver",
          "send", "done"}

TypeOK ==
  /\ pc \in [Turns -> Steps]
  /\ parent \in [Turns -> Turns]
  /\ depth \in [Turns -> Nat]
  /\ async \in [Turns -> BOOLEAN]
  /\ sem \in [Turns -> 0 .. MaxConcurrent]
  /\ holds \in [Turns -> BOOLEAN]
  /\ chan \in [Turns -> Seq(Subs)]
  /\ closed \in [Turns -> BOOLEAN]
  /\ isFinished \in [Turns -> BOOLEAN]
  /\ cancelled \in [Turns -> BOOLEAN]
  /\ children \in [Turns -> SUBSET Subs]
  /\ active \subseteq Turns
  /\ fin \in [Turns -> {"no", "mark", "close", "cascade"}]
  /\ aborts \in 0 .. MaxAborts
  /\ todo \in [Turns -> SUBSET Subs]
  /\ outcome \in [Turns -> {"none", "returned", "panic", "refused"}]
  /\ events \in [Turns -> SUBSET {"delivered", "orphan"}]
  /\ received \in [Turns -> SUBSET Subs]

\* The children that own a slot of a turn.
Holders(p) == {c \in Subs : parent[c] = p /\ holds[c]}

\* The slots in use of a turn are those its children own, and no slot leaks on
\* any of the ways out of spawnSubTurn.
SlotsCounted ==
  /\ \A p \in Turns : sem[p] = Cardinality(Holders(p))
  /\ \A c \in Subs : holds[c] => pc[c] \notin {"idle", "acquire", "done"}

\* A turn runs only within the depth limit, and a channel holds no more results
\* than it has room for.
WithinLimits ==
  /\ \A t \in Turns : pc[t] \in {"link", "running"} => depth[t] <= MaxDepth
  /\ \A t \in Turns : Len(chan[t]) <= Capacity

IInv == TypeOK /\ SlotsCounted /\ WithinLimits

InChannel(c) == \E i \in DOMAIN chan[parent[c]] : chan[parent[c]][i] = c

\* The result of an asynchronous sub-turn goes to exactly one place, whatever
\* the parent does meanwhile: its channel or its messages with a delivered
\* event, or an orphan event; a synchronous one is returned and nothing else.
ResultGoesToOnePlace ==
  \A c \in Subs :
    pc[c] = "done" /\ outcome[c] = "returned" =>
      LET taken == InChannel(c) \/ c \in received[parent[c]]
      IN  IF async[c]
          THEN events[c] = IF taken THEN {"delivered"} ELSE {"orphan"}
          ELSE events[c] = {} /\ ~taken

\* A slot that is kept during the delivery is that of a child that panicked: on
\* every other way the slot is free before the child may wait for the channel of
\* its parent.  (A panic unwinds past the early release, so such a child does keep
\* its slot for as long as the channel is full.)
SlotKeptOnlyByPanic ==
  \A c \in Subs : pc[c] \in {"deliver", "send"} /\ holds[c] => outcome[c] = "panic"

\* The deliveries to a parent that was finished.
Stranded == {c \in Subs : pc[c] = "send" /\ isFinished[parent[c]]}

\* Deliveries blocked on a full channel end once their parent is finished: a hard
\* abort leaks no goroutine.
AbortFreesDelivery == Stranded # {} ~> Stranded = {}

\* A hard abort of a sub-turn cancels every child linked to it that still runs, and
\* the children linked to those, while other children come and go.
AbortReachesChildren ==
  \A c \in Subs :
    (c \in active /\ \E t \in Subs : fin[t] = "mark" /\ c \in children[t])
      ~> (cancelled[c] \/ c \notin active)
=============================================================================
