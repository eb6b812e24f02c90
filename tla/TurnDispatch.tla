----------------------------- MODULE TurnDispatch -----------------------------
(***************************************************************************)
(* How the agent loop of HomeClaw turns inbound messages into turns.       *)
(*                                                                         *)
(* One dispatcher goroutine (AgentLoop.Run) reads the inbound channel.  For *)
(* a routable message it claims the message's session in activeTurnStates  *)
(* with a placeholder and starts a worker goroutine; when the session is   *)
(* taken it pushes the message on the session's steering queue instead.    *)
(* A worker waits for a slot of workerSem, runs the turn of its message,   *)
(* then drains the steering queue with Continue, one continuation turn per *)
(* Continue, and leaves through its deferred functions.                    *)
(*                                                                         *)
(* A worker is named by the message it was started for.  The inside of a   *)
(* turn (LLM calls, tools, history) is abstracted to its polls of the      *)
(* steering queue and to the way it ends.                                  *)
(***************************************************************************)
EXTENDS Integers, Sequences, FiniteSets

CONSTANTS
  NumInbound,       \* number of inbound messages; they are 1..NumInbound
  SystemMsgs,       \* the inbound messages of channel "system"
  ApiMsgs,          \* messages given to AgentLoop.Steer
  Sessions,         \* session keys
  SessionOf,        \* the session key each inbound message resolves to
  MaxParallelTurns, \* capacity of workerSem
  MaxQueueSize,     \* capacity of each steering queue
  SteeringAll,      \* TRUE: steering mode "all"; FALSE: "one-at-a-time"
  TurnOutcomes,     \* the ways a turn may end
  EarlyExits,       \* the ways processMessage or Continue may end before runTurn
  Manual            \* the legacy fallback scope of the steering queue

Inbound == 1 .. NumInbound
Scopes  == Sessions \cup {Manual}

ASSUME DispatchAssumption ==
  /\ NumInbound \in Nat
  /\ SystemMsgs \subseteq Inbound
  /\ ApiMsgs \cap Inbound = {}
  /\ SessionOf \in [Inbound -> Sessions]
  /\ Manual \notin Sessions
  /\ MaxParallelTurns \in Nat \ {0}
  /\ MaxQueueSize \in Nat \ {0}
  /\ SteeringAll \in BOOLEAN
  /\ TurnOutcomes \subseteq {"ok", "error", "aborted", "canceled", "panic"}
  /\ EarlyExits \subseteq {"command", "routeError", "panic", "initError"}

VARIABLES
  arrived,          \* how many inbound messages have been published
  inbound,          \* the inbound channel
  running,          \* FALSE once Stop was called or the context was canceled
  ctxDone,          \* the context of Run is canceled
  dispatcher,       \* the goroutine of Run: its step and the message it holds
  activeTurnStates, \* session key -> placeholder or turn
  queues,           \* steering queues by scope
  workerSem,        \* slots of the worker semaphore in use
  pc,               \* the step of each worker
  fresh,            \* the turn has not yet polled at its first iteration
  continued,        \* the worker's turn was started by Continue
  outcome,          \* how the worker's last turn ended
  steer,            \* the scope each Steer call has read, or its progress
  log,              \* history: steering messages in the order they left a queue
  dropped           \* history: messages refused by a full queue

vars == <<arrived, inbound, running, ctxDone, dispatcher, activeTurnStates,
          queues, workerSem, pc, fresh, continued, outcome, steer, log, dropped>>

NoEntry == [pending |-> FALSE, owner |-> 0]
Entry   == [pending : BOOLEAN, owner : Inbound \cup {0}]

Steps == {"unborn", "waitSem", "run", "turn", "clear", "drain", "continue",
          "claimed", "resume", "release", "cleanup", "done"}

\* The steps between acquiring and releasing a slot of workerSem.
SlotSteps == {"run", "turn", "clear", "drain", "continue", "claimed",
              "resume", "release"}

Goto(m, step) == pc' = [pc EXCEPT ![m] = step]

Store(s, e) == activeTurnStates' = [activeTurnStates EXCEPT ![s] = e]

Delete(s) == Store(s, NoEntry)

\* A turnID with the prefix "pending-", whoever stored it.
IsPlaceholder(e) == e # NoEntry /\ e.pending

-------------------------------------------------------------------------------
(* The steering queue: each operation holds the queue's mutex throughout. *)

PushScope(scope, msg) ==
  IF Len(queues[scope]) >= MaxQueueSize
  THEN /\ dropped' = dropped \cup {msg}
       /\ UNCHANGED queues
  ELSE /\ queues' = [queues EXCEPT ![scope] = Append(@, msg)]
       /\ UNCHANGED dropped

\* How many messages one dequeue takes from a queue, by mode.
BatchSize(scope) ==
  IF SteeringAll THEN Len(queues[scope])
  ELSE IF queues[scope] = <<>> THEN 0 ELSE 1

\* (mutant of DequeueScope) forgets the rest of the queue it took one of.
DequeueForgets(m, scope) ==
  LET n == BatchSize(scope)
  IN  /\ queues' = [queues EXCEPT ![scope] = <<>>]
      /\ log' = log \o [i \in 1 .. n |-> [msg |-> queues[scope][i], by |-> m]]

\* (mutant of DequeueScope) takes from the wrong end.
DequeueNewest(m, scope) ==
  LET n == BatchSize(scope)
      k == Len(queues[scope]) - n
  IN  /\ queues' = [queues EXCEPT ![scope] = SubSeq(@, 1, k)]
      /\ log' = log \o [i \in 1 .. n |-> [msg |-> queues[scope][k + i], by |-> m]]

\* The turn of worker m takes a batch from scope.
DequeueScope(m, scope) ==
  LET n == BatchSize(scope)
  IN  /\ queues' = [queues EXCEPT ![scope] = SubSeq(@, n + 1, Len(@))]
      /\ log' = log \o [i \in 1 .. n |-> [msg |-> queues[scope][i], by |-> m]]

\* (mutant of FallbackScope) falls back to any queue that has something.
FallbackAnywhere(s) ==
  IF queues[s] # <<>> \/ \A t \in Scopes : queues[t] = <<>> THEN s
  ELSE CHOOSE t \in Scopes : queues[t] # <<>>

FallbackScope(s) == IF queues[s] # <<>> THEN s ELSE Manual

-------------------------------------------------------------------------------
Init ==
  /\ arrived = 0
  /\ inbound = <<>>
  /\ running = TRUE
  /\ ctxDone = FALSE
  /\ dispatcher = [at |-> "receive", msg |-> 0]
  /\ activeTurnStates = [s \in Sessions |-> NoEntry]
  /\ queues = [s \in Scopes |-> <<>>]
  /\ workerSem = 0
  /\ pc = [m \in Inbound |-> "unborn"]
  /\ fresh = [m \in Inbound |-> FALSE]
  /\ continued = [m \in Inbound |-> FALSE]
  /\ outcome = [m \in Inbound |-> "ok"]
  /\ steer = [a \in ApiMsgs |-> "idle"]
  /\ log = <<>>
  /\ dropped = {}

(* The environment: a channel publishes the next message, the gateway      *)
(* cancels the context, Stop clears the running flag.                      *)

Arrive ==
  /\ arrived < NumInbound
  /\ arrived' = arrived + 1
  /\ inbound' = Append(inbound, arrived + 1)
  /\ UNCHANGED <<running, ctxDone, dispatcher, activeTurnStates, queues,
                 workerSem, pc, fresh, continued, outcome, steer, log, dropped>>

Cancel ==
  /\ ~ctxDone
  /\ "canceled" \in TurnOutcomes
  /\ ctxDone' = TRUE
  /\ UNCHANGED <<arrived, inbound, running, dispatcher, activeTurnStates, queues,
                 workerSem, pc, fresh, continued, outcome, steer, log, dropped>>

Stop ==
  /\ running
  /\ "canceled" \in TurnOutcomes
  /\ running' = FALSE
  /\ UNCHANGED <<arrived, inbound, ctxDone, dispatcher, activeTurnStates, queues,
                 workerSem, pc, fresh, continued, outcome, steer, log, dropped>>

-------------------------------------------------------------------------------
(* The dispatcher. *)

Receiving(m) ==
  /\ dispatcher.at = "receive"
  /\ inbound # <<>>
  /\ m = Head(inbound)
  /\ inbound' = Tail(inbound)

\* A system message is processed by the dispatcher itself: it leaves the
\* receive loop until the turn is over.
ReceiveSystem(m) ==
  /\ Receiving(m)
  /\ m \in SystemMsgs
  /\ dispatcher' = [at |-> "sync", msg |-> m]
  /\ Goto(m, "run")
  /\ UNCHANGED <<arrived, running, ctxDone, activeTurnStates, queues, workerSem,
                 fresh, continued, outcome, steer, log, dropped>>

\* LoadOrStore found the session taken: the message goes to the queue.
ReceiveBusy(m) ==
  /\ Receiving(m)
  /\ m \notin SystemMsgs
  /\ activeTurnStates[SessionOf[m]] # NoEntry
  /\ dispatcher' = [at |-> "enqueue", msg |-> m]
  /\ UNCHANGED <<arrived, running, ctxDone, activeTurnStates, queues, workerSem,
                 pc, fresh, continued, outcome, steer, log, dropped>>

\* (mutant of ReceiveClaim) takes the slot before it starts the worker.
ReceiveClaimWithSlot(m) ==
  /\ Receiving(m)
  /\ m \notin SystemMsgs
  /\ activeTurnStates[SessionOf[m]] = NoEntry
  /\ workerSem < MaxParallelTurns
  /\ workerSem' = workerSem + 1
  /\ Store(SessionOf[m], [pending |-> TRUE, owner |-> m])
  /\ Goto(m, "run")
  /\ UNCHANGED <<arrived, running, ctxDone, dispatcher, queues, fresh,
                 continued, outcome, steer, log, dropped>>

\* LoadOrStore stored the placeholder: a worker is started.
ReceiveClaim(m) ==
  /\ Receiving(m)
  /\ m \notin SystemMsgs
  /\ activeTurnStates[SessionOf[m]] = NoEntry
  /\ Store(SessionOf[m], [pending |-> TRUE, owner |-> m])
  /\ Goto(m, "waitSem")
  /\ UNCHANGED <<arrived, running, ctxDone, dispatcher, queues, workerSem, fresh,
                 continued, outcome, steer, log, dropped>>

\* The push happens after LoadOrStore, under no common lock.
Enqueue(m) ==
  /\ dispatcher = [at |-> "enqueue", msg |-> m]
  /\ PushScope(SessionOf[m], m)
  /\ dispatcher' = [at |-> "receive", msg |-> 0]
  /\ UNCHANGED <<arrived, inbound, running, ctxDone, activeTurnStates, workerSem,
                 pc, fresh, continued, outcome, steer, log>>

SyncReturn(m) ==
  /\ dispatcher = [at |-> "sync", msg |-> m]
  /\ pc[m] = "done"
  /\ dispatcher' = [at |-> "receive", msg |-> 0]
  /\ UNCHANGED <<arrived, inbound, running, ctxDone, activeTurnStates, queues,
                 workerSem, pc, fresh, continued, outcome, steer, log, dropped>>

RunExit ==
  /\ dispatcher.at = "receive"
  /\ ctxDone \/ ~running
  /\ dispatcher' = [at |-> "exited", msg |-> 0]
  /\ UNCHANGED <<arrived, inbound, running, ctxDone, activeTurnStates, queues,
                 workerSem, pc, fresh, continued, outcome, steer, log, dropped>>

-------------------------------------------------------------------------------
(* A worker: the slot. *)

AcquireSlot(m) ==
  /\ pc[m] = "waitSem"
  /\ workerSem < MaxParallelTurns
  /\ workerSem' = workerSem + 1
  /\ Goto(m, "run")
  /\ UNCHANGED <<arrived, inbound, running, ctxDone, dispatcher, activeTurnStates,
                 queues, fresh, continued, outcome, steer, log, dropped>>

\* Canceled while waiting for a slot: the claim is removed, unconditionally.
AbandonWait(m) ==
  /\ pc[m] = "waitSem"
  /\ ctxDone
  /\ Delete(SessionOf[m])
  /\ Goto(m, "done")
  /\ UNCHANGED <<arrived, inbound, running, ctxDone, dispatcher, queues, workerSem,
                 fresh, continued, outcome, steer, log, dropped>>

(* A worker: processMessage. *)

\* Where a goroutine goes when processMessage gives up before runTurn: a
\* command answered without a turn still enters the drain loop; a routing
\* error also fails buildContinuationTarget; a panic unwinds the worker.
EarlyExit(m, exit) ==
  /\ pc[m] = "run"
  /\ exit \in EarlyExits \cap {"command", "routeError", "panic"}
  /\ m \in SystemMsgs => exit = "routeError"
  /\ Goto(m, CASE m \in SystemMsgs    -> "done"
               [] exit = "command"    -> "drain"
               [] OTHER               -> "release")
  /\ UNCHANGED <<arrived, inbound, running, ctxDone, dispatcher, activeTurnStates,
                 queues, workerSem, fresh, continued, outcome, steer, log, dropped>>

\* registerActiveTurn: the turn replaces whatever entry the session has.
\* A turn of Continue starts with SkipInitialSteeringPoll.
RegisterTurn(m) ==
  /\ pc[m] \in {"run", "resume"}
  /\ Store(SessionOf[m], [pending |-> FALSE, owner |-> m])
  /\ fresh' = [fresh EXCEPT ![m] = pc[m] = "run"]
  /\ continued' = [continued EXCEPT ![m] = pc[m] = "resume"]
  /\ Goto(m, "turn")
  /\ UNCHANGED <<arrived, inbound, running, ctxDone, dispatcher, queues, workerSem,
                 outcome, steer, log, dropped>>

\* The poll of the first iteration, with the fallback to the manual scope.
FirstPoll(m) ==
  /\ pc[m] = "turn"
  /\ fresh[m]
  /\ DequeueScope(m, FallbackScope(SessionOf[m]))
  /\ fresh' = [fresh EXCEPT ![m] = FALSE]
  /\ UNCHANGED <<arrived, inbound, running, ctxDone, dispatcher, activeTurnStates,
                 workerSem, pc, continued, outcome, steer, dropped>>

\* The polls after a tool, after the last tool and after a direct answer.
Poll(m) ==
  /\ pc[m] = "turn"
  /\ ~fresh[m]
  /\ queues[SessionOf[m]] # <<>>
  /\ DequeueScope(m, SessionOf[m])
  /\ UNCHANGED <<arrived, inbound, running, ctxDone, dispatcher, activeTurnStates,
                 workerSem, pc, fresh, continued, outcome, steer, dropped>>

\* A turn completes only after a poll that found its queue empty; a failing
\* turn ends at any point.  (A panic in the dispatcher itself, under a system
\* message, ends the process.)
EndTurn(m, out) ==
  /\ pc[m] = "turn"
  /\ out \in TurnOutcomes
  /\ out = "ok" => ~fresh[m] /\ queues[SessionOf[m]] = <<>>
  /\ out = "canceled" => ctxDone
  /\ out = "panic" => m \notin SystemMsgs
  /\ outcome' = [outcome EXCEPT ![m] = out]
  /\ Goto(m, "clear")
  /\ UNCHANGED <<arrived, inbound, running, ctxDone, dispatcher, activeTurnStates,
                 queues, workerSem, fresh, continued, steer, log, dropped>>

\* After a failed turn the worker still drains, but not when the turn was one of
\* Continue, when it panicked, or when the context is gone.
DrainsAfter(m) ==
  /\ outcome[m] \notin {"panic", "canceled"}
  /\ continued[m] => outcome[m] = "ok"

\* clearActiveTurn deletes the session's entry, whoever stored it; then the
\* caller of the turn decides whether to go on draining.
ClearTurn(m) ==
  /\ pc[m] = "clear"
  /\ Delete(SessionOf[m])
  /\ Goto(m, IF m \in SystemMsgs THEN "done"
             ELSE IF DrainsAfter(m) THEN "drain" ELSE "release")
  /\ UNCHANGED <<arrived, inbound, running, ctxDone, dispatcher, queues, workerSem,
                 fresh, continued, outcome, steer, log, dropped>>

-------------------------------------------------------------------------------
(* A worker: the drain loop of runTurnWithSteering and Continue. *)

DrainCheck(m) ==
  /\ pc[m] = "drain"
  /\ Goto(m, IF queues[SessionOf[m]] = <<>> \/ ctxDone THEN "release"
             ELSE "continue")
  /\ UNCHANGED <<arrived, inbound, running, ctxDone, dispatcher, activeTurnStates,
                 queues, workerSem, fresh, continued, outcome, steer, log, dropped>>

\* Continue's LoadOrStore: an entry of anyone makes it give up.
ContinueClaim(m) ==
  /\ pc[m] = "continue"
  /\ IF activeTurnStates[SessionOf[m]] # NoEntry
     THEN /\ Goto(m, "release")
          /\ UNCHANGED activeTurnStates
     ELSE /\ Store(SessionOf[m], [pending |-> TRUE, owner |-> m])
          /\ Goto(m, "claimed")
  /\ UNCHANGED <<arrived, inbound, running, ctxDone, dispatcher, queues, workerSem,
                 fresh, continued, outcome, steer, log, dropped>>

\* Continue's dequeue; with nothing to continue the claim is given back.
ContinueDequeue(m) ==
  /\ pc[m] = "claimed"
  /\ LET scope == FallbackScope(SessionOf[m])
     IN  IF queues[scope] = <<>>
         THEN /\ Delete(SessionOf[m])
              /\ Goto(m, "release")
              /\ UNCHANGED <<queues, log>>
         ELSE /\ DequeueScope(m, scope)
              /\ Goto(m, "resume")
              /\ UNCHANGED activeTurnStates
  /\ UNCHANGED <<arrived, inbound, running, ctxDone, dispatcher, workerSem, fresh,
                 continued, outcome, steer, dropped>>

\* Hooks or MCP servers could not be initialised (again, after a reload).
ContinueInitError(m) ==
  /\ pc[m] = "claimed"
  /\ "initError" \in EarlyExits
  /\ Delete(SessionOf[m])
  /\ Goto(m, "release")
  /\ UNCHANGED <<arrived, inbound, running, ctxDone, dispatcher, queues, workerSem,
                 fresh, continued, outcome, steer, log, dropped>>

(* A worker: the deferred functions, last declared first. *)

ReleaseSlot(m) ==
  /\ pc[m] = "release"
  /\ workerSem' = workerSem - 1
  /\ Goto(m, "cleanup")
  /\ UNCHANGED <<arrived, inbound, running, ctxDone, dispatcher, activeTurnStates,
                 queues, fresh, continued, outcome, steer, log, dropped>>

\* (mutant of Cleanup) no safety net.
CleanupNothing(m) ==
  /\ pc[m] = "cleanup"
  /\ Goto(m, "done")
  /\ UNCHANGED <<arrived, inbound, running, ctxDone, dispatcher, activeTurnStates,
                 queues, workerSem, fresh, continued, outcome, steer, log, dropped>>

\* The safety net tests the prefix of the entry's turnID, not its owner.
Cleanup(m) ==
  /\ pc[m] = "cleanup"
  /\ IF IsPlaceholder(activeTurnStates[SessionOf[m]])
     THEN Delete(SessionOf[m])
     ELSE UNCHANGED activeTurnStates
  /\ Goto(m, "done")
  /\ UNCHANGED <<arrived, inbound, running, ctxDone, dispatcher, queues, workerSem,
                 fresh, continued, outcome, steer, log, dropped>>

-------------------------------------------------------------------------------
(* AgentLoop.Steer, called from outside: it reads the session key of any   *)
(* entry, and a placeholder has none; then it pushes.                      *)

SteerRead(a) ==
  /\ steer[a] = "idle"
  /\ \E scope \in Scopes :
       /\ \/ /\ scope \in Sessions
             /\ activeTurnStates[scope] # NoEntry
             /\ ~activeTurnStates[scope].pending
          \/ /\ scope = Manual
             /\ \/ \A s \in Sessions : activeTurnStates[s] = NoEntry
                \/ \E s \in Sessions : IsPlaceholder(activeTurnStates[s])
       /\ steer' = [steer EXCEPT ![a] = scope]
  /\ UNCHANGED <<arrived, inbound, running, ctxDone, dispatcher, activeTurnStates,
                 queues, workerSem, pc, fresh, continued, outcome, log, dropped>>

SteerPush(a) ==
  /\ steer[a] \in Scopes
  /\ PushScope(steer[a], a)
  /\ steer' = [steer EXCEPT ![a] = "done"]
  /\ UNCHANGED <<arrived, inbound, running, ctxDone, dispatcher, activeTurnStates,
                 workerSem, pc, fresh, continued, outcome, log>>

-------------------------------------------------------------------------------
Dispatch ==
  \/ RunExit
  \/ \E m \in Inbound :
       \/ ReceiveSystem(m)
       \/ ReceiveBusy(m)
       \/ ReceiveClaim(m)
       \/ Enqueue(m)
       \/ SyncReturn(m)

Worker(m) ==
  \/ AcquireSlot(m)
  \/ AbandonWait(m)
  \/ \E exit \in EarlyExits : EarlyExit(m, exit)
  \/ RegisterTurn(m)
  \/ FirstPoll(m)
  \/ Poll(m)
  \/ \E out \in TurnOutcomes : EndTurn(m, out)
  \/ ClearTurn(m)
  \/ DrainCheck(m)
  \/ ContinueClaim(m)
  \/ ContinueDequeue(m)
  \/ ContinueInitError(m)
  \/ ReleaseSlot(m)
  \/ Cleanup(m)

Environment ==
  \/ Arrive
  \/ Cancel
  \/ Stop
  \/ \E a \in ApiMsgs : SteerRead(a) \/ SteerPush(a)

Next ==
  \/ Environment
  \/ Dispatch
  \/ \E m \in Inbound : Worker(m)

Spec == Init /\ [][Next]_vars

(* Goroutines are scheduled, and a turn ends: its provider calls and tools *)
(* have timeouts.  Nothing is assumed of the environment.                  *)
FairSpec ==
  /\ Spec
  /\ WF_vars(Dispatch)
  /\ \A m \in Inbound : WF_vars(Worker(m))

(* Only the dispatcher is scheduled: workers may hang for ever.            *)
DispatcherOnlySpec == Spec /\ WF_vars(Dispatch)

-------------------------------------------------------------------------------
(* Properties. *)

\* The types of the variables, with the bounds of the queues and the slots.
TypeOK ==
  /\ arrived \in 0 .. NumInbound
  /\ inbound \in Seq(Inbound)
  /\ running \in BOOLEAN
  /\ ctxDone \in BOOLEAN
  /\ dispatcher \in [at : {"receive", "enqueue", "sync", "exited"},
                     msg : Inbound \cup {0}]
  /\ activeTurnStates \in [Sessions -> Entry]
  /\ queues \in [Scopes -> Seq(Inbound \cup ApiMsgs)]
  /\ \A s \in Scopes : Len(queues[s]) <= MaxQueueSize
  /\ workerSem \in 0 .. MaxParallelTurns
  /\ pc \in [Inbound -> Steps]
  /\ fresh \in [Inbound -> BOOLEAN]
  /\ continued \in [Inbound -> BOOLEAN]
  /\ outcome \in [Inbound -> TurnOutcomes \cup {"ok"}]
  /\ steer \in [ApiMsgs -> Scopes \cup {"idle", "done"}]
  /\ log \in Seq([msg : Inbound \cup ApiMsgs, by : Inbound])
  /\ dropped \subseteq Inbound \cup ApiMsgs

\* A session is never wedged: whoever stored the entry of a session is a
\* goroutine still on its way to the deletion of that entry.  Otherwise every
\* later message of the session would be queued for nobody.
ClaimHasLiveOwner ==
  \A s \in Sessions :
    activeTurnStates[s] # NoEntry =>
      LET o == activeTurnStates[s].owner
      IN  /\ o \in Inbound
          /\ SessionOf[o] = s
          /\ pc[o] \notin {"unborn", "done"}

\* Where message m is, a queue or the log counted once per index.
Places(m) ==
  {<<"inbound", i>> : i \in {j \in DOMAIN inbound : inbound[j] = m}}
  \cup {p \in Scopes \X (1 .. MaxQueueSize) :
          p[2] <= Len(queues[p[1]]) /\ queues[p[1]][p[2]] = m}
  \cup {<<"steered", i>> : i \in {j \in DOMAIN log : log[j].msg = m}}
  \cup {p \in {<<"held", 0>>, <<"turn", 0>>, <<"dropped", 0>>} :
          \/ p[1] = "held" /\ dispatcher = [at |-> "enqueue", msg |-> m]
          \/ p[1] = "turn" /\ pc[m] # "unborn"
          \/ p[1] = "dropped" /\ m \in dropped}

\* No message is lost without a warning and none is given to two turns: every
\* published message is in exactly one place - the channel, the dispatcher's
\* hand, a queue, the turns it was steered into, a worker of its own, or the
\* refusals of a full queue.
MessageConservation ==
  \A m \in Inbound :
    Cardinality(Places(m)) = (IF m <= arrived THEN 1 ELSE 0)

\* Steered messages of a session reach its turns in the order they arrived,
\* whichever worker and whichever poll takes them.
SteeredInOrder ==
  \A i, j \in DOMAIN log :
    (/\ i < j
     /\ log[i].msg \in Inbound
     /\ log[j].msg \in Inbound
     /\ SessionOf[log[i].msg] = SessionOf[log[j].msg])
    => log[i].msg < log[j].msg

\* A message that arrived on the bus for one session is never injected into a
\* turn of another session.  Nothing is said of the messages of Steer, whose scope
\* may be that of a session that has ended, or the manual one.
ScopeIsolation ==
  \A i \in DOMAIN log :
    log[i].msg \in Inbound =>
      SessionOf[log[i].msg] = SessionOf[log[i].by]

\* The goroutines that own an entry, by what they stored: a placeholder's owner
\* has not entered its turn, a turn's owner is inside it.
ClaimInv ==
  \A s \in Sessions :
    LET e == activeTurnStates[s]
    IN  e # NoEntry =>
          /\ e.owner \in Inbound
          /\ SessionOf[e.owner] = s
          /\ e.pending  => /\ e.owner \notin SystemMsgs
                           /\ pc[e.owner] \notin {"unborn", "turn", "clear", "done"}
          /\ ~e.pending => pc[e.owner] \in {"turn", "clear"}

SlotHolders == {m \in Inbound \ SystemMsgs : pc[m] \in SlotSteps}

\* The semaphore counts the workers between acquiring and releasing it, and the
\* dispatcher's own turns pass through none of the worker's steps.
SlotInv ==
  /\ workerSem = Cardinality(SlotHolders)
  /\ \A m \in SystemMsgs : pc[m] \in {"unborn", "run", "turn", "clear", "done"}

\* The inbound channel holds the last messages published, in order, and none
\* of them has been given to a worker yet: no message starts a second worker.
ChannelInv ==
  /\ Len(inbound) <= arrived
  /\ \A i \in 1 .. Len(inbound) : inbound[i] = arrived - Len(inbound) + i
  /\ \A m \in Inbound : m > arrived - Len(inbound) => pc[m] = "unborn"

\* The inductive invariant of the proofs: who may delete an entry that is there,
\* whom a used slot belongs to, and which messages are still to be received.
IInv == TypeOK /\ ClaimInv /\ SlotInv /\ ChannelInv

\* At most max_parallel_turns workers are inside a turn at once, so with the
\* default of one slot no two dispatched turns ever overlap.
TurnsWithinSlots ==
  Cardinality({m \in Inbound \ SystemMsgs : pc[m] \in {"turn", "clear"}})
    <= MaxParallelTurns

\* Two turns of one session never run at the same time: "Messages from the
\* same session are serialized" (docs/architecture/steering.md).
OneTurnPerSession ==
  \A m, n \in Inbound :
    m # n /\ SessionOf[m] = SessionOf[n] =>
      ~(pc[m] = "turn" /\ pc[n] = "turn")

\* A queued message has a worker that will still look at its queue: "It will be
\* picked up by the existing worker's steering drain loop"
\* (docs/architecture/subturn.md).
SteeringHasDrainer ==
  \A s \in Sessions :
    queues[s] # <<>> =>
      \E m \in Inbound :
        SessionOf[m] = s /\ pc[m] \in (SlotSteps \ {"release"}) \cup {"waitSem"}

\* A worker that found messages to continue with is never refused by a claim of
\* its own: the drain loop is where a message "will be picked up"
\* (docs/architecture/subturn.md), also after a command was answered.
OwnClaimNeverBlocksContinue ==
  \A m \in Inbound :
    pc[m] = "continue" => activeTurnStates[SessionOf[m]].owner # m

\* Every claim of a session is eventually given back.
SessionsReleased ==
  \A s \in Sessions :
    activeTurnStates[s] # NoEntry ~> activeTurnStates[s] = NoEntry

\* The receive loop keeps draining the inbound channel although every worker
\* hangs: no turn and no full worker pool ever blocks the dispatcher.  Checked
\* without system messages, which the loop handles itself (agent.go:157) and so
\* waits for.
LoopKeepsDraining ==
  inbound # <<>> ~> (inbound = <<>> \/ dispatcher.at = "exited")
===============================================================================
