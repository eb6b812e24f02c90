------------------------------- MODULE TurnLoop -------------------------------
(***************************************************************************)
(* One turn of a session: the loop of runTurn with its calls of the        *)
(* provider (CallLLM), its batches of tools (ExecuteTools), the injection  *)
(* of steering messages, the interrupts and the rollback of an aborted     *)
(* turn.  TurnDispatch sees all of this as polls and an end.               *)
(*                                                                         *)
(* A message is what the properties tell apart: its role, what it is, the  *)
(* iteration or number it belongs to, and for a call or a result how many  *)
(* calls there are or which of them it answers.  A step is what the turn   *)
(* does between two points where something from outside can show: another  *)
(* goroutine's message or interrupt, a hook, the provider, a tool.         *)
(***************************************************************************)
EXTENDS Integers, Sequences, FiniteSets, ContextBudget

CONSTANTS
  OldHistory,      \* what the session holds before the turn
  DefaultAgent,    \* TRUE: the turn's agent is the default one
  Continued,       \* TRUE: the turn was started by Continue with a message
  NumSteer,        \* steering messages; the first is the one of Continue
  SteeringAll,     \* TRUE: steering mode "all"
  MaxIterations,   \* max_tool_iterations
  MaxCalls,        \* bound: tool calls in one response
  Failures,        \* how a provider call may fail
  HookActions,     \* decisions of hooks other than to continue
  Interrupts,      \* "graceful", "hard" and "rollback" (HardAbort)
  OverBudget       \* TRUE: the history may exceed the budget at the start

ASSUME TurnLoopAssumption ==
  /\ OldHistory \in Seq([role : {"user", "assistant", "tool"},
                         of : {"user", "call", "result", "answer"},
                         n : {0}, k : Nat])
  /\ \A i \in DOMAIN OldHistory :
       OldHistory[i].of = "call" => OldHistory[i].role = "assistant"
  /\ DefaultAgent \in BOOLEAN
  /\ Continued \in BOOLEAN
  /\ NumSteer \in Nat
  /\ Continued => NumSteer > 0
  /\ SteeringAll \in BOOLEAN
  /\ MaxIterations \in Nat \ {0}
  /\ MaxCalls \in Nat
  /\ Failures \subseteq {"timeout", "context", "vision", "error"}
  /\ HookActions \subseteq {"deny", "respond", "abort_turn", "hard_abort"}
  /\ Interrupts \subseteq {"graceful", "hard", "rollback"}
  /\ OverBudget \in BOOLEAN

VARIABLES
  pc,            \* the step the turn is at
  iteration,     \* ts.iteration
  history,       \* the session store's messages
  messages,      \* exec.messages: what the next call shows the provider
  assembled,     \* exec.history: the history as it was assembled
  persisted,     \* ts.persistedMessages
  restorePoint,  \* ts.restorePointHistory
  pending,       \* runTurn's local pendingMessages
  execPending,   \* exec.pendingMessages
  queue,         \* the steering queue of the session
  pushed,        \* how many steering messages have been pushed
  graceful,      \* ts.gracefulInterrupt
  terminalUsed,  \* ts.gracefulTerminalUsed
  terminal,      \* exec.gracefulTerminal
  hardAbort,     \* ts.hardAbort
  rolledBack,    \* HardAbort was called for the session
  retry,         \* the retry of the current provider call
  stripped,      \* the call's messages have lost their media
  calls,         \* tool calls of the current batch
  tool,          \* the tool call to handle next
  handled,       \* exec.allResponsesHandled
  status         \* how the turn ended

store     == <<history, persisted, restorePoint, assembled>>
steering  == <<pending, execPending, queue, pushed>>
flags     == <<graceful, terminalUsed, hardAbort, rolledBack>>
calling   == <<terminal, retry, stripped>>
batch     == <<calls, tool, handled>>
vars      == <<pc, iteration, messages, store, steering, flags, calling, batch, status>>

MaxRetries == 2

\* Messages of this turn have n > 0, those of the turns before it n = 0.
UserMessage     == Message("user", "user", 1, 0)
SteerMessage(s) == Message("user", "steer", s, 0)
CallMessage(k)  == Message("assistant", "call", iteration, k)
ResultOf(i)     == Message("tool", "result", iteration, i)
FinalMessage    == Message("assistant", "answer", iteration, 0)

\* Read back from the store a message has lost its json:"-" fields: the prompt
\* metadata of user and steering messages, names and arguments of tool calls.
SurvivesStore(m) == m.of \in {"result", "answer"}

GracefulRequested == graceful /\ ~terminalUsed

-------------------------------------------------------------------------------
(* The session store and the restore point. *)

\* (mutant of AppendAll) stores only the first of several messages.
AppendFirstStored(new) ==
  /\ history' = history \o SubSeq(new, 1, IF new = <<>> THEN 0 ELSE 1)
  /\ messages' = messages \o new
  /\ persisted' = persisted \o new
  /\ UNCHANGED <<restorePoint, assembled>>

\* What AddFullMessage and recordPersistedMessage do for each message of new;
\* the turn's own list grows with the store.
AppendAll(new) ==
  /\ history' = history \o new
  /\ messages' = messages \o new
  /\ persisted' = persisted \o new
  /\ UNCHANGED <<restorePoint, assembled>>

\* How many of the last messages of h are the last ones the turn recorded.
MatchingTail(h, recorded) ==
  LET Matches(size) ==
        /\ \A i \in 1 .. size :
             LET m == h[Len(h) - size + i]
             IN  m = recorded[Len(recorded) - size + i] /\ SurvivesStore(m)
      shorter == IF Len(h) < Len(recorded) THEN Len(h) ELSE Len(recorded)
  IN  Highest({size \in 0 .. shorter : Matches(size)})

\* The restore point taken again from a store that now holds h.
Refreshed(h) == SubSeq(h, 1, Len(h) - MatchingTail(h, persisted))

\* The legacy context manager asks the default agent, whose own store knows
\* nothing of the sessions of another one.
Assembled(h) == IF DefaultAgent THEN h ELSE <<>>
Compacted(h) == IF DefaultAgent THEN ForceCompression(h) ELSE h

End(how) == pc' = "ended" /\ status' = how

Step(next) == pc' = next /\ UNCHANGED status

Init ==
  /\ pc = "setup"
  /\ iteration = 0
  /\ history = OldHistory
  /\ messages = <<>>
  /\ assembled = <<>>
  /\ persisted = <<>>
  /\ restorePoint = <<>>
  /\ pending = IF Continued THEN <<1>> ELSE <<>>
  /\ execPending = IF Continued THEN <<1>> ELSE <<>>
  /\ queue = <<>>
  /\ pushed = IF Continued THEN 1 ELSE 0
  /\ graceful = FALSE
  /\ terminalUsed = FALSE
  /\ terminal = FALSE
  /\ hardAbort = FALSE
  /\ rolledBack = FALSE
  /\ retry = 0
  /\ stripped = FALSE
  /\ calls = 0
  /\ tool = 1
  /\ handled = FALSE
  /\ status = "running"

-------------------------------------------------------------------------------
(* The environment. *)

\* A message of the session is queued while the turn runs.
Push ==
  /\ pc # "ended"
  /\ pushed < NumSteer
  /\ pushed' = pushed + 1
  /\ queue' = Append(queue, pushed + 1)
  /\ UNCHANGED <<pc, iteration, messages, store, pending, execPending, flags,
                 calling, batch, status>>

\* InterruptGraceful, refused once the turn is to be aborted.
InterruptGraceful ==
  /\ pc # "ended"
  /\ "graceful" \in Interrupts
  /\ ~hardAbort /\ ~graceful
  /\ graceful' = TRUE
  /\ UNCHANGED <<pc, iteration, messages, store, steering, terminalUsed, hardAbort,
                 rolledBack, calling, batch, status>>

\* InterruptHard: the flag is set and the contexts of the turn are canceled.
InterruptHard ==
  /\ pc # "ended"
  /\ "hard" \in Interrupts
  /\ ~hardAbort
  /\ hardAbort' = TRUE
  /\ UNCHANGED <<pc, iteration, messages, store, steering, graceful, terminalUsed,
                 rolledBack, calling, batch, status>>

\* HardAbort: a root turn has no cancelFunc for Finish to call, so all it does
\* is to cut the stored history back to the length it had before the turn.
HardAbort ==
  /\ pc # "ended"
  /\ "rollback" \in Interrupts
  /\ ~rolledBack
  /\ rolledBack' = TRUE
  /\ history' = IF Len(OldHistory) < Len(history)
                THEN SubSeq(history, 1, Len(OldHistory)) ELSE history
  /\ UNCHANGED <<pc, iteration, messages, persisted, restorePoint, assembled,
                 steering, graceful, terminalUsed, hardAbort, calling, batch, status>>

-------------------------------------------------------------------------------
(* runTurn: setup, the head of the loop, the end. *)

SetupTurn(over) ==
  /\ pc = "setup"
  /\ over => OverBudget
  /\ LET base == IF over THEN Compacted(history) ELSE history
         root == IF Continued THEN <<>> ELSE <<UserMessage>>
     IN  /\ restorePoint' = IF over THEN base ELSE Assembled(base)
         /\ assembled' = Assembled(base)
         /\ persisted' = root
         /\ history' = base \o root
         /\ messages' = Sanitize(Assembled(base)) \o root
  /\ Step("loop")
  /\ UNCHANGED <<iteration, steering, flags, calling, batch>>

\* (mutant of LoopGoesOn) compares with <=.
LoopGoesOnPastMax ==
  iteration <= MaxIterations \/ execPending # <<>> \/ GracefulRequested

LoopGoesOn ==
  iteration < MaxIterations \/ execPending # <<>> \/ GracefulRequested

LeaveLoop ==
  /\ pc = "loop"
  /\ ~LoopGoesOn
  /\ Step(IF hardAbort THEN "abort" ELSE "finalize")
  /\ UNCHANGED <<iteration, messages, store, steering, flags, calling, batch>>

\* One message, or all of them, by mode.
QueueHead == IF SteeringAll \/ queue = <<>> THEN queue ELSE <<Head(queue)>>
\* (mutant of QueueRest) takes one message and drops the others.
QueueEmptied == <<>>

QueueRest == IF SteeringAll \/ queue = <<>> THEN <<>> ELSE Tail(queue)

\* The head of an iteration: what is pending is collected and injected.
BeginIteration ==
  /\ pc = "loop"
  /\ LoopGoesOn
  /\ ~hardAbort
  /\ iteration' = iteration + 1
  /\ LET first == iteration = 0
         polls == first /\ ~Continued
         inject == pending \o (IF ~first THEN execPending
                               ELSE IF polls THEN QueueHead ELSE <<>>)
     IN  /\ AppendAll([i \in DOMAIN inject |-> SteerMessage(inject[i])])
         /\ pending' = inject
         /\ execPending' = <<>>
         /\ queue' = IF polls THEN QueueRest ELSE queue
  /\ Step("call")
  /\ UNCHANGED <<pushed, flags, calling, batch>>

AbortAtLoop ==
  /\ pc = "loop"
  /\ LoopGoesOn
  /\ hardAbort
  /\ Step("abort")
  /\ UNCHANGED <<iteration, messages, store, steering, flags, calling, batch>>

\* (mutant of AbortTurn) forgets to restore the session.
AbortWithoutRestore ==
  /\ pc = "abort"
  /\ End("aborted")
  /\ UNCHANGED <<iteration, messages, store, steering, flags, calling, batch>>

AbortTurn ==
  /\ pc = "abort"
  /\ history' = restorePoint
  /\ End("aborted")
  /\ UNCHANGED <<iteration, messages, persisted, restorePoint, assembled, steering,
                 flags, calling, batch>>

\* The answer is stored without another look at the abort flag.
Finalize ==
  /\ pc = "finalize"
  /\ AppendAll(<<FinalMessage>>)
  /\ End("completed")
  /\ UNCHANGED <<iteration, steering, flags, calling, batch>>

\* A turn whose tools have answered the user ends without another call.
FinalizeHandled ==
  /\ pc = "delivered"
  /\ IF hardAbort THEN Step("abort") ELSE End("completed")
  /\ UNCHANGED <<iteration, messages, store, steering, flags, calling, batch>>

-------------------------------------------------------------------------------
(* CallLLM. *)

\* A graceful interrupt makes the next call the terminal one: without tools.
StartCall(hook) ==
  /\ pc = "call"
  /\ terminal' = GracefulRequested
  /\ terminalUsed' = (terminalUsed \/ GracefulRequested)
  /\ retry' = 0
  /\ stripped' = FALSE
  /\ hardAbort' = (hardAbort \/ hook = "hard_abort")
  /\ \/ hook = "continue" /\ Step("provider")
     \/ hook = "abort_turn" /\ End("error")
     \/ hook = "hard_abort" /\ Step("abort")
  /\ UNCHANGED <<iteration, messages, store, steering, graceful, rolledBack, batch>>

\* The provider call ends because the turn's context was canceled.
ProviderCanceled ==
  /\ pc = "provider"
  /\ hardAbort
  /\ Step("abort")
  /\ UNCHANGED <<iteration, messages, store, steering, flags, calling, batch>>

CanRetry == retry < MaxRetries

\* The provider cannot take images: the store is set to the history as it was
\* assembled, and the same messages are sent without their media.
RetryWithoutMedia ==
  /\ pc = "provider"
  /\ "vision" \in Failures
  /\ ~stripped /\ CanRetry
  /\ stripped' = TRUE
  /\ retry' = retry + 1
  /\ history' = assembled
  /\ restorePoint' = Refreshed(assembled)
  /\ UNCHANGED <<pc, iteration, messages, assembled, persisted, steering, flags,
                 terminal, batch, status>>

WaitAfterTimeout ==
  /\ pc = "provider"
  /\ "timeout" \in Failures
  /\ CanRetry
  /\ Step("backoff")
  /\ UNCHANGED <<iteration, messages, store, steering, flags, calling, batch>>

\* (mutant of BackoffOver) waits without counting the retry.
BackoffUncounted ==
  /\ pc = "backoff"
  /\ Step("provider")
  /\ UNCHANGED <<iteration, messages, store, steering, flags, calling, batch>>

BackoffOver ==
  /\ pc = "backoff"
  /\ retry' = retry + 1
  /\ Step("provider")
  /\ UNCHANGED <<iteration, messages, store, steering, flags, terminal, stripped, batch>>

\* The wait is cut short; unlike the other ways to be aborted, this one does
\* not tell runTurn, which finalizes the turn.
BackoffAborted ==
  /\ pc = "backoff"
  /\ hardAbort
  /\ Step("finalize")
  /\ UNCHANGED <<iteration, messages, store, steering, flags, calling, batch>>

\* The context was too long: compress, take the restore point again, reassemble.
RetryCompressed ==
  /\ pc = "provider"
  /\ "context" \in Failures
  /\ CanRetry
  /\ LET kept == Compacted(history)
     IN  /\ history' = kept
         /\ restorePoint' = Refreshed(kept)
         /\ assembled' = Assembled(kept)
         /\ messages' = Sanitize(Assembled(kept))
  /\ retry' = retry + 1
  /\ UNCHANGED <<pc, iteration, persisted, steering, flags, terminal, stripped, batch,
                 status>>

\* Any other failure, or one retry too many; nothing is rolled back.
ProviderFails ==
  /\ pc = "provider"
  /\ \/ "error" \in Failures
     \/ ~CanRetry /\ Failures # {}
  /\ End("error")
  /\ UNCHANGED <<iteration, messages, store, steering, flags, calling, batch>>

\* The AfterLLM hook ends the turn.
StopAfterCall(hook) ==
  /\ pc = "provider"
  /\ hook \in {"abort_turn", "hard_abort"}
  /\ hardAbort' = (hardAbort \/ hook = "hard_abort")
  /\ IF hook = "hard_abort" THEN Step("abort") ELSE End("error")
  /\ UNCHANGED <<iteration, messages, store, steering, graceful, terminalUsed,
                 rolledBack, calling, batch>>

\* A direct answer stands unless a message is queued by now.  The turn goes on
\* with exec.pendingMessages also in runTurn's own pendingMessages.
AnswersDirectly ==
  /\ pc = "provider"
  /\ execPending' = execPending \o QueueHead
  /\ pending' = execPending'
  /\ queue' = QueueRest
  /\ Step(IF queue # <<>> THEN "loop" ELSE "finalize")
  /\ UNCHANGED <<iteration, messages, store, pushed, flags, calling, batch>>

MayUseTools == ~terminal

AsksForTools(k) ==
  /\ pc = "provider"
  /\ MayUseTools
  /\ AppendAll(<<CallMessage(k)>>)
  /\ pending' = execPending
  /\ calls' = k
  /\ tool' = 1
  /\ handled' = TRUE
  /\ Step("tools")
  /\ UNCHANGED <<iteration, execPending, queue, pushed, flags, calling>>

-------------------------------------------------------------------------------
(* ExecuteTools. *)

StopAtTool ==
  /\ pc = "tools"
  /\ tool <= calls
  /\ hardAbort
  /\ Step("abort")
  /\ UNCHANGED <<iteration, messages, store, steering, flags, calling, batch>>

\* A hook or an approver denies the tool; the queue is not looked at.
DenyTool ==
  /\ pc = "tools"
  /\ tool <= calls
  /\ ~hardAbort
  /\ "deny" \in HookActions
  /\ AppendAll(<<ResultOf(tool)>>)
  /\ tool' = tool + 1
  /\ handled' = FALSE
  /\ UNCHANGED <<pc, iteration, steering, flags, calling, calls, status>>

\* (mutant of SkipsRest) only a graceful interrupt skips the rest.
SkipsForInterruptOnly(polled) == GracefulRequested

SkipsRest(polled) == polled # <<>> \/ GracefulRequested

\* A tool's result, and the checkpoint after it: messages queued by now, or a
\* graceful interrupt, skip the rest of the batch.
Deliver(answered) ==
  LET polled == execPending \o QueueHead
      last   == IF SkipsRest(polled) THEN calls ELSE tool
  IN  /\ AppendAll([i \in 1 .. last - tool + 1 |-> ResultOf(tool + i - 1)])
      /\ execPending' = polled
      /\ queue' = QueueRest
      /\ tool' = last + 1
      /\ handled' = (handled /\ answered)
      /\ Step("tools")
      /\ UNCHANGED <<iteration, pending, pushed, flags, calling, calls>>

\* A hook responds in place of the tool.
RespondForTool(answered) ==
  /\ pc = "tools"
  /\ tool <= calls
  /\ ~hardAbort
  /\ "respond" \in HookActions
  /\ Deliver(answered)

\* BeforeTool or AfterTool ends the turn.
StopByToolHook(hook) ==
  /\ pc \in {"tools", "running"}
  /\ tool <= calls
  /\ ~hardAbort
  /\ hook \in {"abort_turn", "hard_abort"}
  /\ hardAbort' = (hook = "hard_abort")
  /\ IF hook = "hard_abort" THEN Step("abort") ELSE End("error")
  /\ UNCHANGED <<iteration, messages, store, steering, graceful, terminalUsed,
                 rolledBack, calling, batch>>

StartTool ==
  /\ pc = "tools"
  /\ tool <= calls
  /\ ~hardAbort
  /\ Step("running")
  /\ UNCHANGED <<iteration, messages, store, steering, flags, calling, batch>>

ToolReturns(answered) ==
  /\ pc = "running"
  /\ ~hardAbort
  /\ Deliver(answered)

ToolAborted ==
  /\ pc = "running"
  /\ hardAbort
  /\ Step("abort")
  /\ UNCHANGED <<iteration, messages, store, steering, flags, calling, batch>>

\* The batch is over: go on with the pending messages, poll once more, or end
\* the turn when the tools have answered the user themselves.
ToolsDone ==
  /\ pc = "tools"
  /\ tool > calls
  /\ LET polls == execPending = <<>>
         goesOn == ~polls \/ queue # <<>>
     IN  /\ execPending' = IF polls THEN QueueHead ELSE execPending
         /\ queue' = IF polls THEN QueueRest ELSE queue
         /\ handled' = (handled /\ ~goesOn)
         /\ IF handled /\ ~goesOn
            THEN AppendAll(<<FinalMessage>>) /\ Step("delivered")
            ELSE UNCHANGED <<messages, store>> /\ Step("loop")
  /\ UNCHANGED <<iteration, pending, pushed, flags, calling, calls, tool>>

-------------------------------------------------------------------------------
LoopStep ==
  \/ \E over \in BOOLEAN : SetupTurn(over)
  \/ LeaveLoop
  \/ BeginIteration
  \/ AbortAtLoop
  \/ AbortTurn
  \/ Finalize
  \/ FinalizeHandled

CallStep ==
  \/ \E hook \in {"continue"} \cup (HookActions \ {"deny", "respond"}) : StartCall(hook)
  \/ ProviderCanceled
  \/ RetryWithoutMedia
  \/ WaitAfterTimeout
  \/ BackoffOver
  \/ BackoffAborted
  \/ RetryCompressed
  \/ ProviderFails
  \/ \E hook \in HookActions : StopAfterCall(hook)
  \/ AnswersDirectly
  \/ \E k \in 1 .. MaxCalls : AsksForTools(k)

ToolStep ==
  \/ StopAtTool
  \/ DenyTool
  \/ \E answered \in BOOLEAN : RespondForTool(answered)
  \/ \E hook \in HookActions : StopByToolHook(hook)
  \/ StartTool
  \/ \E answered \in BOOLEAN : ToolReturns(answered)
  \/ ToolAborted
  \/ ToolsDone

TurnStep == LoopStep \/ CallStep \/ ToolStep

Outside == Push \/ InterruptGraceful \/ InterruptHard \/ HardAbort

Next == TurnStep \/ Outside

Spec == Init /\ [][Next]_vars

\* The goroutine of the turn keeps running, providers and tools return.
FairSpec == Spec /\ WF_vars(TurnStep)

-------------------------------------------------------------------------------
(* Properties. *)

Numbers == 1 .. NumSteer

TypeOK ==
  /\ pc \in {"setup", "loop", "call", "provider", "backoff", "tools", "running",
             "finalize", "delivered", "abort", "ended"}
  /\ status \in {"running", "completed", "aborted", "error"}
  /\ pc = "ended" <=> status # "running"
  /\ iteration \in Nat
  /\ pending \in Seq(Numbers)
  /\ execPending \in Seq(Numbers)
  /\ queue \in Seq(Numbers)
  /\ pushed \in 0 .. NumSteer
  /\ graceful \in BOOLEAN /\ terminalUsed \in BOOLEAN /\ terminal \in BOOLEAN
  /\ hardAbort \in BOOLEAN /\ rolledBack \in BOOLEAN
  /\ stripped \in BOOLEAN /\ handled \in BOOLEAN
  /\ retry \in 0 .. MaxRetries
  /\ calls \in 0 .. MaxCalls
  /\ tool \in 1 .. calls + 1

InRange(s, seq) == \E i \in DOMAIN seq : seq[i] = s

OfTurn(seq) == \E i \in DOMAIN seq : seq[i].n > 0

\* Every call that a provider is shown is followed by exactly its results,
\* whatever of the batch was run, denied, answered by a hook or skipped and
\* however often the messages were reassembled (ExecuteTools, CallLLM).
CallsPaired == pc = "provider" => Paired(messages)

\* What the provider is shown is what is stored: a process that starts again
\* from the session store shows it the same (every append goes to both).
ContextIsStored == pc = "provider" => messages = Sanitize(history)

\* A tool does not start while a message of the user that the turn has taken
\* waits to be injected (the checkpoint of ExecuteTools).
NoToolAfterSteering == pc = "running" => execPending = <<>>

\* Steering and a graceful interrupt carry a turn past max_tool_iterations, by
\* no more than an iteration for each message and one for the interrupt.
IterationsBounded == iteration <= MaxIterations + NumSteer + 1

\* How many of the pushed messages have been injected, and whether an iteration
\* has been, or is just being, spent on a graceful interrupt.
Injected == pushed - Len(queue) - Len(execPending)
ForInterrupt == IF terminalUsed \/ (pc = "call" /\ graceful) THEN 1 ELSE 0

\* The inductive invariant behind IterationsBounded, NoToolAfterSteering and
\* the types: each iteration past the limit is paid for by a message or by the
\* interrupt, and from the injection to the next checkpoint nothing is pending.
IInv ==
  /\ TypeOK
  /\ Injected >= 0
  /\ iteration <= MaxIterations + Injected + ForInterrupt
  /\ pc \in {"call", "provider", "backoff", "running"} => execPending = <<>>
  /\ pc = "tools" /\ tool <= calls => execPending = <<>>
  /\ pc = "backoff" => CanRetry
  /\ pc = "running" => tool <= calls

\* A message taken from the queue is in the hands of the turn or in the stored
\* history until the turn fails, and stays there when it completes.
SteeringKept ==
  status \in {"running", "completed"} =>
    \A s \in 1 .. pushed :
      \/ InRange(s, queue)
      \/ InRange(s, execPending)
      \/ InRange(SteerMessage(s), history)

\* An abort leaves the session exactly as it was before the turn, wherever in a
\* batch it comes and whatever the turn has stored, and as long as nothing is
\* compressed a turn never costs the session what it held before.
RollbackComplete ==
  /\ \A i \in DOMAIN OldHistory : i <= Len(history) /\ history[i] = OldHistory[i]
  /\ status = "aborted" => history = OldHistory

\* A message of the user is injected into the context once.
SteeringInjectedOnce ==
  \A i, j \in DOMAIN messages :
    messages[i].of = "steer" /\ messages[i] = messages[j] => i = j

\* Every turn ends, when providers, tools and hooks return.
TurnEnds == <>(pc = "ended")
===============================================================================
