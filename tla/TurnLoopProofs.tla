---------------------------- MODULE TurnLoopProofs ----------------------------
(***************************************************************************)
(* Proofs about TurnLoop, for every history, every number of steering      *)
(* messages, iterations and tool calls, every set of failures, hook        *)
(* decisions and interrupts, and both steering modes; and about            *)
(* LegacyContext, whatever the histories and the summariser's bounds.      *)
(*                                                                         *)
(* IInv is inductive.  Most steps leave the steering messages alone: for   *)
(* them it is enough that the types hold and that the step of the turn     *)
(* does not claim that something pending was injected.  The steps that     *)
(* take messages from the queue move them without losing count.            *)
(*                                                                         *)
(* The rest is about histories.  What the sanitizer, the cuts and the      *)
(* compression of ContextBudget return is proved for histories of any      *)
(* length, by an induction over sequences that is derived here; then       *)
(* ShownInv, KeptInv, RollbackInv and StoredInv carry CallsPaired,         *)
(* SteeringKept, RollbackComplete and ContextIsStored through the steps.   *)
(* The last three exclude what the code does to them elsewhere: each       *)
(* theorem names, as its assumptions, the steps that break the property.   *)
(*                                                                         *)
(* The same lemmas speak of the histories of LegacyContext, whatever they  *)
(* are: what is shown and what is cut of them.  LegacyInv then carries its *)
(* LeavesTold through every interleaving of turns and the summariser.      *)
(***************************************************************************)
EXTENDS TurnLoop, LegacyContext, FiniteSetTheorems, FunctionTheorems,
        SequenceTheorems, WellFoundedInduction, TLAPS

\* What a poll takes from the queue and what it leaves are the whole queue, and
\* it takes something whenever there is something (dequeueLocked).
LEMMA QueueSplit ==
  ASSUME queue \in Seq(Numbers)
  PROVE  /\ QueueHead \in Seq(Numbers)
         /\ QueueRest \in Seq(Numbers)
         /\ Len(QueueHead) + Len(QueueRest) = Len(queue)
         /\ QueueHead = <<>> <=> queue = <<>>
<1>1. CASE SteeringAll \/ queue = <<>>
  BY <1>1, EmptySeq DEF QueueHead, QueueRest
<1>2. CASE ~(SteeringAll \/ queue = <<>>)
  <2>1. /\ Head(queue) \in Numbers
        /\ Tail(queue) \in Seq(Numbers)
        /\ Len(Tail(queue)) = Len(queue) - 1
    BY <1>2, HeadTailProperties
  <2> QED
    BY <1>2, <2>1 DEF QueueHead, QueueRest
<1> QED
  BY <1>1, <1>2

\* A sequence of numbers with another one behind it.
LEMMA Joined ==
  ASSUME NEW s \in Seq(Numbers), NEW t \in Seq(Numbers)
  PROVE  /\ s \o t \in Seq(Numbers)
         /\ Len(s \o t) = Len(s) + Len(t)
         /\ s \o t = <<>> <=> s = <<>> /\ t = <<>>
         /\ Len(s) \in Nat
         /\ Len(s) = 0 <=> s = <<>>
BY ConcatProperties, EmptySeq, LenProperties

\* The initial state, of a turn for a new message or of a continued one.
LEMMA InitInvariant == Init => IInv
<1> SUFFICES ASSUME Init PROVE IInv
  OBVIOUS
<1> DEFINE first == IF Continued THEN <<1>> ELSE <<>>
<1>1. first \in Seq(Numbers) /\ Len(first) = (IF Continued THEN 1 ELSE 0)
  <2>1. CASE Continued
    <3>1. 1 \in Numbers
      BY <2>1, TurnLoopAssumption DEF Numbers
    <3> QED
      BY <2>1, <3>1
  <2>2. CASE ~Continued
    BY <2>2
  <2> QED
    BY <2>1, <2>2
<1>2. queue = <<>> /\ queue \in Seq(Numbers) /\ Len(queue) = 0
  BY DEF Init
<1>3. pending = first /\ execPending = first
  BY DEF Init
<1>4. pushed = Len(first) /\ pushed \in 0 .. NumSteer
  BY <1>1, TurnLoopAssumption DEF Init
<1> HIDE DEF first
<1>5. TypeOK
  <2>1. pending \in Seq(Numbers) /\ execPending \in Seq(Numbers) /\ queue \in Seq(Numbers)
    BY <1>1, <1>2, <1>3
  <2>2. calls = 0 /\ tool = 1 /\ retry = 0 /\ iteration = 0
    BY DEF Init
  <2>3. calls \in 0 .. MaxCalls /\ tool \in 1 .. calls + 1 /\ retry \in 0 .. MaxRetries
    BY <2>2, TurnLoopAssumption DEF MaxRetries
  <2>4. pc = "setup" /\ status = "running"
    BY DEF Init
  <2>5. /\ graceful = FALSE /\ terminalUsed = FALSE /\ terminal = FALSE
        /\ hardAbort = FALSE /\ rolledBack = FALSE
        /\ stripped = FALSE /\ handled = FALSE
    BY DEF Init
  <2> QED
    BY <1>4, <2>1, <2>2, <2>3, <2>4, <2>5 DEF TypeOK
<1>6. Injected = 0 /\ ForInterrupt = 0
  BY <1>1, <1>2, <1>3, <1>4 DEF Init, Injected, ForInterrupt
<1>7. iteration = 0 /\ pc = "setup" /\ MaxIterations \in Nat
  BY TurnLoopAssumption DEF Init
<1>8. Injected >= 0
  BY <1>6
<1>9. iteration <= MaxIterations + Injected + ForInterrupt
  BY <1>6, <1>7
<1>10. ~(pc \in {"call", "provider", "backoff", "running"}) /\ pc # "tools"
  BY <1>7
<1> QED
  BY <1>5, <1>8, <1>9, <1>10 DEF IInv

-------------------------------------------------------------------------------
(* Steps. *)

\* A step that leaves the steering messages and the iteration alone.
LEMMA QuietStep ==
  ASSUME IInv, TypeOK', UNCHANGED <<iteration, steering>>,
         ForInterrupt' = 1 \/ ForInterrupt' = ForInterrupt,
         pc' \in {"call", "provider", "backoff", "running"} => execPending = <<>>,
         pc' = "tools" /\ tool' <= calls' => execPending = <<>>,
         pc' = "backoff" => CanRetry',
         pc' = "running" => tool' <= calls'
  PROVE  IInv'
<1>1. Injected' = Injected /\ iteration' = iteration /\ execPending' = execPending
  BY DEF steering, Injected
<1>2. Injected \in Int /\ iteration \in Int /\ MaxIterations \in Int
  BY LenProperties, TurnLoopAssumption DEF IInv, TypeOK, Injected
<1>3. iteration <= MaxIterations + Injected + ForInterrupt'
  BY <1>2 DEF IInv, ForInterrupt
<1> QED
  BY <1>1, <1>3 DEF IInv

\* A poll moves messages from the queue to the pending ones.
LEMMA PollMoves ==
  ASSUME TypeOK, execPending' = execPending \o QueueHead, queue' = QueueRest
  PROVE  /\ execPending' \in Seq(Numbers) /\ queue' \in Seq(Numbers)
         /\ Len(queue') + Len(execPending') = Len(queue) + Len(execPending)
<1>1. /\ execPending \in Seq(Numbers) /\ queue \in Seq(Numbers)
  BY DEF TypeOK
<1>2. Len(execPending \o QueueHead) = Len(execPending) + Len(QueueHead)
  BY <1>1, QueueSplit, ConcatProperties
<1>3. execPending \o QueueHead \in Seq(Numbers)
  BY <1>1, QueueSplit, ConcatProperties
<1>4. /\ Len(execPending) \in Int /\ Len(QueueHead) \in Int
      /\ Len(QueueRest) \in Int /\ Len(queue) \in Int
  BY <1>1, QueueSplit, LenProperties
<1>5. Len(QueueRest) + (Len(execPending) + Len(QueueHead)) = Len(queue) + Len(execPending)
  <2>1. Len(QueueHead) + Len(QueueRest) = Len(queue)
    BY <1>1, QueueSplit, Zenon
  <2> QED
    BY <1>4, <2>1
<1>6. execPending' \in Seq(Numbers) /\ Len(execPending') = Len(execPending) + Len(QueueHead)
  <2>1. execPending' = execPending \o QueueHead
    OBVIOUS
  <2>2. execPending' \in Seq(Numbers)
    BY <2>1, <1>3, Zenon
  <2>3. Len(execPending') = Len(execPending \o QueueHead)
    BY <2>1, Zenon
  <2> QED
    BY <1>2, <2>2, <2>3, Zenon
<1>7. queue' \in Seq(Numbers) /\ Len(queue') = Len(QueueRest)
  BY <1>1, QueueSplit
<1> QED
  BY <1>5, <1>6, <1>7

\* A step that moves messages without injecting any keeps the bound.
LEMMA SameInjected ==
  ASSUME IInv, TypeOK', UNCHANGED <<iteration, pushed>>,
         Len(queue') + Len(execPending') = Len(queue) + Len(execPending),
         ForInterrupt' = ForInterrupt
  PROVE  /\ Injected' >= 0
         /\ iteration' <= MaxIterations + Injected' + ForInterrupt'
<1>1. /\ Len(queue) \in Int /\ Len(execPending) \in Int
      /\ Len(queue') \in Int /\ Len(execPending') \in Int /\ pushed \in Int
  BY LenProperties DEF IInv, TypeOK
<1>2. Injected' = Injected
  BY <1>1 DEF Injected
<1> QED
  BY <1>2 DEF IInv

\* The end of a batch, however the pending messages and the queue are split.
LEMMA BatchEnds ==
  ASSUME IInv, pc = "tools", status' = status, pc' \in {"loop", "delivered"},
         handled' \in BOOLEAN,
         UNCHANGED <<iteration, pending, pushed, flags, calling, calls, tool>>,
         execPending' \in Seq(Numbers), queue' \in Seq(Numbers),
         Len(queue') + Len(execPending') = Len(queue) + Len(execPending)
  PROVE  IInv'
<1>1. TypeOK'
  BY DEF IInv, TypeOK, flags, calling
<1>2. ForInterrupt' = ForInterrupt
  BY DEF ForInterrupt, flags
<1> QED
  BY <1>1, <1>2, SameInjected DEF IInv

\* The actions of the environment.
LEMMA OutsideInvariant ==
  ASSUME IInv, Outside
  PROVE  IInv'
<1>1. CASE Push
  <2>1. pushed < NumSteer /\ pushed' = pushed + 1 /\ queue' = Append(queue, pushed + 1)
    BY <1>1 DEF Push
  <2>2. /\ queue' \in Seq(Numbers)
        /\ Len(queue') = Len(queue) + 1
        /\ Len(queue) \in Nat /\ Len(execPending) \in Nat
    <3>1. pushed + 1 \in Numbers
      BY <2>1, TurnLoopAssumption DEF IInv, TypeOK, Numbers
    <3> QED
      BY <2>1, <3>1, AppendProperties, LenProperties DEF IInv, TypeOK
  <2>3. TypeOK'
    BY <1>1, <2>1, <2>2, TurnLoopAssumption DEF Push, IInv, TypeOK, flags, calling, batch
  <2>4. Injected' = Injected /\ ForInterrupt' = ForInterrupt
    BY <1>1, <2>1, <2>2 DEF Push, Injected, ForInterrupt, flags, IInv, TypeOK
  <2> QED
    BY <1>1, <2>3, <2>4 DEF Push, IInv, CanRetry, calling, batch
<1>2. CASE InterruptGraceful
  <2>1. TypeOK'
    BY <1>2 DEF InterruptGraceful, IInv, TypeOK, steering, calling, batch
  <2> QED
    BY <1>2, <2>1, QuietStep
    DEF InterruptGraceful, IInv, CanRetry, ForInterrupt, calling, batch, steering
<1>3. CASE InterruptHard
  <2>1. TypeOK'
    BY <1>3 DEF InterruptHard, IInv, TypeOK, steering, calling, batch
  <2> QED
    BY <1>3, <2>1, QuietStep DEF InterruptHard, IInv, CanRetry, ForInterrupt, calling,
                                 batch, steering
<1>4. CASE HardAbort
  <2>1. TypeOK'
    BY <1>4 DEF HardAbort, IInv, TypeOK, steering, calling, batch
  <2> QED
    BY <1>4, <2>1, QuietStep DEF HardAbort, IInv, CanRetry, ForInterrupt, calling,
                                 batch, steering
<1> QED
  BY <1>1, <1>2, <1>3, <1>4 DEF Outside

\* An iteration is within the limit, or a message pays for it, or the interrupt.
LEMMA PaidFor ==
  ASSUME NEW i \in Int, NEW max \in Int, NEW a \in Int, NEW b \in Int,
         NEW waiting \in Int, NEW f \in {0, 1}, NEW g \in {0, 1},
         i <= max + a + f, a >= 0, waiting >= 0, b >= a + waiting,
         i < max \/ (waiting >= 1 /\ g >= f) \/ (f = 0 /\ g = 1)
  PROVE  i + 1 <= max + b + g
OBVIOUS

\* Setup, the head of the loop and the ends of a turn.
LEMMA LoopInvariant ==
  ASSUME IInv, LoopStep
  PROVE  IInv'
<1>1. ASSUME NEW over \in BOOLEAN, SetupTurn(over) PROVE IInv'
  <2>1. TypeOK'
    BY <1>1 DEF SetupTurn, IInv, TypeOK, Step, End, steering, flags, calling, batch
  <2> QED
    BY <1>1, <2>1, QuietStep
    DEF SetupTurn, IInv, CanRetry, TypeOK, ForInterrupt, Step, End, steering, flags,
        calling, batch
<1>2. CASE LeaveLoop
  <2>1. TypeOK'
    BY <1>2 DEF LeaveLoop, IInv, TypeOK, Step, End, steering, flags, calling, batch
  <2> QED
    BY <1>2, <2>1, QuietStep
    DEF LeaveLoop, IInv, CanRetry, TypeOK, ForInterrupt, Step, End, steering, flags,
        calling, batch
<1>3. CASE BeginIteration
  <2> DEFINE first  == iteration = 0
             polls  == first /\ ~Continued
             inject == pending \o (IF ~first THEN execPending
                                   ELSE IF polls THEN QueueHead ELSE <<>>)
  <2>1. /\ pc = "loop" /\ pc' = "call" /\ status' = status
        /\ LoopGoesOn /\ iteration' = iteration + 1
        /\ pending' = inject /\ execPending' = <<>>
        /\ queue' = (IF polls THEN QueueRest ELSE queue)
        /\ pushed' = pushed
    BY <1>3 DEF BeginIteration, Step
  <2>2. UNCHANGED <<flags, calling, batch>>
    BY <1>3 DEF BeginIteration
  <2>3. /\ pending \in Seq(Numbers) /\ execPending \in Seq(Numbers)
        /\ queue \in Seq(Numbers) /\ <<>> \in Seq(Numbers) /\ Len(<<>>) = 0
        /\ Len(queue) \in Nat /\ Len(execPending) \in Nat
        /\ iteration \in Nat /\ pushed \in Int /\ MaxIterations \in Nat \ {0}
    BY EmptySeq, LenProperties, TurnLoopAssumption DEF IInv, TypeOK
  <2>4. /\ queue' \in Seq(Numbers) /\ Len(queue') \in Nat
        /\ Len(queue') <= Len(queue)
    BY <2>1, <2>3, QueueSplit, LenProperties
  <2>5. pending' \in Seq(Numbers)
    BY <2>1, <2>3, QueueSplit, ConcatProperties
  <2> HIDE DEF first, polls, inject
  <2>6. TypeOK'
    BY <2>1, <2>2, <2>3, <2>4, <2>5 DEF IInv, TypeOK, flags, calling, batch
  <2>7. Injected' = pushed - Len(queue') /\ Injected' >= Injected + Len(execPending)
    BY <2>1, <2>3, <2>4 DEF Injected
  <2>8. iteration' <= MaxIterations + Injected' + ForInterrupt'
    <3>1. /\ Injected >= 0 /\ Injected \in Int
          /\ iteration <= MaxIterations + Injected + ForInterrupt
      BY <2>3 DEF IInv, Injected
    <3>2. /\ Injected' \in Int /\ Injected' >= Injected + Len(execPending)
          /\ ForInterrupt' \in {0, 1} /\ ForInterrupt \in {0, 1}
          /\ iteration' = iteration + 1 /\ iteration \in Int
          /\ Len(execPending) \in Int /\ Len(execPending) >= 0 /\ MaxIterations \in Int
      BY <2>1, <2>3, <2>4, <2>7 DEF ForInterrupt
    <3>3. CASE iteration < MaxIterations
      BY <3>1, <3>2, <3>3, PaidFor
    <3>4. CASE execPending # <<>>
      <4>1. Len(execPending) >= 1
        BY <3>4, <2>3, EmptySeq
      <4>2. ForInterrupt' >= ForInterrupt
        BY <2>1, <2>2 DEF ForInterrupt, flags
      <4> QED
        BY <4>1, <4>2, <3>1, <3>2, PaidFor
    <3>5. CASE GracefulRequested
      <4>1. ForInterrupt = 0 /\ ForInterrupt' = 1
        BY <3>5, <2>1, <2>2 DEF GracefulRequested, ForInterrupt, flags
      <4> QED
        BY <4>1, <3>1, <3>2, PaidFor
    <3> QED
      BY <3>3, <3>4, <3>5, <2>1 DEF LoopGoesOn
  <2>9. Injected' >= 0
    BY <2>3, <2>7 DEF IInv, Injected
  <2> QED
    BY <2>1, <2>6, <2>8, <2>9 DEF IInv
<1>4. CASE AbortAtLoop
  <2>1. TypeOK'
    BY <1>4 DEF AbortAtLoop, IInv, TypeOK, Step, End, steering, flags, calling, batch
  <2> QED
    BY <1>4, <2>1, QuietStep
    DEF AbortAtLoop, IInv, CanRetry, TypeOK, ForInterrupt, Step, End, steering, flags,
        calling, batch
<1>5. CASE AbortTurn
  <2>1. TypeOK'
    BY <1>5 DEF AbortTurn, IInv, TypeOK, Step, End, steering, flags, calling, batch
  <2> QED
    BY <1>5, <2>1, QuietStep
    DEF AbortTurn, IInv, CanRetry, TypeOK, ForInterrupt, Step, End, steering, flags,
        calling, batch
<1>6. CASE Finalize
  <2>1. TypeOK'
    BY <1>6 DEF Finalize, IInv, TypeOK, Step, End, steering, flags, calling, batch,
                AppendAll
  <2> QED
    BY <1>6, <2>1, QuietStep
    DEF Finalize, IInv, CanRetry, TypeOK, ForInterrupt, Step, End, steering, flags,
        calling, batch, AppendAll
<1>7. CASE FinalizeHandled
  <2>1. TypeOK'
    BY <1>7 DEF FinalizeHandled, IInv, TypeOK, Step, End, steering, flags, calling, batch
  <2> QED
    BY <1>7, <2>1, QuietStep
    DEF FinalizeHandled, IInv, CanRetry, TypeOK, ForInterrupt, Step, End, steering,
        flags, calling, batch
<1> QED
  BY <1>1, <1>2, <1>3, <1>4, <1>5, <1>6, <1>7 DEF LoopStep

\* The calls of the provider.
LEMMA CallInvariant ==
  ASSUME IInv, CallStep
  PROVE  IInv'
<1>1. ASSUME NEW hook, StartCall(hook) PROVE IInv'
  <2>1. TypeOK'
    <3>1. /\ terminal' \in BOOLEAN /\ terminalUsed' \in BOOLEAN /\ hardAbort' \in BOOLEAN
      <4>1. /\ terminal' = (graceful /\ ~terminalUsed)
            /\ terminalUsed' = (terminalUsed \/ (graceful /\ ~terminalUsed))
            /\ hardAbort' = (hardAbort \/ hook = "hard_abort")
        BY <1>1, Zenon DEF StartCall, GracefulRequested
      <4> QED
        BY <4>1, Zenon
    <3>2. /\ retry' = 0 /\ stripped' = FALSE
          /\ \/ pc' \in {"provider", "abort"} /\ status' = status
             \/ pc' = "ended" /\ status' = "error"
          /\ pc = "call"
          /\ UNCHANGED <<iteration, steering, graceful, rolledBack, batch>>
      BY <1>1 DEF StartCall, Step, End
    <3>3. /\ pc' \in {"provider", "abort", "ended"}
          /\ status' \in {"running", "completed", "aborted", "error"}
          /\ pc' = "ended" <=> status' # "running"
      <4>1. status = "running"
        BY <3>2 DEF IInv, TypeOK
      <4> QED
        BY <3>2, <4>1
    <3>4. retry' \in 0 .. MaxRetries
      <4>1. retry' = 0
        BY <3>2
      <4> QED
        BY <4>1 DEF MaxRetries
    <3>5. stripped' \in BOOLEAN
      BY <3>2, Zenon
    <3> QED
      BY <3>1, <3>2, <3>3, <3>4, <3>5 DEF IInv, TypeOK, steering, batch
  <2>2. ForInterrupt' = 1 \/ ForInterrupt' = ForInterrupt
    BY <1>1 DEF StartCall, GracefulRequested, ForInterrupt, Step, End, IInv, TypeOK
  <2> QED
    BY <1>1, <2>1, <2>2, QuietStep DEF StartCall, IInv, CanRetry, Step, End, steering,
                                       calling, batch
<1>2. CASE ProviderCanceled
  <2>1. TypeOK'
    BY <1>2 DEF ProviderCanceled, IInv, TypeOK, Step, End, steering, flags, calling, batch
  <2> QED
    BY <1>2, <2>1, QuietStep
    DEF ProviderCanceled, IInv, CanRetry, TypeOK, ForInterrupt, Step, End, steering,
        flags, calling, batch
<1>3. CASE RetryWithoutMedia
  <2>1. TypeOK'
    BY <1>3 DEF RetryWithoutMedia, IInv, TypeOK, Step, End, steering, flags, calling,
                batch, CanRetry, MaxRetries
  <2> QED
    BY <1>3, <2>1, QuietStep
    DEF RetryWithoutMedia, IInv, TypeOK, ForInterrupt, Step, End, steering, flags,
        calling, batch, CanRetry, MaxRetries
<1>4. CASE WaitAfterTimeout
  <2>1. TypeOK'
    BY <1>4 DEF WaitAfterTimeout, IInv, TypeOK, Step, End, steering, flags, calling, batch
  <2> QED
    BY <1>4, <2>1, QuietStep
    DEF WaitAfterTimeout, IInv, CanRetry, TypeOK, ForInterrupt, Step, End, steering,
        flags, calling, batch
<1>5. CASE BackoffOver
  <2>1. TypeOK'
    BY <1>5 DEF BackoffOver, IInv, TypeOK, Step, CanRetry, MaxRetries, steering, flags,
                batch
  <2> QED
    BY <1>5, <2>1, QuietStep
    DEF BackoffOver, IInv, CanRetry, TypeOK, ForInterrupt, Step, steering, flags,
        calling, batch
<1>6. CASE BackoffAborted
  <2>1. TypeOK'
    BY <1>6 DEF BackoffAborted, IInv, TypeOK, Step, End, steering, flags, calling, batch
  <2> QED
    BY <1>6, <2>1, QuietStep
    DEF BackoffAborted, IInv, CanRetry, TypeOK, ForInterrupt, Step, End, steering,
        flags, calling, batch
<1>7. CASE RetryCompressed
  <2>1. TypeOK'
    BY <1>7 DEF RetryCompressed, IInv, TypeOK, Step, End, steering, flags, calling,
                batch, CanRetry, MaxRetries
  <2> QED
    BY <1>7, <2>1, QuietStep
    DEF RetryCompressed, IInv, TypeOK, ForInterrupt, Step, End, steering, flags,
        calling, batch, CanRetry, MaxRetries
<1>8. CASE ProviderFails
  <2>1. TypeOK'
    BY <1>8 DEF ProviderFails, IInv, TypeOK, Step, End, steering, flags, calling, batch
  <2> QED
    BY <1>8, <2>1, QuietStep
    DEF ProviderFails, IInv, CanRetry, TypeOK, ForInterrupt, Step, End, steering,
        flags, calling, batch
<1>9. ASSUME NEW hook \in HookActions, StopAfterCall(hook) PROVE IInv'
  <2>1. TypeOK'
    BY <1>9 DEF StopAfterCall, IInv, TypeOK, Step, End, steering, flags, calling, batch
  <2> QED
    BY <1>9, <2>1, QuietStep
    DEF StopAfterCall, IInv, CanRetry, TypeOK, ForInterrupt, Step, End, steering,
        flags, calling, batch
<1>10. CASE AnswersDirectly
  <2>1. /\ pc = "provider" /\ execPending = <<>> /\ status' = status
        /\ execPending' = execPending \o QueueHead /\ pending' = execPending'
        /\ queue' = QueueRest
        /\ pc' = (IF queue # <<>> THEN "loop" ELSE "finalize")
        /\ UNCHANGED <<pushed, iteration, flags, calling, batch>>
    BY <1>10 DEF AnswersDirectly, Step, IInv
  <2>2. /\ execPending' \in Seq(Numbers) /\ queue' \in Seq(Numbers)
        /\ Len(queue') + Len(execPending') = Len(queue) + Len(execPending)
    BY <2>1, PollMoves DEF IInv
  <2>3. TypeOK'
    BY <2>1, <2>2 DEF IInv, TypeOK, flags, calling, batch
  <2>4. ForInterrupt' = ForInterrupt
    BY <2>1 DEF ForInterrupt, flags
  <2> QED
    BY <2>1, <2>2, <2>3, <2>4, SameInjected DEF IInv
<1>11. ASSUME NEW k \in 1 .. MaxCalls, AsksForTools(k) PROVE IInv'
  <2>1. TypeOK'
    BY <1>11, TurnLoopAssumption
    DEF AsksForTools, AppendAll, IInv, TypeOK, Step, flags, calling
  <2>2. /\ iteration' = iteration /\ execPending' = execPending /\ execPending = <<>>
        /\ UNCHANGED <<queue, pushed>>
        /\ ForInterrupt' = ForInterrupt /\ pc' = "tools"
    BY <1>11 DEF AsksForTools, IInv, Step, ForInterrupt, flags
  <2> QED
    BY <2>1, <2>2, SameInjected DEF IInv
<1> QED
  BY <1>1, <1>2, <1>3, <1>4, <1>5, <1>6, <1>7, <1>8, <1>9, <1>10, <1>11 DEF CallStep

\* The tools of a batch.
LEMMA ToolInvariant ==
  ASSUME IInv, ToolStep
  PROVE  IInv'
<1>1. CASE StopAtTool
  <2>1. TypeOK'
    BY <1>1 DEF StopAtTool, IInv, TypeOK, Step, End, steering, flags, calling, batch
  <2> QED
    BY <1>1, <2>1, QuietStep
    DEF StopAtTool, IInv, CanRetry, TypeOK, ForInterrupt, Step, End, steering, flags,
        calling, batch
<1>2. CASE DenyTool
  <2>1. TypeOK'
    <3>1. /\ tool' = tool + 1 /\ tool <= calls /\ calls' = calls /\ handled' = FALSE
          /\ UNCHANGED <<pc, iteration, steering, flags, calling, status>>
      BY <1>2 DEF DenyTool
    <3>2. tool' \in 1 .. calls' + 1
      <4>1. tool' = tool + 1 /\ tool <= calls /\ calls' = calls
        BY <3>1
      <4>2. tool \in 1 .. calls + 1 /\ calls \in 0 .. MaxCalls /\ MaxCalls \in Nat
        BY TurnLoopAssumption DEF IInv, TypeOK
      <4> QED
        BY <4>1, <4>2
    <3>4. handled' \in BOOLEAN
      BY <3>1, Zenon
    <3>3. /\ UNCHANGED <<pc, iteration, status, calls>>
          /\ UNCHANGED <<pending, execPending, queue, pushed>>
          /\ UNCHANGED <<graceful, terminalUsed, hardAbort, rolledBack>>
          /\ UNCHANGED <<terminal, retry, stripped>>
      <4>1. UNCHANGED steering /\ UNCHANGED flags /\ UNCHANGED calling
        BY <3>1
      <4> QED
        BY <3>1, <4>1 DEF steering, flags, calling
    <3> QED
      BY <3>2, <3>3, <3>4 DEF IInv, TypeOK
  <2> QED
    BY <1>2, <2>1, QuietStep
    DEF DenyTool, IInv, CanRetry, TypeOK, ForInterrupt, Step, End, steering, flags,
        calling, batch, AppendAll
<1>3. ASSUME NEW answered \in BOOLEAN, pc \in {"tools", "running"}, tool <= calls,
             Deliver(answered)
      PROVE  IInv'
  <2> DEFINE polled == execPending \o QueueHead
             last   == IF SkipsRest(polled) THEN calls ELSE tool
  <2>1. /\ execPending = <<>> /\ execPending' = polled /\ queue' = QueueRest
        /\ tool' = last + 1 /\ handled' = (handled /\ answered)
        /\ pc' = "tools" /\ status' = status
        /\ UNCHANGED <<iteration, pending, pushed, flags, calling, calls>>
    BY <1>3 DEF Deliver, Step, IInv
  <2>2. /\ execPending' \in Seq(Numbers) /\ queue' \in Seq(Numbers)
        /\ Len(queue') + Len(execPending') = Len(queue) + Len(execPending)
    BY <2>1, PollMoves DEF IInv
  <2>3. last \in tool .. calls /\ (execPending' # <<>> => last = calls)
    BY <1>3, <2>1 DEF IInv, TypeOK, SkipsRest
  <2> HIDE DEF polled, last
  <2>4. tool' \in 1 .. calls' + 1
    BY <2>1, <2>3 DEF IInv, TypeOK
  <2>5. pc # "ended" /\ handled' \in BOOLEAN
    BY <1>3, <2>1 DEF IInv, TypeOK
  <2>6. TypeOK'
    BY <2>1, <2>2, <2>4, <2>5 DEF IInv, TypeOK, flags, calling
  <2>7. ForInterrupt' = ForInterrupt
    BY <1>3, <2>1 DEF ForInterrupt, flags
  <2>8. tool' <= calls' => execPending' = <<>>
    BY <2>1, <2>3 DEF IInv, TypeOK
  <2> QED
    BY <2>1, <2>2, <2>6, <2>7, <2>8, SameInjected DEF IInv
<1>4. ASSUME NEW answered \in BOOLEAN, RespondForTool(answered) PROVE IInv'
  BY <1>3, <1>4 DEF RespondForTool
<1>5. ASSUME NEW hook \in HookActions, StopByToolHook(hook) PROVE IInv'
  <2>1. TypeOK'
    BY <1>5 DEF StopByToolHook, IInv, TypeOK, Step, End, steering, calling, batch
  <2> QED
    BY <1>5, <2>1, QuietStep
    DEF StopByToolHook, IInv, CanRetry, TypeOK, ForInterrupt, Step, End, steering,
        calling, batch
<1>6. CASE StartTool
  <2>1. TypeOK'
    BY <1>6 DEF StartTool, IInv, TypeOK, Step, End, steering, flags, calling, batch
  <2> QED
    BY <1>6, <2>1, QuietStep
    DEF StartTool, IInv, CanRetry, TypeOK, ForInterrupt, Step, End, steering, flags,
        calling, batch
<1>7. ASSUME NEW answered \in BOOLEAN, ToolReturns(answered) PROVE IInv'
  BY <1>3, <1>7 DEF ToolReturns, IInv
<1>8. CASE ToolAborted
  <2>1. TypeOK'
    BY <1>8 DEF ToolAborted, IInv, TypeOK, Step, End, steering, flags, calling, batch
  <2> QED
    BY <1>8, <2>1, QuietStep
    DEF ToolAborted, IInv, CanRetry, TypeOK, ForInterrupt, Step, End, steering, flags,
        calling, batch
<1>9. CASE ToolsDone
  <2>1. /\ pc = "tools" /\ tool > calls /\ status' = status
        /\ pc' \in {"loop", "delivered"} /\ handled' \in BOOLEAN
        /\ UNCHANGED <<iteration, pending, pushed, flags, calling, calls, tool>>
    BY <1>9 DEF ToolsDone, Step, IInv, TypeOK
  <2>2. CASE execPending = <<>>
    <3>1. execPending' = QueueHead /\ queue' = QueueRest
      BY <1>9, <2>2 DEF ToolsDone
    <3>2. execPending' = execPending \o QueueHead
      BY <2>2, <3>1, QueueSplit, ConcatProperties, EmptySeq DEF IInv, TypeOK
    <3> QED
      BY <3>1, <3>2, <2>1, PollMoves, BatchEnds DEF IInv
  <2>3. CASE execPending # <<>>
    BY <1>9, <2>1, <2>3, BatchEnds DEF ToolsDone, IInv, TypeOK
  <2> QED
    BY <2>2, <2>3
<1> QED
  BY <1>1, <1>2, <1>4, <1>5, <1>6, <1>7, <1>8, <1>9 DEF ToolStep

-------------------------------------------------------------------------------
(* The theorems. *)

\* No step of the turn or of its environment leaves the invariant.
LEMMA StepInvariant == IInv /\ [Next]_vars => IInv'
<1> SUFFICES ASSUME IInv, [Next]_vars PROVE IInv'
  OBVIOUS
<1>1. CASE TurnStep
  BY <1>1, LoopInvariant, CallInvariant, ToolInvariant DEF TurnStep
<1>2. CASE Outside
  BY <1>2, OutsideInvariant
<1>3. CASE UNCHANGED vars
  BY <1>3 DEF vars, IInv, TypeOK, CanRetry, Injected, ForInterrupt, steering, flags,
              calling, batch
<1> QED
  BY <1>1, <1>2, <1>3 DEF Next

\* The inductive invariant holds of every turn.
THEOREM Invariance == Spec => []IInv
<1>1. Init => IInv
  BY InitInvariant
<1>2. IInv /\ [Next]_vars => IInv'
  BY StepInvariant
<1> QED
  BY <1>1, <1>2, PTL DEF Spec

\* Type correctness.
THEOREM TypeCorrect == Spec => []TypeOK
<1>1. IInv => TypeOK
  BY DEF IInv
<1> QED
  BY <1>1, Invariance, PTL

\* No tool runs while a steering message the turn has taken waits.
THEOREM CheckpointSafety == Spec => []NoToolAfterSteering
<1>1. IInv => NoToolAfterSteering
  BY DEF IInv, NoToolAfterSteering
<1> QED
  BY <1>1, Invariance, PTL

\* However many messages and interrupts arrive, a turn's iterations are bounded.
THEOREM IterationSafety == Spec => []IterationsBounded
<1>1. IInv => IterationsBounded
  <2> SUFFICES ASSUME IInv PROVE IterationsBounded
    OBVIOUS
  <2>1. /\ Len(queue) >= 0 /\ Len(queue) \in Int
        /\ Len(execPending) >= 0 /\ Len(execPending) \in Int
        /\ pushed \in Int /\ pushed <= NumSteer
        /\ NumSteer \in Int /\ MaxIterations \in Int /\ iteration \in Int
    BY LenProperties, TurnLoopAssumption DEF IInv, TypeOK
  <2>2. iteration <= MaxIterations + (pushed - Len(queue) - Len(execPending)) + 1
    BY <2>1 DEF IInv, Injected, ForInterrupt
  <2> QED
    BY <2>1, <2>2 DEF IterationsBounded
<1> QED
  BY <1>1, Invariance, PTL

-------------------------------------------------------------------------------
(* Histories in which every call has its results.                              *)

\* The messages of a session; a result of n and k is determined by them.
Known ==
  {m \in [role : {"user", "assistant", "tool", "system"},
          of : {"user", "steer", "call", "result", "answer", "system"}, n : Nat, k : Nat] :
     m.of = "call" => m.role = "assistant"}

LEMMA SameMessage ==
  ASSUME NEW m \in Known, NEW o \in Known,
         m.role = o.role, m.of = o.of, m.n = o.n, m.k = o.k
  PROVE  m = o
BY DEF Known

LEMMA ToolBlockIs ==
  ASSUME NEW h, NEW i, NEW j
  PROVE  j \in ToolBlock(h, i) <=>
           j \in i + 1 .. Len(h) /\ \A l \in i + 1 .. j : h[l].role = "tool"
BY DEF ToolBlock

\* As many numbers as before, all moved by the same distance.
Moved(n, S) == {n + j : j \in S}

LEMMA Shifted ==
  ASSUME NEW S \in SUBSET Nat, IsFiniteSet(S), NEW n \in Nat,
         NEW T, T = Moved(n, S)
  PROVE  Cardinality(T) = Cardinality(S)
<1> DEFINE f == [j \in S |-> n + j]
<1> T = {n + j : j \in S}
  BY DEF Moved
<1>1. f \in Bijection(S, T)
  BY DEF Bijection, Injection, Surjection, IsInjective
<1>2. ExistsBijection(S, T)
  BY <1>1 DEF ExistsBijection
<1> QED
  BY <1>2, FS_Bijection

\* Two histories one after the other.
LEMMA ConcatPlaces ==
  ASSUME NEW g \in Seq(Known), NEW h \in Seq(Known),
         NEW n \in Nat, NEW e \in Nat, n = Len(g), e = Len(h)
  PROVE  /\ g \o h \in Seq(Known) /\ Len(g \o h) = n + e /\ DOMAIN (g \o h) = 1 .. n + e
         /\ \A i \in 1 .. n : (g \o h)[i] = g[i]
         /\ \A i \in 1 .. e : (g \o h)[n + i] = h[i]
<1> DEFINE both == g \o h
<1>1. /\ both \in Seq(Known) /\ Len(both) = n + e
      /\ \A i \in 1 .. n + e : both[i] = IF i <= n THEN g[i] ELSE h[i - n]
  BY ConcatProperties
<1>2. ASSUME NEW i \in 1 .. e PROVE both[n + i] = h[i]
  <2>1. n + i \in 1 .. n + e /\ ~(n + i <= n) /\ (n + i) - n = i
    OBVIOUS
  <2> QED
    BY <1>1, <2>1
<1>3. ASSUME NEW i \in 1 .. n PROVE both[i] = g[i]
  <2>1. i \in 1 .. n + e /\ i <= n
    OBVIOUS
  <2> QED
    BY <1>1, <2>1
<1> HIDE DEF both
<1>4. DOMAIN both = 1 .. n + e
  BY <1>1, LenProperties
<1> QED
  BY <1>1, <1>2, <1>3, <1>4 DEF both

\* When the second does not begin with a result, the blocks of the first stay as they
\* are; those of the second move with it.
LEMMA BlocksJoin ==
  ASSUME NEW g \in Seq(Known), NEW h \in Seq(Known),
         NEW n \in Nat, NEW e \in Nat, n = Len(g), e = Len(h),
         h # <<>> => h[1].role # "tool", NEW i \in 1 .. n
  PROVE  ToolBlock(g \o h, i) = ToolBlock(g, i)
<1> DEFINE both == g \o h
<1>1. n = Len(g)
  OBVIOUS
<1>2. e = Len(h)
  OBVIOUS
<1>3. /\ both \in Seq(Known) /\ Len(both) = n + e
      /\ \A q \in 1 .. n : both[q] = g[q]
      /\ \A q \in 1 .. e : both[n + q] = h[q]
  BY ConcatPlaces
<1> HIDE DEF both
<1>4. e > 0 => both[n + 1].role # "tool"
  <2>1. e > 0 => h # <<>> /\ both[n + 1] = h[1]
    BY <1>2, <1>3, EmptySeq
  <2> QED
    BY <2>1
<1>5. ASSUME NEW j, j \in ToolBlock(both, i) PROVE j \in ToolBlock(g, i)
  <2>1. j \in i + 1 .. n + e /\ \A l \in i + 1 .. j : both[l].role = "tool"
    <3>1. Len(both) = n + e
      BY <1>3
    <3> QED
      BY <1>5, <3>1 DEF ToolBlock
  <2>2. j <= n
    <3>1. SUFFICES ASSUME j > n PROVE FALSE
      BY <2>1
    <3>2. n + 1 \in i + 1 .. j /\ e > 0
      BY <2>1, <3>1
    <3> QED
      BY <1>4, <2>1, <3>2
  <2>3. j \in i + 1 .. n /\ \A l \in i + 1 .. j : g[l].role = "tool"
    <3>1. j \in i + 1 .. n
      BY <2>1, <2>2
    <3>2. \A l \in i + 1 .. j : l \in 1 .. n
      BY <3>1
    <3>3. \A l \in i + 1 .. j : both[l] = g[l]
      BY <1>3, <3>2
    <3> QED
      BY <2>1, <3>1, <3>3
  <2> QED
    BY <1>1, <2>3, ToolBlockIs
<1>6. ASSUME NEW j, j \in ToolBlock(g, i) PROVE j \in ToolBlock(both, i)
  <2>1. j \in i + 1 .. n /\ \A l \in i + 1 .. j : g[l].role = "tool"
    BY <1>1, <1>6, ToolBlockIs
  <2>2. j \in i + 1 .. n + e /\ \A l \in i + 1 .. j : both[l].role = "tool"
    BY <1>3, <2>1
  <2> QED
    BY <1>3, <2>2, ToolBlockIs
<1> QED
  BY <1>5, <1>6 DEF both

MovesWith(both, n, h, i) ==
  ToolBlock(both, n + i) = Moved(n, ToolBlock(h, i)) /\ ToolBlock(h, i) \subseteq 1 .. Len(h)

LEMMA BlockMoves ==
  ASSUME NEW both, NEW h, NEW n \in Nat, NEW e \in Nat, Len(both) = n + e, e = Len(h),
         \A l \in 1 .. e : both[n + l] = h[l], NEW i \in 1 .. e
  PROVE  MovesWith(both, n, h, i)
<1>2. e = Len(h)
  OBVIOUS
<1>3. Len(both) = n + e /\ \A l \in 1 .. e : both[n + l] = h[l]
  OBVIOUS
<1>4. ASSUME NEW j, j \in ToolBlock(both, n + i)
      PROVE  j \in Int /\ j - n \in ToolBlock(h, i) /\ n + (j - n) = j
  <2>1. j \in n + i + 1 .. n + e /\ \A l \in n + i + 1 .. j : both[l].role = "tool"
    BY <1>3, <1>4, ToolBlockIs
  <2>2. j - n \in i + 1 .. e
    BY <2>1
  <2>3. ASSUME NEW l \in i + 1 .. j - n PROVE h[l].role = "tool"
    <3>1. n + l \in n + i + 1 .. j /\ l \in 1 .. e
      BY <2>1, <2>3
    <3> QED
      BY <1>3, <2>1, <3>1
  <2> QED
    BY <1>2, <2>1, <2>2, <2>3, ToolBlockIs
<1>5. ASSUME NEW j, j \in ToolBlock(h, i)
      PROVE  n + j \in ToolBlock(both, n + i) /\ j \in 1 .. e
  <2>1. j \in i + 1 .. e /\ \A l \in i + 1 .. j : h[l].role = "tool"
    BY <1>2, <1>5, ToolBlockIs
  <2>2. n + j \in n + i + 1 .. n + e
    BY <2>1
  <2>3. ASSUME NEW l \in n + i + 1 .. n + j PROVE both[l].role = "tool"
    <3>1. l - n \in i + 1 .. j /\ l - n \in 1 .. e /\ n + (l - n) = l
      BY <2>1, <2>3
    <3>2. both[n + (l - n)] = h[l - n]
      BY <1>3, <3>1
    <3>3. h[l - n].role = "tool"
      BY <2>1, <3>1
    <3> QED
      BY <3>1, <3>2, <3>3
  <2>4. n + j \in ToolBlock(both, n + i)
    <3>1. n + j \in n + i + 1 .. Len(both)
      BY <1>3, <2>2
    <3> QED
      BY <2>3, <3>1, ToolBlockIs
  <2> QED
    BY <2>1, <2>4
<1> QED
  BY <1>4, <1>5 DEF Moved, MovesWith

LEMMA BlockLies ==
  ASSUME NEW h, NEW n \in Nat, n = Len(h), NEW i \in 0 .. n
  PROVE  ToolBlock(h, i) \in SUBSET Nat
BY DEF ToolBlock

\* Two such histories one after the other, when the second does not begin with
\* a result.
LEMMA PairedJoin ==
  ASSUME NEW g \in Seq(Known), NEW h \in Seq(Known), Paired(g), Paired(h),
         h # <<>> => h[1].role # "tool"
  PROVE  Paired(g \o h)
<1> DEFINE both == g \o h
<1>1. PICK n \in Nat : n = Len(g)
  BY LenProperties
<1>2. PICK e \in Nat : e = Len(h)
  BY LenProperties
<1>3. /\ both \in Seq(Known) /\ Len(both) = n + e
      /\ \A i \in 1 .. n : both[i] = g[i]
      /\ \A i \in 1 .. e : both[n + i] = h[i]
  BY <1>1, <1>2, ConcatPlaces
<1>4. ASSUME NEW i \in 1 .. n PROVE ToolBlock(both, i) = ToolBlock(g, i)
  BY <1>1, <1>2, BlocksJoin
<1> HIDE DEF both
<1>5. ASSUME NEW i \in 1 .. e
      PROVE  /\ ToolBlock(both, n + i) = Moved(n, ToolBlock(h, i))
             /\ ToolBlock(h, i) \subseteq 1 .. e
  <2>1. MovesWith(both, n, h, i)
    BY <1>2, <1>3, BlockMoves
  <2> QED
    BY <1>2, <2>1 DEF MovesWith
<1>6. DOMAIN both = 1 .. n + e /\ DOMAIN g = 1 .. n /\ DOMAIN h = 1 .. e
  BY <1>1, <1>2, <1>3, LenProperties
<1>7. ASSUME NEW i \in 1 .. n + e, both[i].of = "call"
      PROVE  AllAnswered(both, i) /\ Cardinality(ToolBlock(both, i)) = both[i].k
  <2>1. CASE i <= n
    <3>1. i \in 1 .. n /\ both[i] = g[i] /\ ToolBlock(both, i) = ToolBlock(g, i)
      BY <1>3, <1>4, <2>1
    <3>2. AllAnswered(g, i) /\ Cardinality(ToolBlock(g, i)) = g[i].k
      BY <1>6, <1>7, <3>1 DEF Paired
    <3>3. \A j \in ToolBlock(g, i) : both[j] = g[j]
      <4>1. \A j \in ToolBlock(g, i) : j \in 1 .. n
        BY <1>1, <3>1 DEF ToolBlock
      <4> QED
        BY <1>3, <4>1
    <3> QED
      BY <3>1, <3>2, <3>3 DEF AllAnswered
  <2>2. CASE i > n
    <3>1. PICK o \in 1 .. e : i = n + o
      <4>1. i - n \in 1 .. e /\ i = n + (i - n)
        BY <2>2
      <4> QED
        BY <4>1
    <3>2. both[i] = h[o]
      BY <1>3, <3>1
    <3>3. AllAnswered(h, o) /\ Cardinality(ToolBlock(h, o)) = h[o].k
      BY <1>6, <1>7, <3>2 DEF Paired
    <3>4. ToolBlock(both, i) = Moved(n, ToolBlock(h, o)) /\ ToolBlock(h, o) \subseteq 1 .. e
      BY <1>5, <3>1
    <3>5. Cardinality(ToolBlock(both, i)) = Cardinality(ToolBlock(h, o))
      <4>1. IsFiniteSet(1 .. e)
        BY FS_Interval
      <4>2. IsFiniteSet(ToolBlock(h, o))
        BY <3>4, <4>1, FS_Subset
      <4>3. ToolBlock(h, o) \in SUBSET Nat
        BY <3>4
      <4> QED
        BY <3>4, <4>2, <4>3, Shifted
    <3>6. AllAnswered(both, i)
      <4>1. \A j \in ToolBlock(h, o) : both[n + j] = h[j] /\ n + j \in ToolBlock(both, i)
        BY <1>3, <3>4 DEF Moved
      <4> QED
        BY <3>2, <3>3, <4>1 DEF AllAnswered
    <3> QED
      BY <3>2, <3>3, <3>5, <3>6
  <2> QED
    BY <2>1, <2>2
<1>8. ASSUME NEW j \in 1 .. n + e, both[j].role = "tool"
      PROVE  \E i \in 1 .. j - 1 :
               both[i].of = "call" /\ j \in ToolBlock(both, i) /\ Answers(both[j], both[i])
  <2>1. CASE j <= n
    <3>1. j \in 1 .. n /\ both[j] = g[j]
      BY <1>3, <2>1
    <3>2. PICK i \in 1 .. j - 1 :
            g[i].of = "call" /\ j \in ToolBlock(g, i) /\ Answers(g[j], g[i])
      BY <1>6, <1>8, <3>1 DEF Paired
    <3>3. i \in 1 .. n
      BY <3>1, <3>2
    <3>4. both[i] = g[i] /\ ToolBlock(both, i) = ToolBlock(g, i)
      BY <1>3, <1>4, <3>3
    <3> QED
      BY <3>1, <3>2, <3>4
  <2>2. CASE j > n
    <3>1. PICK o \in 1 .. e : j = n + o
      <4>1. j - n \in 1 .. e /\ j = n + (j - n)
        BY <2>2
      <4> QED
        BY <4>1
    <3>2. both[j] = h[o]
      BY <1>3, <3>1
    <3>3. PICK i \in 1 .. o - 1 :
            h[i].of = "call" /\ o \in ToolBlock(h, i) /\ Answers(h[o], h[i])
      BY <1>6, <1>8, <3>2 DEF Paired
    <3>4. i \in 1 .. e /\ n + i \in 1 .. j - 1
      BY <3>1, <3>3
    <3>5. both[n + i] = h[i] /\ j \in ToolBlock(both, n + i)
      BY <1>3, <1>5, <3>1, <3>3, <3>4 DEF Moved
    <3> QED
      BY <3>2, <3>3, <3>4, <3>5
  <2> QED
    BY <2>1, <2>2
<1>9. Paired(both)
  BY <1>6, <1>7, <1>8 DEF Paired
<1> QED
  BY <1>9 DEF both

\* Messages that are neither calls nor results.
LEMMA PairedPlain ==
  ASSUME NEW h, \A i \in DOMAIN h : h[i].of # "call" /\ h[i].role # "tool"
  PROVE  Paired(h)
BY DEF Paired

\* The message of the batch's calls and the results of the first of them.
Batch(done) ==
  [j \in 1 .. done + 1 |-> IF j = 1 THEN CallMessage(calls) ELSE ResultOf(j - 1)]

LEMMA BatchType ==
  ASSUME iteration \in Nat, calls \in Nat, NEW done \in Nat
  PROVE  /\ Batch(done) \in Seq(Known) /\ Len(Batch(done)) = done + 1
         /\ Batch(done)[1] = CallMessage(calls)
         /\ \A j \in 2 .. done + 1 : Batch(done)[j] = ResultOf(j - 1)
<1>1. CallMessage(calls) \in Known
  BY DEF CallMessage, Message, Known
<1>2. ASSUME NEW j \in 2 .. done + 1 PROVE ResultOf(j - 1) \in Known
  <2>1. j - 1 \in Nat
    OBVIOUS
  <2> QED
    BY <2>1 DEF ResultOf, Message, Known
<1>3. \A j \in 1 .. done + 1 :
        (IF j = 1 THEN CallMessage(calls) ELSE ResultOf(j - 1)) \in Known
  <2>1. \A j \in 1 .. done + 1 : j = 1 \/ j \in 2 .. done + 1
    OBVIOUS
  <2> QED
    BY <1>1, <1>2, <2>1
<1>4. Batch(done) \in [1 .. done + 1 -> Known]
  BY <1>3 DEF Batch
<1>5. done + 1 \in Nat
  OBVIOUS
<1>6. Batch(done) \in Seq(Known) /\ Len(Batch(done)) = done + 1
  <2> DEFINE b == Batch(done)
  <2>1. b \in [1 .. done + 1 -> Known]
    BY <1>4
  <2> HIDE DEF b
  <2>2. b \in Seq(Known) /\ Len(b) = done + 1
    BY <1>5, <2>1
  <2> QED
    BY <2>2 DEF b
<1>7. /\ Batch(done)[1] = CallMessage(calls)
      /\ \A j \in 2 .. done + 1 : Batch(done)[j] = ResultOf(j - 1)
  BY DEF Batch
<1> QED
  BY <1>6, <1>7

\* A batch that is over.
LEMMA PairedBatch ==
  ASSUME iteration \in Nat, calls \in Nat
  PROVE  Paired(Batch(calls))
<1> DEFINE b == Batch(calls)
<1>1. /\ b \in Seq(Known) /\ Len(b) = calls + 1 /\ b[1] = CallMessage(calls)
      /\ \A j \in 2 .. calls + 1 : b[j] = ResultOf(j - 1)
  BY BatchType
<1> HIDE DEF b
<1>2. DOMAIN b = 1 .. calls + 1
  BY <1>1, LenProperties
<1>3. /\ b[1].of = "call" /\ b[1].role = "assistant" /\ b[1].n = iteration /\ b[1].k = calls
      /\ \A j \in 2 .. calls + 1 :
           /\ b[j].role = "tool" /\ b[j].of = "result"
           /\ b[j].n = iteration /\ b[j].k = j - 1
  <2>1. \A k : /\ ResultOf(k).role = "tool" /\ ResultOf(k).of = "result"
               /\ ResultOf(k).n = iteration /\ ResultOf(k).k = k
    BY DEF ResultOf, Message
  <2>2. \A k : /\ CallMessage(k).of = "call" /\ CallMessage(k).role = "assistant"
               /\ CallMessage(k).n = iteration /\ CallMessage(k).k = k
    BY DEF CallMessage, Message
  <2> QED
    BY <1>1, <2>1, <2>2
<1>4. ToolBlock(b, 1) = 2 .. calls + 1
  BY <1>1, <1>3 DEF ToolBlock
<1>5. \A j \in 2 .. calls + 1 : Answers(b[j], b[1])
  BY <1>3 DEF Answers
<1>6. AllAnswered(b, 1)
  <2>1. ASSUME NEW k \in 1 .. calls
        PROVE  \E j \in ToolBlock(b, 1) : Answers(b[j], b[1]) /\ b[j].k = k
    <3>1. k + 1 \in 2 .. calls + 1 /\ (k + 1) - 1 = k
      OBVIOUS
    <3>2. Answers(b[k + 1], b[1]) /\ k + 1 \in ToolBlock(b, 1)
      BY <1>4, <1>5, <3>1
    <3>3. b[k + 1].k = k
      BY <1>3, <3>1
    <3> QED
      BY <3>2, <3>3
  <2> QED
    BY <1>3, <2>1 DEF AllAnswered
<1>7. Cardinality(ToolBlock(b, 1)) = calls
  <2>1. Cardinality(2 .. calls + 1) = calls
    BY FS_Interval
  <2> QED
    BY <1>4, <2>1
<1>8. \A i \in DOMAIN b : i = 1 \/ i \in 2 .. calls + 1
  BY <1>2
<1>9. \A i \in DOMAIN b : b[i].of = "call" => i = 1
  BY <1>3, <1>8
<1>10. \A j \in DOMAIN b : b[j].role = "tool" => j \in 2 .. calls + 1 /\ 1 \in 1 .. j - 1
  BY <1>3, <1>8
<1>11. Paired(b)
  BY <1>3, <1>4, <1>5, <1>6, <1>7, <1>9, <1>10 DEF Paired
<1> QED
  BY <1>11 DEF b

-------------------------------------------------------------------------------
(* Induction.  A set of numbers with zero and every successor of its members   *)
(* has all of them: a least number outside of it cannot be.                    *)

LEMMA Induction ==
  ASSUME NEW T, 0 \in T, \A n \in Nat : n \in T => n + 1 \in T
  PROVE  Nat \subseteq T
<1> DEFINE Less == {ss \in Nat \X Nat : ss[1] < ss[2]}
           Out == Nat \ T
<1>1. IsWellFoundedOn(Less, Nat) BY NatLessThanWellFounded DEF OpToRel
<1>2. SUFFICES ASSUME Out # {} PROVE FALSE OBVIOUS
<1>3. PICK x \in Out : \A y \in Out : ~(<<y, x>> \in Less)
  <2>1. Out \subseteq Nat OBVIOUS
  <2> HIDE DEF Less, Out
  <2> QED BY <1>1, <1>2, <2>1, WFMin
<1>4. x \in Nat /\ x \notin T /\ x # 0 OBVIOUS
<1>5. x - 1 \in Nat /\ x - 1 < x BY <1>4
<1>6. x - 1 \in T
  <2>1. CASE x - 1 \in Out
    <3>1. <<x - 1, x>> \in Less BY <1>4, <1>5
    <3> QED BY <1>3, <2>1, <3>1
  <2>2. CASE x - 1 \notin Out BY <2>2, <1>5
  <2> QED BY <2>1, <2>2
<1>7. (x - 1) + 1 \in T BY <1>5, <1>6
<1> QED BY <1>4, <1>7

LEMMA SeqInduction ==
  ASSUME NEW A, NEW T, <<>> \in T,
         \A s \in Seq(A), e \in A : s \in T => Append(s, e) \in T
  PROVE  Seq(A) \subseteq T
<1> DEFINE N == {n \in Nat : \A s \in Seq(A) : Len(s) = n => s \in T}
<1>1. 0 \in N
  <2>1. \A s \in Seq(A) : Len(s) = 0 => s = <<>> BY EmptySeq
  <2> QED BY <2>1
<1>2. ASSUME NEW n \in Nat, n \in N PROVE n + 1 \in N
  <2>1. SUFFICES ASSUME NEW s \in Seq(A), Len(s) = n + 1 PROVE s \in T OBVIOUS
  <2>2. s # <<>> BY <2>1, EmptySeq
  <2>3. PICK r \in Seq(A), e \in A : s = Append(r, e) BY <2>2, SequenceEmptyOrAppend
  <2>4. Len(r) = n BY <2>1, <2>3, AppendProperties, LenProperties
  <2>5. r \in T BY <1>2, <2>4
  <2> QED BY <2>3, <2>5
<1>3. Nat \subseteq N
  <2> HIDE DEF N
  <2> QED BY <1>1, <1>2, Induction
<1>4. ASSUME NEW s \in Seq(A) PROVE s \in T
  <2>1. Len(s) \in Nat BY LenProperties
  <2> QED BY <1>3, <2>1
<1> QED BY <1>4

-------------------------------------------------------------------------------
(* What the two passes of Sanitize return.  FirstOf and SelectedOf say that f  *)
(* is the function that FirstPass and Selected define.                         *)

FirstOf(f, h, k) ==
  f = [i \in 0 .. k |->
         IF i = 0 THEN <<>>
         ELSE IF Follows(h[i], f[i - 1]) THEN Append(f[i - 1], h[i]) ELSE f[i - 1]]

SelectedOf(f, h, S, k) ==
  f = [i \in 0 .. k |->
         IF i = 0 THEN <<>>
         ELSE IF i \in S THEN Append(f[i - 1], h[i]) ELSE f[i - 1]]

LEMMA FirstExists ==
  ASSUME NEW h, NEW k \in Nat
  PROVE  \E f : FirstOf(f, h, k)
<1> DEFINE T == {n \in Nat : \E f : FirstOf(f, h, n)}
<1>1. 0 \in T
  <2> DEFINE g == [n \in 0 .. 0 |-> <<>>]
  <2>1. FirstOf(g, h, 0)
    BY DEF FirstOf
  <2> QED
    BY <2>1
<1>2. ASSUME NEW n \in Nat, n \in T PROVE n + 1 \in T
  <2>1. PICK f : FirstOf(f, h, n)
    BY <1>2
  <2> DEFINE g == [i \in 0 .. n + 1 |->
                     IF i # n + 1 THEN f[i]
                     ELSE IF Follows(h[n + 1], f[n]) THEN Append(f[n], h[n + 1]) ELSE f[n]]
             w == [i \in 0 .. n + 1 |->
                     IF i = 0 THEN <<>>
                     ELSE IF Follows(h[i], g[i - 1]) THEN Append(g[i - 1], h[i]) ELSE g[i - 1]]
  <2>2. ASSUME NEW i \in 0 .. n + 1 PROVE g[i] = w[i]
    <3>1. CASE i = n + 1
      <4>1. i - 1 = n /\ i # 0 /\ n \in 0 .. n + 1 /\ n # n + 1
        BY <3>1
      <4>2. g[n] = f[n]
        BY <4>1
      <4> QED
        BY <3>1, <4>1, <4>2
    <3>2. CASE i \in 0 .. n
      <4>1. g[i] = f[i]
        BY <3>2
      <4>2. f[i] = IF i = 0 THEN <<>>
                   ELSE IF Follows(h[i], f[i - 1]) THEN Append(f[i - 1], h[i]) ELSE f[i - 1]
        BY <2>1, <3>2 DEF FirstOf
      <4>3. CASE i = 0
        BY <4>1, <4>2, <4>3
      <4>4. CASE i # 0
        <5>1. i - 1 \in 0 .. n + 1 /\ i - 1 # n + 1
          BY <3>2, <4>4
        <5>2. g[i - 1] = f[i - 1]
          BY <5>1
        <5> QED
          BY <4>1, <4>2, <4>4, <5>2
      <4> QED
        BY <4>3, <4>4
    <3> QED
      BY <3>1, <3>2
  <2>3. g = w
    BY <2>2
  <2>4. FirstOf(g, h, n + 1)
    BY <2>3 DEF FirstOf
  <2> QED
    BY <2>4
<1>3. Nat \subseteq T
  <2> HIDE DEF T
  <2> QED
    BY <1>1, <1>2, Induction
<1> QED
  BY <1>3

LEMMA FirstPassIs ==
  ASSUME NEW h, Len(h) \in Nat
  PROVE  \E f : FirstOf(f, h, Len(h)) /\ FirstPass(h) = f[Len(h)]
<1> DEFINE kept == CHOOSE f : FirstOf(f, h, Len(h))
<1>1. FirstOf(kept, h, Len(h))
  BY FirstExists
<1>2. FirstPass(h) = kept[Len(h)]
  BY DEF FirstPass, FirstOf
<1> QED
  BY <1>1, <1>2

LEMMA FirstPassEmpty == FirstPass(<<>>) = <<>>
<1>1. Len(<<>>) = 0
  OBVIOUS
<1>2. PICK f : FirstOf(f, <<>>, 0) /\ FirstPass(<<>>) = f[0]
  BY <1>1, FirstPassIs
<1> QED
  BY <1>2 DEF FirstOf

LEMMA FirstPassAppend ==
  ASSUME NEW A, NEW h \in Seq(A), NEW m \in A
  PROVE  FirstPass(Append(h, m))
           = IF Follows(m, FirstPass(h)) THEN Append(FirstPass(h), m) ELSE FirstPass(h)
<1> DEFINE t == Append(h, m)
<1>1. /\ Len(h) \in Nat /\ Len(t) = Len(h) + 1
      /\ t[Len(h) + 1] = m /\ \A i \in 1 .. Len(h) : t[i] = h[i]
  BY AppendProperties, LenProperties
<1>2. PICK f : FirstOf(f, h, Len(h)) /\ FirstPass(h) = f[Len(h)]
  BY <1>1, FirstPassIs
<1>3. PICK g : FirstOf(g, t, Len(t)) /\ FirstPass(t) = g[Len(t)]
  <2>1. Len(t) \in Nat
    BY <1>1
  <2> HIDE DEF t
  <2> QED
    BY <2>1, FirstPassIs
<1> HIDE DEF t
<1>4. PICK k \in Nat : k = Len(h)
  BY <1>1
<1>5. FirstOf(f, h, k) /\ FirstOf(g, t, k + 1)
  BY <1>1, <1>2, <1>3, <1>4
<1> DEFINE T == {n \in Nat : n <= k => f[n] = g[n]}
<1>6. 0 \in T
  BY <1>5 DEF FirstOf
<1>7. ASSUME NEW n \in Nat, n \in T PROVE n + 1 \in T
  <2>1. SUFFICES ASSUME n + 1 <= k PROVE f[n + 1] = g[n + 1]
    OBVIOUS
  <2>2. f[n] = g[n]
    BY <1>7, <2>1
  <2>3. n + 1 \in 0 .. k /\ n + 1 \in 0 .. k + 1 /\ n + 1 # 0 /\ (n + 1) - 1 = n
    BY <2>1
  <2>4. f[n + 1] = IF Follows(h[n + 1], f[n]) THEN Append(f[n], h[n + 1]) ELSE f[n]
    BY <1>5, <2>3 DEF FirstOf
  <2>5. g[n + 1] = IF Follows(t[n + 1], g[n]) THEN Append(g[n], t[n + 1]) ELSE g[n]
    BY <1>5, <2>3 DEF FirstOf
  <2>6. t[n + 1] = h[n + 1]
    BY <1>1, <1>4, <2>1
  <2> QED
    BY <2>2, <2>4, <2>5, <2>6
<1>8. f[k] = g[k]
  <2>1. Nat \subseteq T
    <3> HIDE DEF T
    <3> QED
      BY <1>6, <1>7, Induction
  <2> QED
    BY <2>1
<1>9. g[k + 1] = IF Follows(t[k + 1], g[k]) THEN Append(g[k], t[k + 1]) ELSE g[k]
  <2>1. k + 1 \in 0 .. k + 1 /\ k + 1 # 0 /\ (k + 1) - 1 = k
    OBVIOUS
  <2> QED
    BY <1>5, <2>1 DEF FirstOf
<1> QED
  BY <1>1, <1>2, <1>3, <1>4, <1>8, <1>9 DEF t

LEMMA SelectedExists ==
  ASSUME NEW h, NEW S, NEW k \in Nat
  PROVE  \E f : SelectedOf(f, h, S, k)
<1> DEFINE T == {n \in Nat : \E f : SelectedOf(f, h, S, n)}
<1>1. 0 \in T
  <2> DEFINE g == [n \in 0 .. 0 |-> <<>>]
  <2>1. SelectedOf(g, h, S, 0)
    BY DEF SelectedOf
  <2> QED
    BY <2>1
<1>2. ASSUME NEW n \in Nat, n \in T PROVE n + 1 \in T
  <2>1. PICK f : SelectedOf(f, h, S, n)
    BY <1>2
  <2> DEFINE g == [i \in 0 .. n + 1 |->
                     IF i # n + 1 THEN f[i]
                     ELSE IF n + 1 \in S THEN Append(f[n], h[n + 1]) ELSE f[n]]
             w == [i \in 0 .. n + 1 |->
                     IF i = 0 THEN <<>>
                     ELSE IF i \in S THEN Append(g[i - 1], h[i]) ELSE g[i - 1]]
  <2>2. ASSUME NEW i \in 0 .. n + 1 PROVE g[i] = w[i]
    <3>1. CASE i = n + 1
      <4>1. i - 1 = n /\ i # 0 /\ n \in 0 .. n + 1 /\ n # n + 1
        BY <3>1
      <4>2. g[n] = f[n]
        BY <4>1
      <4> QED
        BY <3>1, <4>1, <4>2
    <3>2. CASE i \in 0 .. n
      <4>1. g[i] = f[i]
        BY <3>2
      <4>2. f[i] = IF i = 0 THEN <<>> ELSE IF i \in S THEN Append(f[i - 1], h[i]) ELSE f[i - 1]
        BY <2>1, <3>2 DEF SelectedOf
      <4>3. CASE i = 0
        BY <4>1, <4>2, <4>3
      <4>4. CASE i # 0
        <5>1. i - 1 \in 0 .. n + 1 /\ i - 1 # n + 1
          BY <3>2, <4>4
        <5>2. g[i - 1] = f[i - 1]
          BY <5>1
        <5> QED
          BY <4>1, <4>2, <4>4, <5>2
      <4> QED
        BY <4>3, <4>4
    <3> QED
      BY <3>1, <3>2
  <2>3. g = w
    BY <2>2
  <2>4. SelectedOf(g, h, S, n + 1)
    BY <2>3 DEF SelectedOf
  <2> QED
    BY <2>4
<1>3. Nat \subseteq T
  <2> HIDE DEF T
  <2> QED
    BY <1>1, <1>2, Induction
<1> QED
  BY <1>3

LEMMA SelectedIs ==
  ASSUME NEW h, NEW S, Len(h) \in Nat
  PROVE  \E f : SelectedOf(f, h, S, Len(h)) /\ Selected(h, S) = f[Len(h)]
<1> DEFINE kept == CHOOSE f : SelectedOf(f, h, S, Len(h))
<1>1. SelectedOf(kept, h, S, Len(h))
  BY SelectedExists
<1>2. Selected(h, S) = kept[Len(h)]
  BY DEF Selected, SelectedOf
<1> QED
  BY <1>1, <1>2

LEMMA SelectedEmpty == ASSUME NEW S PROVE Selected(<<>>, S) = <<>>
<1>1. Len(<<>>) = 0
  OBVIOUS
<1>2. PICK f : SelectedOf(f, <<>>, S, 0) /\ Selected(<<>>, S) = f[0]
  BY <1>1, SelectedIs
<1> QED
  BY <1>2 DEF SelectedOf

LEMMA SelectedAppend ==
  ASSUME NEW A, NEW S, NEW h \in Seq(A), NEW m \in A
  PROVE  Selected(Append(h, m), S)
           = IF Len(h) + 1 \in S THEN Append(Selected(h, S), m) ELSE Selected(h, S)
<1> DEFINE t == Append(h, m)
<1>1. /\ Len(h) \in Nat /\ Len(t) = Len(h) + 1
      /\ t[Len(h) + 1] = m /\ \A i \in 1 .. Len(h) : t[i] = h[i]
  BY AppendProperties, LenProperties
<1>2. PICK f : SelectedOf(f, h, S, Len(h)) /\ Selected(h, S) = f[Len(h)]
  BY <1>1, SelectedIs
<1>3. PICK g : SelectedOf(g, t, S, Len(t)) /\ Selected(t, S) = g[Len(t)]
  <2>1. Len(t) \in Nat
    BY <1>1
  <2> HIDE DEF t
  <2> QED
    BY <2>1, SelectedIs
<1> HIDE DEF t
<1>4. PICK k \in Nat : k = Len(h)
  BY <1>1
<1>5. SelectedOf(f, h, S, k) /\ SelectedOf(g, t, S, k + 1)
  BY <1>1, <1>2, <1>3, <1>4
<1> DEFINE T == {n \in Nat : n <= k => f[n] = g[n]}
<1>6. 0 \in T
  BY <1>5 DEF SelectedOf
<1>7. ASSUME NEW n \in Nat, n \in T PROVE n + 1 \in T
  <2>1. SUFFICES ASSUME n + 1 <= k PROVE f[n + 1] = g[n + 1]
    OBVIOUS
  <2>2. f[n] = g[n]
    BY <1>7, <2>1
  <2>3. n + 1 \in 0 .. k /\ n + 1 \in 0 .. k + 1 /\ n + 1 # 0 /\ (n + 1) - 1 = n
    BY <2>1
  <2>4. f[n + 1] = IF n + 1 \in S THEN Append(f[n], h[n + 1]) ELSE f[n]
    BY <1>5, <2>3 DEF SelectedOf
  <2>5. g[n + 1] = IF n + 1 \in S THEN Append(g[n], t[n + 1]) ELSE g[n]
    BY <1>5, <2>3 DEF SelectedOf
  <2>6. t[n + 1] = h[n + 1]
    BY <1>1, <1>4, <2>1
  <2> QED
    BY <2>2, <2>4, <2>5, <2>6
<1>8. f[k] = g[k]
  <2>1. Nat \subseteq T
    <3> HIDE DEF T
    <3> QED
      BY <1>6, <1>7, Induction
  <2> QED
    BY <2>1
<1>9. g[k + 1] = IF k + 1 \in S THEN Append(g[k], t[k + 1]) ELSE g[k]
  <2>1. k + 1 \in 0 .. k + 1 /\ k + 1 # 0 /\ (k + 1) - 1 = k
    OBVIOUS
  <2> QED
    BY <1>5, <2>1 DEF SelectedOf
<1> QED
  BY <1>1, <1>2, <1>3, <1>4, <1>8, <1>9 DEF t

LEMMA FirstPassType ==
  ASSUME NEW A, NEW h \in Seq(A)
  PROVE  FirstPass(h) \in Seq(A)
<1> DEFINE T == {r \in Seq(A) : FirstPass(r) \in Seq(A)}
<1>1. <<>> \in T
  BY FirstPassEmpty, EmptySeq
<1>2. ASSUME NEW r \in Seq(A), NEW m \in A, r \in T PROVE Append(r, m) \in T
  <2>1. Append(r, m) \in Seq(A) /\ Append(FirstPass(r), m) \in Seq(A) /\ FirstPass(r) \in Seq(A)
    BY <1>2, AppendProperties
  <2>2. FirstPass(Append(r, m))
          = IF Follows(m, FirstPass(r)) THEN Append(FirstPass(r), m) ELSE FirstPass(r)
    BY FirstPassAppend
  <2> QED
    BY <2>1, <2>2
<1>3. Seq(A) \subseteq T
  <2> HIDE DEF T
  <2> QED
    BY <1>1, <1>2, SeqInduction
<1> QED
  BY <1>3

\* The places in h of what is selected: all that are in S, in their order.
PlacesOf(at, h, S) ==
  LET s == Selected(h, S)
  IN  /\ at \in [1 .. Len(s) -> S \cap (1 .. Len(h))]
      /\ \A q \in 1 .. Len(s) : s[q] = h[at[q]]
      /\ \A i \in S \cap (1 .. Len(h)) : \E q \in 1 .. Len(s) : at[q] = i
      /\ \A p, q \in 1 .. Len(s) : p < q => at[p] < at[q]

LEMMA SelectedPlaces ==
  ASSUME NEW A, NEW S, NEW h \in Seq(A)
  PROVE  Selected(h, S) \in Seq(A) /\ \E at : PlacesOf(at, h, S)
<1> DEFINE T == {r \in Seq(A) : Selected(r, S) \in Seq(A) /\ \E at : PlacesOf(at, r, S)}
<1>1. <<>> \in T
  <2>1. Selected(<<>>, S) = <<>> /\ Len(<<>>) = 0 /\ <<>> \in Seq(A)
    BY SelectedEmpty, EmptySeq
  <2>2. PlacesOf([q \in 1 .. 0 |-> 0], <<>>, S)
    BY <2>1 DEF PlacesOf
  <2> QED
    BY <2>1, <2>2
<1>2. ASSUME NEW r \in Seq(A), NEW m \in A, r \in T PROVE Append(r, m) \in T
  <2> DEFINE t == Append(r, m)
             s == Selected(r, S)
             u == Selected(t, S)
  <2>1. PICK n \in Nat : n = Len(r)
    BY LenProperties
  <2>2. /\ t \in Seq(A) /\ Len(t) = n + 1 /\ t[n + 1] = m
        /\ \A i \in 1 .. n : t[i] = r[i]
    BY <2>1, AppendProperties
  <2>3. s \in Seq(A)
    BY <1>2
  <2>4. PICK l \in Nat : l = Len(s)
    BY <2>3, LenProperties
  <2>5. PICK at : PlacesOf(at, r, S)
    BY <1>2
  <2>6. /\ at \in [1 .. l -> S \cap (1 .. n)]
        /\ \A q \in 1 .. l : s[q] = r[at[q]]
        /\ \A i \in S \cap (1 .. n) : \E q \in 1 .. l : at[q] = i
        /\ \A p, q \in 1 .. l : p < q => at[p] < at[q]
    BY <2>1, <2>4, <2>5 DEF PlacesOf
  <2>7. u = IF n + 1 \in S THEN Append(s, m) ELSE s
    BY <2>1, SelectedAppend
  <2>8. u \in Seq(A)
    BY <2>3, <2>7, AppendProperties
  <2>9. CASE n + 1 \in S
    <3> DEFINE new == [q \in 1 .. l + 1 |-> IF q = l + 1 THEN n + 1 ELSE at[q]]
    <3>1. Len(u) = l + 1 /\ u[l + 1] = m /\ \A q \in 1 .. l : u[q] = s[q]
      BY <2>3, <2>4, <2>7, <2>9, AppendProperties
    <3> HIDE DEF t, s, u
    <3>2. \A q \in 1 .. l : at[q] \in S /\ at[q] \in 1 .. n
      BY <2>6
    <3>3. \A q \in 1 .. l + 1 : q = l + 1 \/ (q \in 1 .. l /\ q # l + 1)
      OBVIOUS
    <3>4. \A q \in 1 .. l + 1 : new[q] \in S \cap (1 .. n + 1)
      <4>1. n + 1 \in S \cap (1 .. n + 1)
        BY <2>9
      <4>2. \A q \in 1 .. l : at[q] \in S \cap (1 .. n + 1)
        BY <3>2
      <4> QED
        BY <3>3, <4>1, <4>2
    <3>5. \A q \in 1 .. l + 1 : u[q] = t[new[q]]
      <4>1. u[l + 1] = t[new[l + 1]]
        BY <2>2, <3>1
      <4>2. ASSUME NEW q \in 1 .. l PROVE u[q] = t[new[q]]
        <5>1. new[q] = at[q]
          OBVIOUS
        <5> QED
          BY <2>2, <2>6, <3>1, <3>2, <5>1
      <4> QED
        BY <3>3, <4>1, <4>2
    <3>6. ASSUME NEW i \in S \cap (1 .. n + 1) PROVE \E q \in 1 .. l + 1 : new[q] = i
      <4>1. CASE i = n + 1
        <5>1. l + 1 \in 1 .. l + 1 /\ new[l + 1] = n + 1
          OBVIOUS
        <5> QED
          BY <4>1, <5>1
      <4>2. CASE i # n + 1
        <5>1. PICK q \in 1 .. l : at[q] = i
          <6>1. i \in S \cap (1 .. n)
            BY <4>2
          <6> QED
            BY <2>6, <6>1
        <5>2. q \in 1 .. l + 1 /\ new[q] = at[q]
          OBVIOUS
        <5> QED
          BY <5>1, <5>2
      <4> QED
        BY <4>1, <4>2
    <3>7. ASSUME NEW p \in 1 .. l + 1, NEW q \in 1 .. l + 1, p < q PROVE new[p] < new[q]
      <4>1. p \in 1 .. l /\ new[p] = at[p] /\ at[p] \in 1 .. n
        BY <3>2, <3>7
      <4>2. CASE q = l + 1
        <5>1. new[q] = n + 1
          BY <4>2
        <5> QED
          BY <4>1, <5>1
      <4>3. CASE q # l + 1
        <5>1. q \in 1 .. l /\ new[q] = at[q]
          BY <4>3
        <5> QED
          BY <2>6, <3>7, <4>1, <5>1
      <4> QED
        BY <4>2, <4>3
    <3>8. new \in [1 .. l + 1 -> S \cap (1 .. n + 1)]
      BY <3>4
    <3> HIDE DEF new
    <3>9. PlacesOf(new, t, S)
      BY <2>2, <3>1, <3>5, <3>6, <3>7, <3>8 DEF PlacesOf, u
    <3> QED
      BY <2>2, <2>8, <3>9 DEF t, u
  <2>10. CASE n + 1 \notin S
    <3>1. u = s
      BY <2>7, <2>10
    <3> HIDE DEF t, s, u
    <3>2. S \cap (1 .. n + 1) = S \cap (1 .. n)
      <4>1. \A i \in 1 .. n + 1 : i = n + 1 \/ i \in 1 .. n
        OBVIOUS
      <4> QED
        BY <2>10, <4>1
    <3>3. \A q \in 1 .. l : s[q] = t[at[q]]
      BY <2>2, <2>6
    <3>4. PlacesOf(at, t, S)
      BY <2>2, <2>4, <2>6, <3>1, <3>2, <3>3 DEF PlacesOf, u
    <3> QED
      BY <2>2, <2>8, <3>4 DEF t, u
  <2> QED
    BY <2>9, <2>10
<1>3. Seq(A) \subseteq T
  <2> HIDE DEF T
  <2> QED
    BY <1>1, <1>2, SeqInduction
<1> QED
  BY <1>3

\* The places of the second pass.
ShownPlaces(h) ==
  {i \in DOMAIN h : IF h[i].of = "call" THEN AllAnswered(h, i)
                    ELSE h[i].role = "tool" => ShownResult(h, i)}

LEMMA SanitizeIs ==
  ASSUME NEW h
  PROVE  Sanitize(h) = Selected(FirstPass(h), ShownPlaces(FirstPass(h)))
BY DEF Sanitize, ShownPlaces

LEMMA Least ==
  ASSUME NEW S \in SUBSET Nat, S # {}
  PROVE  \E x \in S : \A y \in S : x <= y
<1> DEFINE Less == {ss \in Nat \X Nat : ss[1] < ss[2]}
<1>1. IsWellFoundedOn(Less, Nat)
  BY NatLessThanWellFounded DEF OpToRel
<1>2. PICK x \in S : \A y \in S : ~(<<y, x>> \in Less)
  <2> HIDE DEF Less
  <2> QED
    BY <1>1, WFMin
<1>3. ASSUME NEW y \in S PROVE x <= y
  <2>1. x \in Nat /\ y \in Nat /\ ~(<<y, x>> \in Less)
    BY <1>2
  <2>2. ~(y < x)
    BY <2>1
  <2> QED
    BY <2>1, <2>2
<1> QED
  BY <1>3

\* What the second pass keeps has every call followed by exactly its results: of
\* a call's block of results the first for each of its tools is shown, and no
\* result is shown without its call.
LEMMA SelectedPaired ==
  ASSUME NEW h \in Seq(Known)
  PROVE  Paired(Selected(h, ShownPlaces(h)))
<1> DEFINE S == ShownPlaces(h)
           s == Selected(h, S)
<1>1. PICK e \in Nat : e = Len(h)
  BY LenProperties
<1>2. s \in Seq(Known)
  BY SelectedPlaces
<1>3. PICK l \in Nat : l = Len(s)
  BY <1>2, LenProperties
<1>4. PICK at : PlacesOf(at, h, S)
  BY SelectedPlaces
<1>5. /\ at \in [1 .. l -> S \cap (1 .. e)]
      /\ \A q \in 1 .. l : s[q] = h[at[q]]
      /\ \A i \in S \cap (1 .. e) : \E q \in 1 .. l : at[q] = i
      /\ \A p, q \in 1 .. l : p < q => at[p] < at[q]
  BY <1>1, <1>3, <1>4 DEF PlacesOf
<1>6. DOMAIN h = 1 .. e /\ DOMAIN s = 1 .. l
  BY <1>1, <1>2, <1>3, LenProperties
<1>7. \A i \in 1 .. e : h[i] \in Known
  BY <1>1, ElementOfSeq
<1>8. \A i \in 1 .. e : h[i].of = "call" => h[i].role # "tool"
  <2>1. \A m \in Known : m.of = "call" => m.role # "tool"
    BY DEF Known
  <2> QED
    BY <1>7, <2>1
<1>9. /\ S \subseteq 1 .. e
      /\ \A i \in 1 .. e : h[i].of = "call" => (i \in S <=> AllAnswered(h, i))
      /\ \A i \in 1 .. e : h[i].role = "tool" => (i \in S <=> ShownResult(h, i))
  BY <1>6, <1>8 DEF ShownPlaces
<1> HIDE DEF S, s
<1>10. \A q \in 1 .. l : at[q] \in S /\ at[q] \in 1 .. e
  BY <1>5
<1>11. ASSUME NEW p \in 1 .. l, NEW q \in 1 .. l, at[p] <= at[q]
       PROVE  p <= q
  <2>1. SUFFICES ASSUME q < p PROVE FALSE
    OBVIOUS
  <2>2. at[q] < at[p] /\ at[q] \in Nat /\ at[p] \in Nat
    BY <1>5, <1>10, <2>1
  <2> QED
    BY <1>11, <2>2
<1>12. ASSUME NEW p \in 1 .. l, NEW j \in S, j \in ToolBlock(h, at[p])
       PROVE  \E q \in ToolBlock(s, p) : at[q] = j
  <2>1. j \in at[p] + 1 .. e /\ \A i \in at[p] + 1 .. j : h[i].role = "tool"
    BY <1>1, <1>12 DEF ToolBlock
  <2>2. PICK q \in 1 .. l : at[q] = j
    BY <1>5, <1>9
  <2>3. q \in p + 1 .. l
    <3>1. at[p] \in Nat /\ at[p] < at[q] /\ at[q] \in Nat
      BY <1>10, <2>1, <2>2
    <3>2. p <= q
      BY <1>11, <3>1
    <3>3. p # q
      BY <3>1
    <3> QED
      BY <3>2, <3>3
  <2>4. ASSUME NEW r \in p + 1 .. q PROVE s[r].role = "tool"
    <3>1. r \in 1 .. l /\ p < r /\ (r < q \/ r = q)
      BY <2>3
    <3>2. at[p] < at[r] /\ (at[r] < at[q] \/ at[r] = at[q])
      BY <1>5, <3>1
    <3>3. at[r] \in Nat /\ at[p] \in Nat
      BY <1>10, <3>1
    <3>4. at[r] \in at[p] + 1 .. j
      BY <2>1, <2>2, <3>2, <3>3
    <3>5. h[at[r]].role = "tool"
      BY <2>1, <3>4
    <3>6. s[r] = h[at[r]]
      BY <1>5, <3>1
    <3> QED
      BY <3>5, <3>6
  <2>5. q \in ToolBlock(s, p)
    BY <1>3, <2>3, <2>4 DEF ToolBlock
  <2> QED
    BY <2>2, <2>5
<1>13. ASSUME NEW p \in 1 .. l, s[p].of = "call", NEW q \in ToolBlock(s, p)
       PROVE  /\ q \in p + 1 .. l
              /\ at[q] \in ToolBlock(h, at[p])
              /\ Answers(s[q], s[p])
              /\ \A i \in at[p] + 1 .. at[q] - 1 : h[i] # h[at[q]]
  <2>1. q \in p + 1 .. l /\ \A r \in p + 1 .. q : s[r].role = "tool"
    BY <1>3, <1>13 DEF ToolBlock
  <2>2. q \in 1 .. l /\ q \in p + 1 .. q
    BY <2>1
  <2>3. /\ at[q] \in 1 .. e /\ at[q] \in S /\ at[p] \in 1 .. e
        /\ s[q] = h[at[q]] /\ s[p] = h[at[p]] /\ at[p] < at[q]
    <3>1. p < q
      BY <2>1
    <3> QED
      BY <1>5, <1>10, <2>2, <3>1
  <2>4. ShownResult(h, at[q])
    BY <1>9, <2>1, <2>2, <2>3
  <2>5. PICK i \in 1 .. at[q] - 1 :
          /\ h[i].of = "call" /\ AllAnswered(h, i)
          /\ at[q] \in ToolBlock(h, i) /\ Answers(h[at[q]], h[i])
          /\ \A j \in i + 1 .. at[q] - 1 : h[j] # h[at[q]]
    BY <2>4 DEF ShownResult
  <2>6. i \in 1 .. e /\ i \in S
    <3>1. i \in 1 .. e
      BY <2>3, <2>5
    <3> QED
      BY <1>9, <2>5, <3>1
  <2>7. PICK r \in 1 .. l : at[r] = i
    BY <1>5, <2>6
  <2>8. r < q
    <3>1. at[r] <= at[q] /\ at[r] # at[q]
      BY <2>3, <2>5, <2>7
    <3>2. r <= q
      BY <1>11, <2>2, <3>1
    <3>3. r # q
      BY <3>1
    <3>4. r \in Int /\ q \in Int
      BY <2>2
    <3> QED
      BY <3>2, <3>3, <3>4
  <2>9. ~(p < r)
    <3>1. SUFFICES ASSUME p < r PROVE FALSE
      OBVIOUS
    <3>2. r \in p + 1 .. q
      BY <2>2, <2>8, <3>1
    <3>3. s[r].role = "tool" /\ s[r] = h[i]
      BY <1>5, <2>1, <2>7, <3>2
    <3> QED
      BY <1>8, <2>5, <2>6, <3>3
  <2>10. ~(r < p)
    <3>1. SUFFICES ASSUME r < p PROVE FALSE
      OBVIOUS
    <3>2. i < at[p]
      BY <1>5, <2>7, <3>1
    <3>3. at[p] \in i + 1 .. at[q]
      BY <2>3, <2>6, <3>2
    <3>4. h[at[p]].role = "tool"
      BY <2>5, <3>3 DEF ToolBlock
    <3> QED
      BY <1>8, <1>13, <2>3, <3>4
  <2>11. r = p
    BY <2>9, <2>10
  <2>12. i = at[p]
    BY <2>7, <2>11
  <2> QED
    BY <2>1, <2>3, <2>5, <2>12
<1>14. ASSUME NEW p \in 1 .. l, s[p].of = "call", NEW k \in 1 .. s[p].k
       PROVE  \E q \in ToolBlock(s, p) : Answers(s[q], s[p]) /\ s[q].k = k
  <2> DEFINE c  == at[p]
             Js == {j \in ToolBlock(h, c) : Answers(h[j], h[c]) /\ h[j].k = k}
  <2>1. c \in 1 .. e /\ c \in S /\ s[p] = h[c]
    BY <1>5, <1>10
  <2>2. AllAnswered(h, c)
    BY <1>9, <1>14, <2>1
  <2>3. Js # {}
    BY <1>14, <2>1, <2>2 DEF AllAnswered
  <2>4. \A j \in ToolBlock(h, c) :
          /\ j \in c + 1 .. e /\ j \in 1 .. e
          /\ \A i \in c + 1 .. j : h[i].role = "tool" /\ i \in ToolBlock(h, c)
    BY <1>1, <2>1 DEF ToolBlock
  <2>5. Js \in SUBSET Nat
    BY <2>4
  <2>6. PICK j \in Js : \A i \in Js : j <= i
    <3> HIDE DEF Js
    <3> QED
      BY <2>3, <2>5, Least
  <2>7. /\ j \in ToolBlock(h, c) /\ Answers(h[j], h[c]) /\ h[j].k = k
        /\ j \in c + 1 .. e /\ j \in 1 .. e /\ h[j].role = "tool"
    BY <2>4, <2>6
  <2>8. ASSUME NEW i \in c + 1 .. j - 1 PROVE h[i] # h[j]
    <3>1. SUFFICES ASSUME h[i] = h[j] PROVE FALSE
      OBVIOUS
    <3>2. i \in ToolBlock(h, c)
      BY <2>4, <2>7
    <3>3. i \in Js
      BY <2>7, <3>1, <3>2
    <3> QED
      BY <2>6, <2>7, <2>8, <3>3
  <2>9. ShownResult(h, j)
    <3>1. c \in 1 .. j - 1
      BY <2>1, <2>7
    <3> QED
      BY <1>14, <2>1, <2>2, <2>7, <2>8, <3>1 DEF ShownResult
  <2>10. j \in S
    BY <1>9, <2>7, <2>9
  <2>11. PICK q \in ToolBlock(s, p) : at[q] = j
    BY <1>12, <2>7, <2>10
  <2>12. q \in 1 .. l
    <3>1. q \in p + 1 .. l
      BY <1>3, <2>11 DEF ToolBlock
    <3> QED
      BY <3>1
  <2>13. s[q] = h[j]
    BY <1>5, <2>11, <2>12
  <2> QED
    BY <2>1, <2>7, <2>11, <2>13
<1>15. ASSUME NEW p \in 1 .. l, s[p].of = "call"
       PROVE  Cardinality(ToolBlock(s, p)) = s[p].k
  <2> DEFINE B == ToolBlock(s, p)
             K == 1 .. s[p].k
             f == [q \in B |-> s[q].k]
  <2>1. \A q \in 1 .. l : s[q] \in Known
    BY <1>2, <1>3, ElementOfSeq
  <2>2. s[p].k \in Nat
    BY <2>1 DEF Known
  <2>3. \A q \in B : q \in p + 1 .. l /\ q \in 1 .. l /\ Answers(s[q], s[p])
    BY <1>13, <1>15
  <2>4. \A q \in B : f[q] \in K
    BY <2>3 DEF Answers
  <2>5. ASSUME NEW q \in B, NEW r \in B, f[q] = f[r], q < r PROVE FALSE
    <3>1. /\ q \in 1 .. l /\ r \in 1 .. l
          /\ s[q] = h[at[q]] /\ s[r] = h[at[r]] /\ at[q] < at[r]
      BY <1>5, <2>3, <2>5
    <3>2. /\ s[q].of = "result" /\ s[r].of = "result"
          /\ s[q].n = s[r].n /\ s[q].k = s[r].k
      BY <2>3, <2>5 DEF Answers
    <3>3. s[q].role = "tool" /\ s[r].role = "tool"
      <4>1. \A u \in B : u \in p + 1 .. u
        BY <2>3
      <4> QED
        BY <4>1 DEF ToolBlock
    <3>4. s[q] = s[r]
      <4>1. s[q] \in Known /\ s[r] \in Known
        BY <2>1, <3>1
      <4>2. s[q].role = s[r].role /\ s[q].of = s[r].of
        BY <3>2, <3>3
      <4> QED
        BY <3>2, <4>1, <4>2, SameMessage
    <3>5. at[q] \in at[p] + 1 .. at[r] - 1
      <4>1. at[q] \in ToolBlock(h, at[p])
        BY <1>13, <1>15
      <4>2. at[q] >= at[p] + 1 /\ at[q] \in Int
        BY <1>10, <3>1, <4>1 DEF ToolBlock
      <4>3. at[r] \in Int /\ at[p] \in Int
        BY <1>10, <3>1
      <4> QED
        BY <3>1, <4>2, <4>3
    <3>6. h[at[q]] # h[at[r]]
      BY <1>13, <1>15, <3>5
    <3> QED
      BY <3>1, <3>4, <3>6
  <2>6. \A q, r \in B : f[q] = f[r] => q = r
    <3>1. \A q, r \in B : q < r \/ r < q \/ q = r
      BY <2>3
    <3> HIDE DEF f
    <3> QED
      BY <2>5, <3>1
  <2>7. \A k \in K : \E q \in B : f[q] = k
    BY <1>14, <1>15
  <2>8. f \in Bijection(B, K)
    <3>1. f \in [B -> K]
      BY <2>4
    <3>2. DOMAIN f = B
      OBVIOUS
    <3> HIDE DEF f, B, K
    <3> QED
      BY <2>6, <2>7, <3>1, <3>2 DEF Bijection, Injection, Surjection, IsInjective
  <2>9. ExistsBijection(B, K)
    BY <2>8 DEF ExistsBijection
  <2>10. IsFiniteSet(B)
    <3>1. IsFiniteSet(1 .. l)
      BY FS_Interval
    <3>2. B \in SUBSET (1 .. l)
      BY <2>3
    <3> QED
      BY <3>1, <3>2, FS_Subset
  <2>11. Cardinality(K) = Cardinality(B)
    <3> HIDE DEF B, K
    <3> QED
      BY <2>9, <2>10, FS_Bijection
  <2>12. Cardinality(K) = s[p].k
    BY <2>2, FS_Interval
  <2> QED
    BY <2>11, <2>12
<1>16. ASSUME NEW q \in 1 .. l, s[q].role = "tool"
       PROVE  \E p \in 1 .. q - 1 :
                s[p].of = "call" /\ q \in ToolBlock(s, p) /\ Answers(s[q], s[p])
  <2>1. at[q] \in 1 .. e /\ at[q] \in S /\ s[q] = h[at[q]]
    BY <1>5, <1>10
  <2>2. ShownResult(h, at[q])
    BY <1>9, <1>16, <2>1
  <2>3. PICK i \in 1 .. at[q] - 1 :
          /\ h[i].of = "call" /\ AllAnswered(h, i)
          /\ at[q] \in ToolBlock(h, i) /\ Answers(h[at[q]], h[i])
    BY <2>2 DEF ShownResult
  <2>4. i \in 1 .. e /\ i \in S
    <3>1. i \in 1 .. e
      BY <2>1, <2>3
    <3> QED
      BY <1>9, <2>3, <3>1
  <2>5. PICK p \in 1 .. l : at[p] = i
    BY <1>5, <2>4
  <2>6. PICK r \in ToolBlock(s, p) : at[r] = at[q]
    BY <1>12, <2>1, <2>3, <2>5
  <2>7. r \in p + 1 .. l /\ r \in 1 .. l
    <3>1. r \in p + 1 .. l
      BY <1>3, <2>6 DEF ToolBlock
    <3> QED
      BY <3>1
  <2>8. r = q
    <3>1. at[r] <= at[q] /\ at[q] <= at[r]
      BY <2>1, <2>6
    <3>2. r <= q /\ q <= r
      BY <1>11, <2>7, <3>1
    <3> QED
      BY <2>7, <3>2
  <2>9. p \in 1 .. q - 1 /\ s[p] = h[i]
    BY <1>5, <2>5, <2>7, <2>8
  <2> QED
    BY <2>1, <2>3, <2>6, <2>8, <2>9
<1>17. \A p \in 1 .. l : s[p].of = "call" => AllAnswered(s, p)
  BY <1>14 DEF AllAnswered
<1>18. Paired(s)
  BY <1>6, <1>15, <1>16, <1>17 DEF Paired
<1> QED
  BY <1>18 DEF s, S

\* Whatever the history is, what is shown of it is in order (the claim of
\* SanitizedIsPaired, for histories of any length).
THEOREM SanitizePaired ==
  ASSUME NEW h \in Seq(Known)
  PROVE  Sanitize(h) \in Seq(Known) /\ Paired(Sanitize(h))
<1> DEFINE g == FirstPass(h)
<1>1. g \in Seq(Known)
  BY FirstPassType
<1>2. Sanitize(h) = Selected(g, ShownPlaces(g))
  BY SanitizeIs
<1> HIDE DEF g
<1> QED
  BY <1>1, <1>2, SelectedPaired, SelectedPlaces

-------------------------------------------------------------------------------
(* What the emergency compression keeps is a part of the history.              *)

\* The highest of some numbers that are at most n.
LEMMA HighestIs ==
  ASSUME NEW n \in Nat, NEW S \in SUBSET (0 .. n), S # {}
  PROVE  Highest(S) \in S /\ \A j \in S : j <= Highest(S)
<1> DEFINE D == {d \in Nat : n - d \in S}
<1>1. D # {}
  <2>1. PICK x \in S : TRUE
    OBVIOUS
  <2>2. n - x \in Nat /\ n - (n - x) = x
    BY <2>1
  <2> QED
    BY <2>1, <2>2
<1>2. PICK d \in D : \A y \in D : d <= y
  <2>1. D \in SUBSET Nat
    OBVIOUS
  <2> HIDE DEF D
  <2> QED
    BY <1>1, <2>1, Least
<1>3. n - d \in S
  BY <1>2
<1>4. ASSUME NEW j \in S PROVE j <= n - d
  <2>1. n - j \in Nat /\ n - (n - j) = j /\ j \in Nat
    OBVIOUS
  <2>2. n - j \in D
    BY <2>1
  <2>3. d <= n - j
    BY <1>2, <2>2
  <2> QED
    BY <2>1, <2>3
<1> QED
  BY <1>3, <1>4 DEF Highest

\* Among finitely many numbers there is one with any smaller count before it.
LEMMA RankExists ==
  ASSUME NEW S \in SUBSET Nat, IsFiniteSet(S), NEW r \in Nat, r < Cardinality(S)
  PROVE  \E t \in S : Cardinality({u \in S : u < t}) = r
<1> DEFINE Below(t) == {u \in S : u < t}
           T == {n \in Nat : n < Cardinality(S) => \E t \in S : Cardinality(Below(t)) = n}
<1>1. Cardinality(S) \in Nat
  BY FS_CardinalityType
<1>2. 0 \in T
  <2>1. SUFFICES ASSUME 0 < Cardinality(S)
                 PROVE  \E t \in S : Cardinality(Below(t)) = 0
    OBVIOUS
  <2>2. S # {}
    BY <1>1, <2>1, FS_EmptySet
  <2>3. PICK t \in S : \A y \in S : t <= y
    BY <2>2, Least
  <2>4. Below(t) = {}
    <3>1. \A u \in S : u \in Nat /\ t \in Nat /\ t <= u
      BY <2>3
    <3>2. \A u \in S : ~(u < t)
      BY <3>1
    <3> QED
      BY <3>2
  <2> QED
    BY <2>4, FS_EmptySet
<1>3. ASSUME NEW n \in Nat, n \in T PROVE n + 1 \in T
  <2>1. SUFFICES ASSUME n + 1 < Cardinality(S)
                 PROVE  \E t \in S : Cardinality(Below(t)) = n + 1
    OBVIOUS
  <2>2. PICK t \in S : Cardinality(Below(t)) = n
    BY <1>1, <1>3, <2>1
  <2> DEFINE U == {u \in S : t < u}
             B == Below(t)
  <2>3. IsFiniteSet(B)
    BY FS_Subset
  <2>4. t \notin B /\ Cardinality(B) = n
    BY <2>2
  <2>5. Cardinality(B \cup {t}) = n + 1
    <3> HIDE DEF B
    <3> QED
      BY <2>3, <2>4, FS_AddElement
  <2>6. U # {}
    <3>1. SUFFICES ASSUME U = {} PROVE FALSE
      OBVIOUS
    <3>2. S = B \cup {t}
      <4>1. ASSUME NEW u \in S PROVE u < t \/ u = t
        <5>1. ~(t < u) /\ u \in Nat /\ t \in Nat
          BY <3>1
        <5> QED
          BY <5>1
      <4> QED
        BY <4>1
    <3> QED
      BY <2>1, <2>5, <3>2
  <2>7. PICK v \in U : \A y \in U : v <= y
    BY <2>6, Least
  <2>8. Below(v) = B \cup {t}
    <3>1. v \in S /\ v \in Nat /\ t \in Nat /\ t < v
      BY <2>7
    <3>2. ASSUME NEW u \in S PROVE u < v <=> u < t \/ u = t
      <4>1. u \in Nat /\ (t < u => v <= u)
        BY <2>7
      <4> QED
        BY <3>1, <4>1
    <3> QED
      BY <3>2
  <2> QED
    BY <2>5, <2>7, <2>8
<1>4. Nat \subseteq T
  <2> HIDE DEF T
  <2> QED
    BY <1>2, <1>3, Induction
<1> QED
  BY <1>4

\* A safe cut lies in the history, at a boundary when there is one to cut at.
LEMMA BoundaryIs ==
  ASSUME NEW h \in Seq(Known), NEW target \in Int
  PROVE  /\ SafeBoundary(h, target) \in 0 .. Len(h)
         /\ TurnBoundaries(h) # {} =>
              SafeBoundary(h, target) \in TurnBoundaries(h) \cup {0, Len(h)}
         /\ TurnBoundaries(h) # {} /\ 0 < target /\ target < Len(h) =>
              SafeBoundary(h, target) \in TurnBoundaries(h)
<1> DEFINE bounds == TurnBoundaries(h)
           back   == {t \in bounds : 0 < t /\ t <= target}
           ahead  == {t \in bounds : target < t}
<1>1. PICK n \in Nat : n = Len(h)
  BY LenProperties
<1>2. bounds \in SUBSET (0 .. n) /\ bounds \in SUBSET Nat
  BY <1>1 DEF TurnBoundaries
<1>3. CASE ~(0 < target /\ target < n)
  BY <1>1, <1>3 DEF SafeBoundary
<1>4. CASE 0 < target /\ target < n
  <2>1. CASE bounds = {}
    BY <1>1, <1>4, <2>1 DEF SafeBoundary
  <2>2. CASE bounds # {} /\ back # {}
    <3>1. back \in SUBSET (0 .. n)
      BY <1>2
    <3>2. Highest(back) \in back
      <4> HIDE DEF back
      <4> QED
        BY <1>1, <2>2, <3>1, HighestIs
    <3>3. SafeBoundary(h, target) = Highest(back)
      BY <1>1, <1>4, <2>2 DEF SafeBoundary
    <3> QED
      BY <1>1, <1>2, <3>2, <3>3
  <2>3. CASE bounds # {} /\ back = {} /\ ahead # {}
    <3>1. ahead \in SUBSET Nat
      BY <1>2
    <3>2. Lowest(ahead) \in ahead
      <4> HIDE DEF ahead
      <4> QED
        BY <2>3, <3>1, Least DEF Lowest
    <3>3. SafeBoundary(h, target) = Lowest(ahead)
      BY <1>1, <1>4, <2>3 DEF SafeBoundary
    <3> QED
      BY <1>1, <1>2, <3>2, <3>3
  <2>4. CASE bounds # {} /\ back = {} /\ ahead = {}
    <3>1. SafeBoundary(h, target) = 0
      BY <1>1, <1>4, <2>4 DEF SafeBoundary
    <3>2. PICK t \in bounds : TRUE
      BY <2>4
    <3>3. t = 0
      BY <1>2, <1>4, <2>4, <3>2
    <3> QED
      BY <1>1, <3>1, <3>2, <3>3
  <2> QED
    BY <2>1, <2>2, <2>3, <2>4
<1> QED
  BY <1>1, <1>3, <1>4

\* The cut of the compression is at a boundary when there is one, and not before the
\* first message when there are two.
LEMMA CutIs ==
  ASSUME NEW h \in Seq(Known), Len(h) > 1
  PROVE  /\ CompressionCut(h) \in 0 .. Len(h)
         /\ TurnBoundaries(h) # {} => CompressionCut(h) \in TurnBoundaries(h)
         /\ IsFiniteSet(TurnBoundaries(h))
         /\ Cardinality(TurnBoundaries(h)) >= 2 => CompressionCut(h) > 0
<1> DEFINE bounds == TurnBoundaries(h)
<1>1. PICK n \in Nat : n = Len(h)
  BY LenProperties
<1>2. bounds \in SUBSET (0 .. n) /\ bounds \in SUBSET Nat
  BY <1>1 DEF TurnBoundaries
<1>3. IsFiniteSet(bounds)
  <2>1. IsFiniteSet(0 .. n)
    BY FS_Interval
  <2> HIDE DEF bounds
  <2> QED
    BY <1>2, <2>1, FS_Subset
<1>4. Cardinality(bounds) \in Nat
  BY <1>3, FS_CardinalityType
<1>5. CASE Cardinality(bounds) >= 2
  <2>1. /\ Cardinality(bounds) \div 2 \in Nat /\ Cardinality(bounds) \div 2 >= 1
        /\ Cardinality(bounds) \div 2 < Cardinality(bounds)
    BY <1>4, <1>5
  <2>2. \E t \in bounds : Cardinality({u \in bounds : u < t}) = Cardinality(bounds) \div 2
    <3> HIDE DEF bounds
    <3> QED
      BY <1>2, <1>3, <2>1, RankExists
  <2> DEFINE cut == MiddleBoundary(bounds)
  <2>3. cut \in bounds /\ Cardinality({u \in bounds : u < cut}) = Cardinality(bounds) \div 2
    BY <2>2 DEF MiddleBoundary
  <2>4. {u \in bounds : u < cut} # {}
    <3> HIDE DEF cut, bounds
    <3>1. SUFFICES ASSUME {u \in bounds : u < cut} = {} PROVE FALSE
      OBVIOUS
    <3>2. Cardinality({u \in bounds : u < cut}) = 0
      BY <3>1, FS_EmptySet
    <3> QED
      BY <2>1, <2>3, <3>2
  <2>5. cut > 0
    BY <1>2, <2>3, <2>4
  <2>6. CompressionCut(h) = cut
    BY <1>5 DEF CompressionCut
  <2> HIDE DEF cut, bounds
  <2> QED
    BY <1>1, <1>2, <1>3, <2>3, <2>5, <2>6 DEF bounds
<1>6. CASE ~(Cardinality(bounds) >= 2)
  <2> DEFINE half == n \div 2
  <2>1. half \in Int /\ 0 < half /\ half < n
    BY <1>1
  <2>2. CompressionCut(h) = SafeBoundary(h, half)
    BY <1>1, <1>6 DEF CompressionCut
  <2> HIDE DEF half
  <2>3. /\ SafeBoundary(h, half) \in 0 .. Len(h)
        /\ bounds # {} => SafeBoundary(h, half) \in bounds
    BY <1>1, <2>1, BoundaryIs
  <2> QED
    BY <1>3, <1>6, <2>2, <2>3
<1> QED
  BY <1>5, <1>6

LEMMA CompressedType ==
  ASSUME NEW h \in Seq(Known)
  PROVE  ForceCompression(h) \in Seq(Known)
<1> DEFINE bounds == TurnBoundaries(h)
           user  == Highest(bounds) + 1
<1>1. PICK n \in Nat : n = Len(h)
  BY LenProperties
<1>2. \A i \in 1 .. n : h[i] \in Known
  BY <1>1, ElementOfSeq
<1>3. ASSUME NEW a \in Int, NEW b \in Int, a >= 1, b <= n
      PROVE  SubSeq(h, a, b) \in Seq(Known)
  <2>1. \A i \in a .. b : h[i] \in Known
    BY <1>2, <1>3
  <2> QED
    BY <2>1, SubSeqProperties
<1>4. CASE n <= 2
  <2>1. CompressionSpan(h) = <<1, n>>
    BY <1>1, <1>4 DEF CompressionSpan
  <2> QED
    BY <1>3, <2>1 DEF ForceCompression
<1>5. CASE n > 2 /\ CompressionCut(h) > 0
  <2>1. CompressionCut(h) \in Nat
    BY <1>1, <1>5, CutIs
  <2>2. CompressionSpan(h) = <<CompressionCut(h) + 1, n>>
    BY <1>1, <1>5 DEF CompressionSpan
  <2>3. CompressionCut(h) + 1 \in Int /\ CompressionCut(h) + 1 >= 1
    BY <2>1
  <2> QED
    BY <1>3, <2>2, <2>3 DEF ForceCompression
<1>6. CASE n > 2 /\ ~(CompressionCut(h) > 0) /\ bounds = {}
  <2>1. CompressionSpan(h) = <<1, 0>>
    BY <1>1, <1>6 DEF CompressionSpan
  <2> QED
    BY <1>3, <2>1 DEF ForceCompression
<1>7. CASE n > 2 /\ ~(CompressionCut(h) > 0) /\ bounds # {}
  <2>1. CompressionSpan(h) = <<user, user>>
    BY <1>1, <1>7 DEF CompressionSpan
  <2>2. bounds \in SUBSET (0 .. n) /\ bounds \subseteq 0 .. n - 1
    BY <1>1 DEF TurnBoundaries
  <2>3. Highest(bounds) \in bounds
    <3> HIDE DEF bounds
    <3> QED
      BY <1>7, <2>2, HighestIs
  <2>4. user \in 1 .. n
    BY <2>2, <2>3
  <2> HIDE DEF user
  <2> QED
    BY <1>3, <2>1, <2>4 DEF ForceCompression
<1> QED
  BY <1>4, <1>5, <1>6, <1>7

-------------------------------------------------------------------------------
(* What a provider is shown: the invariant behind CallsPaired.                 *)

\* Whenever the turn may call the provider its messages are in order; while tools
\* run, so are those before the batch, and what follows is the batch's call and the
\* results of its first tools.
ShownInv ==
  /\ messages \in Seq(Known) /\ assembled \in Seq(Known)
  /\ pc # "ended" => history \in Seq(Known)
  /\ pc \in {"loop", "call", "provider", "backoff"} => Paired(messages)
  /\ pc \in {"tools", "running"} =>
       \E base \in Seq(Known) : Paired(base) /\ messages = base \o Batch(tool - 1)

\* A step that adds no message and opens no batch.
LEMMA QuietShown ==
  ASSUME ShownInv, UNCHANGED <<messages, assembled, iteration, calls, tool>>,
         pc' # "ended" => history' \in Seq(Known),
         pc' \in {"loop", "call", "provider", "backoff"} =>
           pc \in {"loop", "call", "provider", "backoff"},
         pc' \in {"tools", "running"} => pc \in {"tools", "running"}
  PROVE  ShownInv'
<1>1. messages' \in Seq(Known) /\ assembled' \in Seq(Known)
  BY DEF ShownInv
<1>2. pc' \in {"loop", "call", "provider", "backoff"} => Paired(messages')
  BY DEF ShownInv
<1>3. ASSUME pc' \in {"tools", "running"}
      PROVE  \E base \in Seq(Known) : Paired(base) /\ messages' = base \o Batch(tool - 1)'
  <2>1. Batch(tool - 1)' = Batch(tool - 1)
    BY DEF Batch, CallMessage, ResultOf
  <2> QED
    BY <1>3, <2>1 DEF ShownInv
<1> QED
  BY <1>1, <1>2, <1>3 DEF ShownInv

\* A step after which neither a call nor a tool comes.
LEMMA ShownIsOver ==
  ASSUME ShownInv, messages' \in Seq(Known), assembled' = assembled,
         pc' # "ended" => history' \in Seq(Known),
         pc' \in {"finalize", "delivered", "abort", "ended"}
  PROVE  ShownInv'
BY DEF ShownInv

\* Messages that are appended are appended to both.
LEMMA Appended ==
  ASSUME ShownInv, pc # "ended", NEW new \in Seq(Known), AppendAll(new)
  PROVE  /\ messages' = messages \o new /\ messages' \in Seq(Known)
         /\ history' = history \o new /\ history' \in Seq(Known)
         /\ assembled' = assembled
<1>1. messages \in Seq(Known) /\ history \in Seq(Known)
  BY DEF ShownInv
<1>2. messages' = messages \o new /\ history' = history \o new /\ assembled' = assembled
  BY DEF AppendAll
<1> QED
  BY <1>1, <1>2, ConcatProperties

LEMMA SteeringKnown ==
  ASSUME NEW s \in Seq(Numbers)
  PROVE  LET new == [i \in DOMAIN s |-> SteerMessage(s[i])]
         IN  /\ new \in Seq(Known) /\ Len(new) = Len(s)
             /\ \A i \in DOMAIN new : new[i] = SteerMessage(s[i])
             /\ \A i \in DOMAIN new : new[i].of # "call" /\ new[i].role = "user"
<1> DEFINE new == [i \in DOMAIN s |-> SteerMessage(s[i])]
<1>1. PICK n \in Nat : n = Len(s) /\ DOMAIN s = 1 .. n
  BY LenProperties
<1>2. \A i \in 1 .. n : s[i] \in Nat
  <2>1. \A i \in 1 .. n : s[i] \in Numbers
    BY <1>1, ElementOfSeq
  <2> QED
    BY <2>1 DEF Numbers
<1>3. \A i \in 1 .. n :
        /\ SteerMessage(s[i]) \in Known
        /\ SteerMessage(s[i]).of # "call" /\ SteerMessage(s[i]).role = "user"
  BY <1>2 DEF SteerMessage, Message, Known
<1>4. new \in [1 .. n -> Known] /\ \A i \in 1 .. n : new[i] = SteerMessage(s[i])
  BY <1>1, <1>3
<1>5. DOMAIN new = 1 .. n
  BY <1>1
<1> HIDE DEF new
<1>6. new \in Seq(Known) /\ Len(new) = n
  BY <1>4, <1>5
<1>7. \A i \in DOMAIN new : new[i].of # "call" /\ new[i].role = "user"
  BY <1>3, <1>4, <1>5
<1> QED
  BY <1>1, <1>4, <1>5, <1>6, <1>7 DEF new

\* The results of the next n tools.
LEMMA BatchGrows ==
  ASSUME NEW base \in Seq(Known), NEW done \in Nat, NEW n \in Nat,
         iteration \in Nat, calls \in Nat
  PROVE  LET new == [i \in 1 .. n |-> ResultOf(done + i)]
         IN  /\ new \in Seq(Known)
             /\ (base \o Batch(done)) \o new = base \o Batch(done + n)
<1> DEFINE new == [i \in 1 .. n |-> ResultOf(done + i)]
<1>1. \A i \in 1 .. n : ResultOf(done + i) \in Known
  <2>1. \A k \in Nat : ResultOf(k) \in Known
    BY DEF ResultOf, Message, Known
  <2>2. \A i \in 1 .. n : done + i \in Nat
    OBVIOUS
  <2> QED
    BY <2>1, <2>2
<1>2. /\ new \in [1 .. n -> Known] /\ DOMAIN new = 1 .. n
      /\ \A i \in 1 .. n : new[i] = ResultOf(done + i)
  BY <1>1
<1> HIDE DEF new
<1>3. new \in Seq(Known) /\ Len(new) = n
  BY <1>2
<1> DEFINE b == Batch(done)
           c == Batch(done + n)
           d == b \o new
<1>4. /\ b \in Seq(Known) /\ Len(b) = done + 1
      /\ b[1] = CallMessage(calls) /\ \A j \in 2 .. done + 1 : b[j] = ResultOf(j - 1)
  BY BatchType
<1>5. /\ c \in Seq(Known) /\ Len(c) = done + n + 1
      /\ c[1] = CallMessage(calls) /\ \A j \in 2 .. done + n + 1 : c[j] = ResultOf(j - 1)
  <2>1. done + n \in Nat
    OBVIOUS
  <2> QED
    BY <2>1, BatchType
<1> HIDE DEF b, c
<1>6. /\ d \in Seq(Known) /\ Len(d) = done + 1 + n
      /\ \A j \in 1 .. done + 1 + n :
           d[j] = IF j <= done + 1 THEN b[j] ELSE new[j - (done + 1)]
  <2>1. /\ d \in Seq(Known) /\ Len(d) = Len(b) + Len(new)
        /\ \A j \in 1 .. Len(b) + Len(new) :
             d[j] = IF j <= Len(b) THEN b[j] ELSE new[j - Len(b)]
    BY <1>3, <1>4, ConcatProperties
  <2>2. Len(b) = done + 1 /\ Len(new) = n
    BY <1>3, <1>4
  <2> QED
    BY <2>1, <2>2
<1> HIDE DEF d
<1>7. ASSUME NEW j \in 1 .. done + 1 + n PROVE d[j] = c[j]
  <2>1. CASE j = 1
    <3>1. d[1] = b[1]
      BY <1>6, <2>1
    <3> QED
      BY <1>4, <1>5, <2>1, <3>1
  <2>2. CASE j \in 2 .. done + 1
    <3>1. d[j] = b[j] /\ j \in 2 .. done + n + 1
      BY <1>6, <2>2
    <3> QED
      BY <1>4, <1>5, <2>2, <3>1
  <2>3. CASE j > done + 1
    <3>1. d[j] = new[j - (done + 1)] /\ j - (done + 1) \in 1 .. n
      BY <1>6, <2>3
    <3>2. done + (j - (done + 1)) = j - 1 /\ j \in 2 .. done + n + 1
      BY <2>3
    <3> QED
      BY <1>2, <1>5, <3>1, <3>2
  <2> QED
    BY <2>1, <2>2, <2>3
<1>8. d = c
  <2>1. Len(d) = Len(c)
    BY <1>5, <1>6
  <2>2. \A j \in 1 .. Len(d) : d[j] = c[j]
    BY <1>6, <1>7
  <2> QED
    BY <1>5, <1>6, <2>1, <2>2, SeqEqual
<1>9. (base \o b) \o new = base \o d
  BY <1>3, <1>4, ConcatAssociative DEF d
<1> QED
  BY <1>3, <1>8, <1>9 DEF new, b, c

\* The history as it is assembled, and compressed.
LEMMA AssembledType ==
  ASSUME NEW h \in Seq(Known)
  PROVE  /\ Assembled(h) \in Seq(Known) /\ Compacted(h) \in Seq(Known)
         /\ Sanitize(Assembled(h)) \in Seq(Known) /\ Paired(Sanitize(Assembled(h)))
<1>1. Assembled(h) \in Seq(Known)
  BY EmptySeq DEF Assembled
<1>2. Compacted(h) \in Seq(Known)
  BY CompressedType DEF Compacted
<1> QED
  BY <1>1, <1>2, SanitizePaired

LEMMA OldHistoryType == OldHistory \in Seq(Known)
<1>1. OldHistory \in Seq([role : {"user", "assistant", "tool"},
                          of : {"user", "call", "result", "answer"}, n : {0}, k : Nat])
  BY TurnLoopAssumption
<1>2. PICK e \in Nat : e = Len(OldHistory) /\ DOMAIN OldHistory = 1 .. e
  BY <1>1, LenProperties
<1>3. ASSUME NEW i \in 1 .. e PROVE OldHistory[i] \in Known
  <2>1. OldHistory[i] \in [role : {"user", "assistant", "tool"},
                           of : {"user", "call", "result", "answer"}, n : {0}, k : Nat]
    BY <1>1, <1>2, ElementOfSeq
  <2>2. OldHistory[i].of = "call" => OldHistory[i].role = "assistant"
    BY <1>2, TurnLoopAssumption
  <2> QED
    BY <2>1, <2>2 DEF Known
<1>4. OldHistory \in [1 .. e -> Known]
  <2>1. OldHistory = [i \in 1 .. e |-> OldHistory[i]]
    BY <1>1, <1>2
  <2> QED
    BY <1>3, <2>1
<1> QED
  BY <1>4

LEMMA MessageTypes ==
  ASSUME iteration \in Nat
  PROVE  /\ <<UserMessage>> \in Seq(Known) /\ Paired(<<UserMessage>>)
         /\ <<UserMessage>>[1].role = "user"
         /\ <<FinalMessage>> \in Seq(Known)
         /\ \A k \in Nat : <<CallMessage(k)>> \in Seq(Known)
<1>1. UserMessage \in Known /\ UserMessage.role = "user" /\ UserMessage.of = "user"
  BY DEF UserMessage, Message, Known
<1>2. FinalMessage \in Known
  BY DEF FinalMessage, Message, Known
<1>3. \A k \in Nat : CallMessage(k) \in Known
  BY DEF CallMessage, Message, Known
<1>4. Paired(<<UserMessage>>)
  <2>1. \A i \in DOMAIN <<UserMessage>> : <<UserMessage>>[i] = UserMessage
    OBVIOUS
  <2> QED
    BY <1>1, <2>1, PairedPlain
<1> QED
  BY <1>1, <1>2, <1>3, <1>4

LEMMA ShownInit == Init => ShownInv
BY OldHistoryType, EmptySeq DEF Init, ShownInv

LEMMA ShownOutside ==
  ASSUME IInv, ShownInv, Outside
  PROVE  ShownInv'
<1>1. pc # "ended" /\ pc' = pc
  BY DEF Outside, Push, InterruptGraceful, InterruptHard, HardAbort
<1>2. UNCHANGED <<messages, assembled, iteration, calls, tool>>
  BY DEF Outside, Push, InterruptGraceful, InterruptHard, HardAbort, store, batch
<1>3. history' \in Seq(Known)
  <2>1. history \in Seq(Known) /\ OldHistory \in Seq(Known)
    BY <1>1, OldHistoryType DEF ShownInv
  <2>2. CASE HardAbort /\ Len(OldHistory) < Len(history)
    <3>1. history' = SubSeq(history, 1, Len(OldHistory))
      BY <2>2 DEF HardAbort
    <3>2. Len(OldHistory) \in Nat /\ Len(history) \in Nat
      BY <2>1, LenProperties
    <3>3. \A i \in 1 .. Len(OldHistory) : i \in 1 .. Len(history)
      BY <2>2, <3>2
    <3>4. \A i \in 1 .. Len(OldHistory) : history[i] \in Known
      BY <2>1, <3>3, ElementOfSeq
    <3> QED
      BY <3>1, <3>2, <3>4, SubSeqProperties
  <2>3. CASE ~(HardAbort /\ Len(OldHistory) < Len(history))
    <3>1. history' = history
      BY <2>3 DEF Outside, Push, InterruptGraceful, InterruptHard, HardAbort, store
    <3> QED
      BY <2>1, <3>1
  <2> QED
    BY <2>2, <2>3
<1> QED
  BY <1>1, <1>2, <1>3, QuietShown

LEMMA ShownLoop ==
  ASSUME IInv, ShownInv, LoopStep
  PROVE  ShownInv'
<1>1. ASSUME NEW over \in BOOLEAN, SetupTurn(over) PROVE ShownInv'
  <2> DEFINE base == IF over THEN Compacted(history) ELSE history
             root == IF Continued THEN <<>> ELSE <<UserMessage>>
  <2>1. /\ pc = "setup" /\ pc' = "loop"
        /\ assembled' = Assembled(base) /\ history' = base \o root
        /\ messages' = Sanitize(Assembled(base)) \o root
    BY <1>1 DEF SetupTurn, Step
  <2>2. history \in Seq(Known)
    BY <2>1 DEF ShownInv
  <2>3. base \in Seq(Known)
    BY <2>2, AssembledType
  <2>4. root \in Seq(Known) /\ Paired(root) /\ (root # <<>> => root[1].role # "tool")
    <3>1. CASE Continued
      BY <3>1, EmptySeq, PairedPlain
    <3>2. CASE ~Continued
      BY <3>2, MessageTypes DEF IInv, TypeOK
    <3> QED
      BY <3>1, <3>2
  <2> HIDE DEF base, root
  <2>5. /\ Assembled(base) \in Seq(Known)
        /\ Sanitize(Assembled(base)) \in Seq(Known) /\ Paired(Sanitize(Assembled(base)))
    BY <2>3, AssembledType
  <2>6. messages' \in Seq(Known) /\ history' \in Seq(Known)
    BY <2>1, <2>3, <2>4, <2>5, ConcatProperties
  <2>7. Paired(messages')
    BY <2>1, <2>4, <2>5, PairedJoin
  <2> QED
    BY <2>1, <2>5, <2>6, <2>7 DEF ShownInv
<1>2. CASE LeaveLoop
  <2>1. pc = "loop" /\ pc' \in {"abort", "finalize"}
    BY <1>2 DEF LeaveLoop, Step
  <2> QED
    BY <1>2, <2>1, QuietShown DEF LeaveLoop, store, batch, ShownInv
<1>3. CASE BeginIteration
  <2> DEFINE first  == iteration = 0
             polls  == first /\ ~Continued
             inject == pending \o (IF ~first THEN execPending
                                   ELSE IF polls THEN QueueHead ELSE <<>>)
             new    == [i \in DOMAIN inject |-> SteerMessage(inject[i])]
  <2>1. pc = "loop" /\ pc' = "call" /\ AppendAll(new)
    BY <1>3 DEF BeginIteration, Step
  <2>2. inject \in Seq(Numbers)
    <3>1. pending \in Seq(Numbers) /\ execPending \in Seq(Numbers) /\ queue \in Seq(Numbers)
      BY DEF IInv, TypeOK
    <3>2. QueueHead \in Seq(Numbers) /\ <<>> \in Seq(Numbers)
      BY <3>1, QueueSplit, EmptySeq
    <3> QED
      BY <3>1, <3>2, ConcatProperties
  <2> HIDE DEF inject
  <2>3. /\ new \in Seq(Known)
        /\ \A i \in DOMAIN new : new[i].of # "call" /\ new[i].role = "user"
    BY <2>2, SteeringKnown
  <2> HIDE DEF new
  <2>4. Paired(new) /\ (new # <<>> => new[1].role # "tool")
    <3>1. Paired(new)
      BY <2>3, PairedPlain
    <3>2. new # <<>> => 1 \in DOMAIN new
      BY <2>3, EmptySeq, LenProperties
    <3> QED
      BY <2>3, <3>1, <3>2
  <2>5. /\ messages' = messages \o new /\ messages' \in Seq(Known)
        /\ history' \in Seq(Known) /\ assembled' = assembled
    BY <2>1, <2>3, Appended
  <2>6. Paired(messages')
    BY <2>1, <2>3, <2>4, <2>5, PairedJoin DEF ShownInv
  <2> QED
    BY <2>1, <2>5, <2>6 DEF ShownInv
<1>4. CASE AbortAtLoop
  <2>1. pc = "loop" /\ pc' = "abort"
    BY <1>4 DEF AbortAtLoop, Step
  <2> QED
    BY <1>4, <2>1, QuietShown DEF AbortAtLoop, store, batch, ShownInv
<1>5. CASE AbortTurn
  <2>1. pc' = "ended" /\ UNCHANGED <<messages, assembled>>
    BY <1>5 DEF AbortTurn, End
  <2> QED
    BY <2>1, ShownIsOver DEF ShownInv
<1>6. CASE Finalize
  <2>1. pc = "finalize" /\ pc' = "ended" /\ AppendAll(<<FinalMessage>>)
    BY <1>6 DEF Finalize, End
  <2>2. <<FinalMessage>> \in Seq(Known)
    BY MessageTypes DEF IInv, TypeOK
  <2>3. messages' \in Seq(Known) /\ assembled' = assembled
    BY <2>1, <2>2, Appended
  <2> QED
    BY <2>1, <2>3, ShownIsOver
<1>7. CASE FinalizeHandled
  <2>1. pc = "delivered" /\ pc' \in {"abort", "ended"}
    BY <1>7 DEF FinalizeHandled, Step, End
  <2> QED
    BY <1>7, <2>1, QuietShown DEF FinalizeHandled, store, batch, ShownInv
<1> QED
  BY <1>1, <1>2, <1>3, <1>4, <1>5, <1>6, <1>7 DEF LoopStep

LEMMA ShownCall ==
  ASSUME IInv, ShownInv, CallStep
  PROVE  ShownInv'
<1>1. ASSUME NEW hook, StartCall(hook) PROVE ShownInv'
  <2>1. pc = "call" /\ pc' \in {"provider", "abort", "ended"}
    BY <1>1 DEF StartCall, Step, End
  <2> QED
    BY <1>1, <2>1, QuietShown DEF StartCall, store, batch, ShownInv
<1>2. CASE ProviderCanceled \/ WaitAfterTimeout \/ ProviderFails
  <2>1. pc = "provider" /\ pc' \in {"abort", "backoff", "ended"}
    BY <1>2 DEF ProviderCanceled, WaitAfterTimeout, ProviderFails, Step, End
  <2> QED
    BY <1>2, <2>1, QuietShown
    DEF ProviderCanceled, WaitAfterTimeout, ProviderFails, store, batch, ShownInv
<1>3. CASE RetryWithoutMedia
  <2>1. pc = "provider" /\ pc' = pc /\ history' = assembled
    BY <1>3 DEF RetryWithoutMedia
  <2> QED
    BY <1>3, <2>1, QuietShown DEF RetryWithoutMedia, batch, ShownInv
<1>4. CASE BackoffOver \/ BackoffAborted
  <2>1. pc = "backoff" /\ pc' \in {"provider", "finalize"}
    BY <1>4 DEF BackoffOver, BackoffAborted, Step
  <2> QED
    BY <1>4, <2>1, QuietShown DEF BackoffOver, BackoffAborted, store, batch, ShownInv
<1>5. CASE RetryCompressed
  <2> DEFINE kept == Compacted(history)
  <2>1. /\ pc = "provider" /\ pc' = pc
        /\ history' = kept /\ assembled' = Assembled(kept)
        /\ messages' = Sanitize(Assembled(kept))
    BY <1>5 DEF RetryCompressed
  <2>2. history \in Seq(Known)
    BY <2>1 DEF ShownInv
  <2>3. kept \in Seq(Known)
    BY <2>2, AssembledType
  <2> HIDE DEF kept
  <2> QED
    BY <2>1, <2>3, AssembledType DEF ShownInv
<1>6. ASSUME NEW hook \in HookActions, StopAfterCall(hook) PROVE ShownInv'
  <2>1. pc = "provider" /\ pc' \in {"abort", "ended"}
    BY <1>6 DEF StopAfterCall, Step, End
  <2> QED
    BY <1>6, <2>1, QuietShown DEF StopAfterCall, store, batch, ShownInv
<1>7. CASE AnswersDirectly
  <2>1. pc = "provider" /\ pc' \in {"loop", "finalize"}
    BY <1>7 DEF AnswersDirectly, Step
  <2> QED
    BY <1>7, <2>1, QuietShown DEF AnswersDirectly, store, batch, ShownInv
<1>8. ASSUME NEW k \in 1 .. MaxCalls, AsksForTools(k) PROVE ShownInv'
  <2>1. /\ pc = "provider" /\ pc' = "tools" /\ AppendAll(<<CallMessage(k)>>)
        /\ calls' = k /\ tool' = 1 /\ iteration' = iteration
    BY <1>8 DEF AsksForTools, Step
  <2>2. <<CallMessage(k)>> \in Seq(Known)
    BY MessageTypes DEF IInv, TypeOK
  <2>3. /\ messages' = messages \o <<CallMessage(k)>> /\ messages' \in Seq(Known)
        /\ history' \in Seq(Known) /\ assembled' = assembled
    BY <2>1, <2>2, Appended
  <2>4. Batch(tool - 1)' = <<CallMessage(k)>>
    <3>1. (tool - 1)' = 0
      BY <2>1
    <3>2. CallMessage(calls)' = CallMessage(k)
      BY <2>1 DEF CallMessage
    <3>3. Batch(tool - 1)' = [j \in 1 .. 1 |-> CallMessage(k)]
      BY <3>1, <3>2 DEF Batch
    <3> QED
      BY <3>3
  <2>5. messages \in Seq(Known) /\ Paired(messages)
    BY <2>1 DEF ShownInv
  <2> QED
    BY <2>1, <2>3, <2>4, <2>5 DEF ShownInv
<1> QED
  BY <1>1, <1>2, <1>3, <1>4, <1>5, <1>6, <1>7, <1>8 DEF CallStep

\* The next results of the batch.
LEMMA ShownResults ==
  ASSUME IInv, ShownInv, pc \in {"tools", "running"}, pc' = "tools",
         NEW n \in Nat, tool' = tool + n,
         UNCHANGED <<iteration, calls>>,
         AppendAll([i \in 1 .. n |-> ResultOf(tool + i - 1)])
  PROVE  ShownInv'
<1> DEFINE new == [i \in 1 .. n |-> ResultOf(tool + i - 1)]
<1>1. PICK done \in Nat : done = tool - 1
  <2>1. tool - 1 \in Nat
    BY DEF IInv, TypeOK
  <2> QED
    BY <2>1
<1>2. tool = done + 1 /\ tool' - 1 = done + n /\ tool \in Nat
  BY <1>1 DEF IInv, TypeOK
<1>3. iteration \in Nat /\ calls \in Nat
  BY TurnLoopAssumption DEF IInv, TypeOK
<1>4. PICK base \in Seq(Known) : Paired(base) /\ messages = base \o Batch(done)
  BY <1>1 DEF ShownInv
<1>5. new = [i \in 1 .. n |-> ResultOf(done + i)]
  <2>1. \A i \in 1 .. n : tool + i - 1 = done + i
    BY <1>2
  <2> QED
    BY <2>1
<1>6. new \in Seq(Known) /\ (base \o Batch(done)) \o new = base \o Batch(done + n)
  <2> DEFINE next == [i \in 1 .. n |-> ResultOf(done + i)]
  <2>1. next \in Seq(Known) /\ (base \o Batch(done)) \o next = base \o Batch(done + n)
    BY <1>3, BatchGrows
  <2> HIDE DEF next
  <2>2. new = next
    BY <1>5 DEF next
  <2> QED
    BY <2>1, <2>2
<1> HIDE DEF new
<1>7. /\ messages' = messages \o new /\ messages' \in Seq(Known)
      /\ history' \in Seq(Known) /\ assembled' = assembled
  <2>1. pc # "ended" /\ AppendAll(new)
    BY DEF new
  <2> QED
    BY <1>6, <2>1, Appended
<1>8. messages' = base \o Batch(done + n)
  BY <1>4, <1>6, <1>7
<1>9. Batch(tool - 1)' = Batch(done + n)
  BY <1>2 DEF Batch, CallMessage, ResultOf
<1> QED
  BY <1>4, <1>7, <1>8, <1>9 DEF ShownInv

LEMMA ShownTool ==
  ASSUME IInv, ShownInv, ToolStep
  PROVE  ShownInv'
<1>1. CASE StopAtTool \/ ToolAborted
  <2>1. pc \in {"tools", "running"} /\ pc' = "abort"
    BY <1>1 DEF StopAtTool, ToolAborted, Step
  <2> QED
    BY <1>1, <2>1, QuietShown DEF StopAtTool, ToolAborted, store, batch, ShownInv
<1>2. CASE DenyTool
  <2>1. /\ pc = "tools" /\ pc' = pc /\ tool' = tool + 1
        /\ AppendAll(<<ResultOf(tool)>>) /\ UNCHANGED <<iteration, calls>>
    BY <1>2 DEF DenyTool
  <2>2. <<ResultOf(tool)>> = [i \in 1 .. 1 |-> ResultOf(tool + i - 1)]
    <3>1. tool + 1 - 1 = tool
      BY DEF IInv, TypeOK
    <3>2. \A i \in 1 .. 1 : ResultOf(tool + i - 1) = ResultOf(tool)
      BY <3>1
    <3>3. [i \in 1 .. 1 |-> ResultOf(tool + i - 1)] = [i \in 1 .. 1 |-> ResultOf(tool)]
      BY <3>2
    <3> QED
      BY <3>3
  <2>3. AppendAll([i \in 1 .. 1 |-> ResultOf(tool + i - 1)])
    BY <2>1, <2>2
  <2> QED
    BY <2>1, <2>3, ShownResults
<1>3. ASSUME NEW answered \in BOOLEAN, pc \in {"tools", "running"}, tool <= calls,
             Deliver(answered)
      PROVE  ShownInv'
  <2> DEFINE polled == execPending \o QueueHead
             last   == IF SkipsRest(polled) THEN calls ELSE tool
             n      == last - tool + 1
  <2>1. /\ pc' = "tools" /\ tool' = last + 1 /\ UNCHANGED <<iteration, calls>>
        /\ AppendAll([i \in 1 .. n |-> ResultOf(tool + i - 1)])
    BY <1>3 DEF Deliver, Step
  <2>2. last \in tool .. calls
    BY <1>3 DEF IInv, TypeOK
  <2> HIDE DEF last
  <2>3. n \in Nat /\ tool' = tool + n
    BY <2>1, <2>2 DEF IInv, TypeOK
  <2> HIDE DEF n
  <2> QED
    BY <1>3, <2>1, <2>3, ShownResults
<1>4. ASSUME NEW answered \in BOOLEAN, RespondForTool(answered) PROVE ShownInv'
  BY <1>3, <1>4 DEF RespondForTool
<1>5. ASSUME NEW hook \in HookActions, StopByToolHook(hook) PROVE ShownInv'
  <2>1. pc \in {"tools", "running"} /\ pc' \in {"abort", "ended"}
    BY <1>5 DEF StopByToolHook, Step, End
  <2> QED
    BY <1>5, <2>1, QuietShown DEF StopByToolHook, store, batch, ShownInv
<1>6. CASE StartTool
  <2>1. pc = "tools" /\ pc' = "running"
    BY <1>6 DEF StartTool, Step
  <2> QED
    BY <1>6, <2>1, QuietShown DEF StartTool, store, batch, ShownInv
<1>7. ASSUME NEW answered \in BOOLEAN, ToolReturns(answered) PROVE ShownInv'
  BY <1>3, <1>7 DEF ToolReturns, IInv
<1>8. CASE ToolsDone
  <2>1. /\ pc = "tools" /\ tool > calls /\ calls' = calls
        /\ \/ pc' = "delivered" /\ AppendAll(<<FinalMessage>>)
           \/ pc' = "loop" /\ UNCHANGED <<messages, store>>
    BY <1>8 DEF ToolsDone, Step
  <2>2. CASE pc' = "delivered" /\ AppendAll(<<FinalMessage>>)
    <3>1. <<FinalMessage>> \in Seq(Known)
      BY MessageTypes DEF IInv, TypeOK
    <3>2. messages' \in Seq(Known) /\ history' \in Seq(Known) /\ assembled' = assembled
      BY <2>1, <2>2, <3>1, Appended
    <3> QED
      BY <2>2, <3>2, ShownIsOver
  <2>3. CASE pc' = "loop" /\ UNCHANGED <<messages, store>>
    <3>1. iteration \in Nat /\ calls \in Nat /\ tool - 1 = calls
      BY <2>1, TurnLoopAssumption DEF IInv, TypeOK
    <3>2. PICK base \in Seq(Known) : Paired(base) /\ messages = base \o Batch(calls)
      BY <2>1, <3>1 DEF ShownInv
    <3>3. /\ Batch(calls) \in Seq(Known) /\ Paired(Batch(calls))
          /\ Batch(calls)[1].role # "tool"
      <4>1. Batch(calls) \in Seq(Known) /\ Batch(calls)[1] = CallMessage(calls)
        BY <3>1, BatchType
      <4>2. CallMessage(calls).role = "assistant"
        BY DEF CallMessage, Message
      <4> QED
        BY <3>1, <4>1, <4>2, PairedBatch
    <3>4. Paired(messages)
      BY <3>2, <3>3, PairedJoin
    <3> QED
      BY <2>1, <2>3, <3>4 DEF ShownInv, store
  <2> QED
    BY <2>1, <2>2, <2>3
<1> QED
  BY <1>1, <1>2, <1>4, <1>5, <1>6, <1>7, <1>8 DEF ToolStep

LEMMA ShownStep ==
  ASSUME IInv, ShownInv, [Next]_vars
  PROVE  ShownInv'
<1>1. CASE UNCHANGED vars
  BY <1>1, QuietShown DEF vars, store, batch, ShownInv
<1> QED
  BY <1>1, ShownLoop, ShownCall, ShownTool, ShownOutside DEF Next, TurnStep

\* Every call that a provider is shown is followed by exactly its results, for
\* every history the turn begins with and whatever is retried, compressed,
\* denied, skipped, interrupted or rolled back.
THEOREM ShownIsPaired == Spec => []CallsPaired
<1>1. IInv /\ ShownInv /\ [Next]_vars => ShownInv'
  BY ShownStep
<1>2. ShownInv => CallsPaired
  BY DEF ShownInv, CallsPaired
<1> QED
  BY <1>1, <1>2, ShownInit, Invariance, PTL DEF Spec

-------------------------------------------------------------------------------
(* Before the first iteration nothing is pending but the message of Continue,  *)
(* which both lists of pending messages hold.                                  *)

Begun ==
  iteration = 0 =>
    /\ pc \in {"setup", "loop", "abort", "finalize", "ended"}
    /\ execPending = pending
    /\ ~Continued => pending = <<>>

LEMMA BegunStep ==
  ASSUME IInv, Begun, [Next]_vars
  PROVE  Begun'
<1>1. CASE BeginIteration
  <2>1. iteration' = iteration + 1 /\ iteration \in Nat
    BY <1>1 DEF BeginIteration, IInv, TypeOK
  <2> QED
    BY <2>1 DEF Begun
<1>2. CASE Outside \/ UNCHANGED vars
  BY <1>2 DEF Begun, vars, steering, Outside, Push, InterruptGraceful, InterruptHard,
              HardAbort
<1>3. CASE LoopStep /\ ~BeginIteration
  BY <1>3 DEF Begun, LoopStep, SetupTurn, LeaveLoop, AbortAtLoop, AbortTurn, Finalize,
              FinalizeHandled, Step, End, steering
<1>4. CASE CallStep
  <2>1. pc \in {"call", "provider", "backoff"} /\ iteration' = iteration
    BY <1>4 DEF CallStep, StartCall, ProviderCanceled, RetryWithoutMedia, WaitAfterTimeout,
                BackoffOver, BackoffAborted, RetryCompressed, ProviderFails, StopAfterCall,
                AnswersDirectly, AsksForTools
  <2> QED
    BY <2>1 DEF Begun
<1>5. CASE ToolStep
  <2>1. pc \in {"tools", "running"} /\ iteration' = iteration
    BY <1>5 DEF ToolStep, StopAtTool, DenyTool, RespondForTool, Deliver, StopByToolHook,
                StartTool, ToolReturns, ToolAborted, ToolsDone
  <2> QED
    BY <2>1 DEF Begun
<1> QED
  BY <1>1, <1>2, <1>3, <1>4, <1>5 DEF Next, TurnStep

\* The invariants that need no condition, in every state of a turn.
LEMMA Basics == Spec => [](IInv /\ ShownInv /\ Begun)
<1>1. Init => Begun
  BY DEF Init, Begun
<1>2. IInv /\ Begun /\ [Next]_vars => Begun'
  BY BegunStep
<1>3. IInv /\ ShownInv /\ [Next]_vars => ShownInv'
  BY ShownStep
<1> QED
  BY <1>1, <1>2, <1>3, ShownInit, Invariance, PTL DEF Spec

-------------------------------------------------------------------------------
(* No steering message is lost.                                                *)

LEMMA InRangeConcat ==
  ASSUME NEW A, NEW s \in Seq(A), NEW t \in Seq(A), NEW x,
         InRange(x, s) \/ InRange(x, t)
  PROVE  InRange(x, s \o t)
<1>1. PICK n \in Nat : n = Len(s) /\ DOMAIN s = 1 .. n
  BY LenProperties
<1>2. PICK l \in Nat : l = Len(t) /\ DOMAIN t = 1 .. l
  BY LenProperties
<1>3. /\ s \o t \in Seq(A) /\ Len(s \o t) = n + l
      /\ \A i \in 1 .. n + l : (s \o t)[i] = IF i <= n THEN s[i] ELSE t[i - n]
  BY <1>1, <1>2, ConcatProperties
<1>4. DOMAIN (s \o t) = 1 .. n + l
  BY <1>3, LenProperties
<1>5. CASE InRange(x, s)
  <2>1. PICK i \in 1 .. n : s[i] = x
    BY <1>1, <1>5 DEF InRange
  <2>2. i \in 1 .. n + l /\ i <= n
    OBVIOUS
  <2>3. (s \o t)[i] = x
    BY <1>3, <2>1, <2>2
  <2> QED
    BY <1>4, <2>2, <2>3 DEF InRange
<1>6. CASE InRange(x, t)
  <2>1. PICK i \in 1 .. l : t[i] = x
    BY <1>2, <1>6 DEF InRange
  <2>2. n + i \in 1 .. n + l /\ ~(n + i <= n) /\ (n + i) - n = i
    OBVIOUS
  <2>3. (s \o t)[n + i] = x
    BY <1>3, <2>1, <2>2
  <2> QED
    BY <1>4, <2>2, <2>3 DEF InRange
<1> QED
  BY <1>5, <1>6

\* What is in the queue is taken or left.
LEMMA TakenOrLeft ==
  ASSUME queue \in Seq(Numbers), NEW s, InRange(s, queue)
  PROVE  InRange(s, QueueHead) \/ InRange(s, QueueRest)
<1>1. CASE SteeringAll \/ queue = <<>>
  BY <1>1 DEF QueueHead
<1>2. CASE ~(SteeringAll \/ queue = <<>>)
  <2>1. QueueHead = <<Head(queue)>> /\ QueueRest = Tail(queue)
    BY <1>2 DEF QueueHead, QueueRest
  <2>2. PICK n \in Nat : n = Len(queue) /\ DOMAIN queue = 1 .. n
    BY LenProperties
  <2>3. PICK i \in 1 .. n : queue[i] = s
    BY <2>2 DEF InRange
  <2>4. /\ Head(queue) = queue[1] /\ Tail(queue) \in Seq(Numbers)
        /\ Len(Tail(queue)) = n - 1
        /\ \A j \in 1 .. n - 1 : Tail(queue)[j] = queue[j + 1]
    BY <1>2, <2>2, HeadTailProperties
  <2>5. CASE i = 1
    BY <2>1, <2>3, <2>4, <2>5 DEF InRange
  <2>6. CASE i # 1
    <3>1. i - 1 \in 1 .. n - 1 /\ (i - 1) + 1 = i
      BY <2>6
    <3>2. Tail(queue)[i - 1] = s
      BY <2>3, <2>4, <3>1
    <3>3. DOMAIN Tail(queue) = 1 .. n - 1
      BY <2>4, LenProperties
    <3> QED
      BY <2>1, <3>1, <3>2, <3>3 DEF InRange
  <2> QED
    BY <2>5, <2>6
<1> QED
  BY <1>1, <1>2

\* Message s is waiting or stored.
Holds(s) == InRange(s, queue) \/ InRange(s, execPending) \/ InRange(SteerMessage(s), history)

KeptInv ==
  /\ SteeringKept
  /\ pc = "setup" => history = OldHistory

\* A step after which every message that was held is held.
LEMMA HeldStays ==
  ASSUME IInv, KeptInv, pc # "ended", pc' # "setup", pushed' = pushed,
         status' \in {"running", "completed"} =>
           \A s \in 1 .. pushed : Holds(s) => Holds(s)'
  PROVE  KeptInv'
<1>1. status = "running"
  BY DEF IInv, TypeOK
<1>2. \A s \in 1 .. pushed : Holds(s)
  BY <1>1 DEF KeptInv, SteeringKept, Holds
<1>3. SteeringKept'
  BY <1>2 DEF SteeringKept, Holds
<1> QED
  BY <1>3 DEF KeptInv

LEMMA QuietKeeps ==
  ASSUME IInv, KeptInv, pc # "ended", pc' # "setup", UNCHANGED <<history, steering>>
  PROVE  KeptInv'
<1>1. \A s : Holds(s) => Holds(s)'
  BY DEF Holds, steering, SteerMessage
<1> QED
  BY <1>1, HeldStays DEF steering

\* A step that stores messages, and may poll the queue.
LEMMA StoreKeeps ==
  ASSUME IInv, ShownInv, KeptInv, pc # "ended", pc' # "setup", pushed' = pushed,
         NEW new \in Seq(Known), history' = history \o new,
         \/ UNCHANGED <<execPending, queue>>
         \/ execPending' = execPending \o QueueHead /\ queue' = QueueRest
  PROVE  KeptInv'
<1>1. /\ history \in Seq(Known) /\ execPending \in Seq(Numbers) /\ queue \in Seq(Numbers)
  BY DEF ShownInv, IInv, TypeOK
<1>2. QueueHead \in Seq(Numbers)
  BY <1>1, QueueSplit
<1>3. ASSUME NEW s, Holds(s) PROVE Holds(s)'
  <2>1. SteerMessage(s)' = SteerMessage(s)
    BY DEF SteerMessage
  <2>2. CASE InRange(SteerMessage(s), history)
    BY <1>1, <2>1, <2>2, InRangeConcat DEF Holds
  <2>3. CASE UNCHANGED <<execPending, queue>> /\ ~InRange(SteerMessage(s), history)
    BY <1>3, <2>3 DEF Holds
  <2>4. CASE execPending' = execPending \o QueueHead /\ queue' = QueueRest
    <3>1. InRange(s, execPending) => InRange(s, execPending')
      BY <1>1, <1>2, <2>4, InRangeConcat
    <3>2. InRange(s, QueueHead) => InRange(s, execPending')
      BY <1>1, <1>2, <2>4, InRangeConcat
    <3>3. InRange(s, queue) => InRange(s, QueueHead) \/ InRange(s, queue')
      BY <1>1, <2>4, TakenOrLeft
    <3> QED
      BY <1>3, <2>2, <3>1, <3>2, <3>3 DEF Holds
  <2> QED
    BY <2>2, <2>3, <2>4
<1> QED
  BY <1>3, HeldStays

LEMMA KeptStep ==
  ASSUME "context" \notin Failures, "vision" \notin Failures, "rollback" \notin Interrupts,
         IInv, ShownInv, Begun, KeptInv, [Next]_vars
  PROVE  KeptInv'
<1>1. CASE UNCHANGED vars
  BY <1>1 DEF vars, store, steering, KeptInv, SteeringKept, SteerMessage
<1>2. CASE Push
  <2>1. pushed' = pushed + 1 /\ queue' = Append(queue, pushed + 1)
    BY <1>2 DEF Push
  <2>2. UNCHANGED <<pc, execPending, history, status>> /\ pc # "ended"
    BY <1>2 DEF Push, store
  <2>3. status = "running" /\ queue \in Seq(Numbers) /\ pushed \in Nat
    BY <2>2, TurnLoopAssumption DEF IInv, TypeOK
  <2>4. ASSUME NEW s \in 1 .. pushed' PROVE Holds(s)'
    <3>1. PICK n \in Nat : n = Len(queue) /\ DOMAIN queue = 1 .. n
      BY <2>3, LenProperties
    <3>2. /\ queue' \in Seq(Nat) /\ Len(queue') = n + 1
          /\ queue'[n + 1] = pushed + 1 /\ \A i \in 1 .. n : queue'[i] = queue[i]
      <4>1. queue \in Seq(Nat) /\ pushed + 1 \in Nat
        <5>1. Numbers \subseteq Nat
          BY DEF Numbers
        <5>2. queue \in Seq(Nat)
          BY <2>3, <5>1, SeqMonotonic
        <5>3. pushed + 1 \in Nat
          BY <2>3
        <5> QED
          BY <5>2, <5>3
      <4> QED
        BY <2>1, <3>1, <4>1, AppendProperties
    <3>3. DOMAIN queue' = 1 .. n + 1
      BY <3>2, LenProperties
    <3>4. CASE s = pushed + 1
      BY <3>2, <3>3, <3>4 DEF Holds, InRange
    <3>5. CASE s # pushed + 1
      <4>1. s \in 1 .. pushed
        BY <2>1, <2>3, <3>5
      <4>2. Holds(s)
        BY <2>3, <4>1 DEF KeptInv, SteeringKept, Holds
      <4>3. InRange(s, queue) => InRange(s, queue')
        <5>1. \A i \in 1 .. n : i \in 1 .. n + 1
          OBVIOUS
        <5> QED
          BY <3>1, <3>2, <3>3, <5>1 DEF InRange
      <4> QED
        BY <2>2, <4>2, <4>3 DEF Holds, SteerMessage
    <3> QED
      BY <3>4, <3>5
  <2>5. SteeringKept'
    BY <2>4 DEF SteeringKept, Holds
  <2> QED
    BY <2>2, <2>5 DEF KeptInv
<1>3. CASE InterruptGraceful \/ InterruptHard
  <2>1. pc # "ended" /\ UNCHANGED <<pc, history, steering, status>>
    BY <1>3 DEF InterruptGraceful, InterruptHard, store
  <2>2. UNCHANGED <<history, queue, execPending, pushed>>
    BY <2>1 DEF steering
  <2> QED
    BY <2>1, <2>2 DEF KeptInv, SteeringKept, SteerMessage
<1>4. ~HardAbort
  BY DEF HardAbort
<1>5. ASSUME NEW over \in BOOLEAN, SetupTurn(over) PROVE KeptInv'
  <2>1. pc = "setup" /\ pc' = "loop" /\ UNCHANGED steering
    BY <1>5 DEF SetupTurn, Step
  <2>2. history = OldHistory /\ status = "running"
    BY <2>1 DEF KeptInv, IInv, TypeOK
  <2>3. ASSUME NEW s PROVE ~InRange(SteerMessage(s), history)
    <3>1. \A i \in DOMAIN OldHistory : OldHistory[i].of # "steer"
      <4>1. \A i \in 1 .. Len(OldHistory) :
              OldHistory[i] \in [role : {"user", "assistant", "tool"},
                                 of : {"user", "call", "result", "answer"},
                                 n : {0}, k : Nat]
        BY TurnLoopAssumption, ElementOfSeq
      <4>2. DOMAIN OldHistory = 1 .. Len(OldHistory)
        BY OldHistoryType, LenProperties
      <4> QED
        BY <4>1, <4>2
    <3>2. SteerMessage(s).of = "steer"
      BY DEF SteerMessage, Message
    <3> QED
      BY <2>2, <3>1, <3>2 DEF InRange
  <2>4. \A s : Holds(s) => Holds(s)'
    BY <2>1, <2>3 DEF Holds, steering
  <2> QED
    BY <2>1, <2>4, HeldStays DEF steering
<1>6. CASE BeginIteration
  <2> DEFINE first  == iteration = 0
             polls  == first /\ ~Continued
             rest   == IF ~first THEN execPending
                       ELSE IF polls THEN QueueHead ELSE <<>>
             inject == pending \o rest
             new    == [i \in DOMAIN inject |-> SteerMessage(inject[i])]
  <2>1. /\ pc = "loop" /\ pc' = "call" /\ AppendAll(new) /\ pushed' = pushed
        /\ queue' = IF polls THEN QueueRest ELSE queue
    BY <1>6 DEF BeginIteration, Step
  <2>2. /\ pending \in Seq(Numbers) /\ execPending \in Seq(Numbers) /\ queue \in Seq(Numbers)
        /\ QueueHead \in Seq(Numbers) /\ <<>> \in Seq(Numbers)
    BY QueueSplit, EmptySeq DEF IInv, TypeOK
  <2>3. rest \in Seq(Numbers)
    BY <2>2
  <2>4. first => execPending = pending
    BY DEF Begun
  <2>5. ~first => rest = execPending
    OBVIOUS
  <2>6. polls => rest = QueueHead
    OBVIOUS
  <2> HIDE DEF rest, first, polls
  <2>7. inject \in Seq(Numbers)
    BY <2>2, <2>3, ConcatProperties
  <2>8. ASSUME NEW s, InRange(s, pending) \/ InRange(s, rest) PROVE InRange(s, inject)
    BY <2>2, <2>3, <2>8, InRangeConcat
  <2> HIDE DEF inject
  <2>9. /\ new \in Seq(Known) /\ Len(new) = Len(inject)
        /\ \A i \in DOMAIN new : new[i] = SteerMessage(inject[i])
    BY <2>7, SteeringKnown
  <2>10. ASSUME NEW s, InRange(s, inject) PROVE InRange(SteerMessage(s), new)
    <3>1. DOMAIN new = DOMAIN inject
      OBVIOUS
    <3> HIDE DEF new
    <3> QED
      BY <2>9, <2>10, <3>1 DEF InRange
  <2> HIDE DEF new
  <2>11. history' = history \o new /\ history \in Seq(Known)
    BY <2>1, <2>9, Appended DEF ShownInv
  <2>12. ASSUME NEW s, Holds(s) PROVE Holds(s)'
    <3>1. SteerMessage(s)' = SteerMessage(s)
      BY DEF SteerMessage
    <3>2. InRange(SteerMessage(s), history) => InRange(SteerMessage(s), history')
      BY <2>9, <2>11, InRangeConcat
    <3>3. InRange(s, inject) => InRange(SteerMessage(s), history')
      BY <2>9, <2>10, <2>11, InRangeConcat
    <3>4. InRange(s, execPending) => InRange(s, inject)
      BY <2>4, <2>5, <2>8
    <3>5. InRange(s, queue) => InRange(s, queue') \/ InRange(s, inject)
      BY <2>1, <2>2, <2>6, <2>8, TakenOrLeft
    <3> QED
      BY <2>12, <3>1, <3>2, <3>3, <3>4, <3>5 DEF Holds
  <2> QED
    BY <2>1, <2>12, HeldStays
<1>7. CASE LeaveLoop \/ AbortAtLoop \/ FinalizeHandled
  <2>1. pc # "ended" /\ pc' # "setup" /\ UNCHANGED <<history, steering>>
    BY <1>7 DEF LeaveLoop, AbortAtLoop, FinalizeHandled, Step, End, store
  <2> QED
    BY <2>1, QuietKeeps
<1>8. CASE AbortTurn
  <2>1. pc = "abort" /\ pc' = "ended" /\ status' = "aborted" /\ pushed' = pushed
    BY <1>8 DEF AbortTurn, End, steering
  <2> QED
    BY <2>1, HeldStays
<1>9. CASE Finalize
  <2>1. pc = "finalize" /\ pc' = "ended" /\ AppendAll(<<FinalMessage>>) /\ UNCHANGED steering
    BY <1>9 DEF Finalize, End
  <2>2. <<FinalMessage>> \in Seq(Known)
    BY MessageTypes DEF IInv, TypeOK
  <2>3. history' = history \o <<FinalMessage>>
    BY <2>1, <2>2, Appended
  <2> QED
    BY <2>1, <2>2, <2>3, StoreKeeps DEF steering
<1>10. ASSUME NEW hook, StartCall(hook) PROVE KeptInv'
  <2>1. pc # "ended" /\ pc' # "setup" /\ UNCHANGED <<history, steering>>
    BY <1>10 DEF StartCall, Step, End, store
  <2> QED
    BY <2>1, QuietKeeps
<1>11. CASE \/ ProviderCanceled \/ WaitAfterTimeout \/ ProviderFails
            \/ BackoffOver \/ BackoffAborted
  <2>1. pc # "ended" /\ pc' # "setup" /\ UNCHANGED <<history, steering>>
    BY <1>11 DEF ProviderCanceled, WaitAfterTimeout, ProviderFails, BackoffOver,
                 BackoffAborted,
                 Step, End, store
  <2> QED
    BY <2>1, QuietKeeps
<1>12. ~RetryWithoutMedia /\ ~RetryCompressed
  BY DEF RetryWithoutMedia, RetryCompressed
<1>13. ASSUME NEW hook \in HookActions, StopAfterCall(hook) PROVE KeptInv'
  <2>1. pc # "ended" /\ pc' # "setup" /\ UNCHANGED <<history, steering>>
    BY <1>13 DEF StopAfterCall, Step, End, store
  <2> QED
    BY <2>1, QuietKeeps
<1>14. CASE AnswersDirectly
  <2>1. /\ pc = "provider" /\ pc' # "setup" /\ pushed' = pushed /\ history' = history
        /\ execPending' = execPending \o QueueHead /\ queue' = QueueRest
    BY <1>14 DEF AnswersDirectly, Step, store
  <2>2. history \in Seq(Known) /\ <<>> \in Seq(Known)
    BY <2>1, EmptySeq DEF ShownInv
  <2>3. history' = history \o <<>>
    BY <2>1, <2>2, ConcatEmptySeq
  <2> QED
    BY <2>1, <2>2, <2>3, StoreKeeps
<1>15. ASSUME NEW k \in 1 .. MaxCalls, AsksForTools(k) PROVE KeptInv'
  <2>1. /\ pc = "provider" /\ pc' = "tools" /\ AppendAll(<<CallMessage(k)>>)
        /\ UNCHANGED <<pushed, execPending, queue>>
    BY <1>15 DEF AsksForTools, Step
  <2>2. <<CallMessage(k)>> \in Seq(Known)
    BY MessageTypes DEF IInv, TypeOK
  <2>3. history' = history \o <<CallMessage(k)>>
    BY <2>1, <2>2, Appended
  <2> QED
    BY <2>1, <2>2, <2>3, StoreKeeps
<1>16. CASE StopAtTool \/ StartTool \/ ToolAborted
  <2>1. pc # "ended" /\ pc' # "setup" /\ UNCHANGED <<history, steering>>
    BY <1>16 DEF StopAtTool, StartTool, ToolAborted, Step, End, store
  <2> QED
    BY <2>1, QuietKeeps
<1>17. CASE DenyTool
  <2>1. pc = "tools" /\ pc' = pc /\ AppendAll(<<ResultOf(tool)>>) /\ UNCHANGED steering
    BY <1>17 DEF DenyTool
  <2>2. <<ResultOf(tool)>> \in Seq(Known)
    <3>1. tool \in Nat /\ iteration \in Nat
      BY DEF IInv, TypeOK
    <3>2. ResultOf(tool) \in Known
      BY <3>1 DEF ResultOf, Message, Known
    <3> QED
      BY <3>2
  <2>3. history' = history \o <<ResultOf(tool)>>
    BY <2>1, <2>2, Appended
  <2> QED
    BY <2>1, <2>2, <2>3, StoreKeeps DEF steering
<1>18. ASSUME NEW answered \in BOOLEAN, pc \in {"tools", "running"}, tool <= calls,
              Deliver(answered)
       PROVE  KeptInv'
  <2> DEFINE polled == execPending \o QueueHead
             last   == IF SkipsRest(polled) THEN calls ELSE tool
             n      == last - tool + 1
             new    == [i \in 1 .. n |-> ResultOf(tool + i - 1)]
  <2>1. /\ pc' = "tools" /\ AppendAll(new) /\ pushed' = pushed
        /\ execPending' = execPending \o QueueHead /\ queue' = QueueRest
    BY <1>18 DEF Deliver, Step
  <2>2. /\ last \in tool .. calls /\ tool \in Nat /\ iteration \in Nat
    BY <1>18 DEF IInv, TypeOK
  <2> HIDE DEF last
  <2>3. n \in Nat
    BY <2>2
  <2> HIDE DEF n
  <2>4. new \in Seq(Known)
    <3>1. \A k \in Nat : ResultOf(k) \in Known
      BY <2>2 DEF ResultOf, Message, Known
    <3>2. \A i \in 1 .. n : tool + i - 1 \in Nat
      BY <2>2
    <3>3. new \in [1 .. n -> Known]
      BY <3>1, <3>2
    <3> QED
      BY <2>3, <3>3
  <2> HIDE DEF new
  <2>5. history' = history \o new
    BY <1>18, <2>1, <2>4, Appended
  <2> QED
    BY <1>18, <2>1, <2>4, <2>5, StoreKeeps
<1>19. ASSUME NEW answered \in BOOLEAN, RespondForTool(answered) PROVE KeptInv'
  BY <1>18, <1>19 DEF RespondForTool
<1>20. ASSUME NEW answered \in BOOLEAN, ToolReturns(answered) PROVE KeptInv'
  BY <1>18, <1>20 DEF ToolReturns, IInv
<1>21. ASSUME NEW hook \in HookActions, StopByToolHook(hook) PROVE KeptInv'
  <2>1. pc # "ended" /\ pc' # "setup" /\ UNCHANGED <<history, steering>>
    BY <1>21 DEF StopByToolHook, Step, End, store
  <2> QED
    BY <2>1, QuietKeeps
<1>22. CASE ToolsDone
  <2>1. /\ pc = "tools" /\ pc' # "setup" /\ pushed' = pushed
        /\ execPending' = (IF execPending = <<>> THEN QueueHead ELSE execPending)
        /\ queue' = (IF execPending = <<>> THEN QueueRest ELSE queue)
        /\ \/ AppendAll(<<FinalMessage>>)
           \/ UNCHANGED <<messages, store>>
    BY <1>22 DEF ToolsDone, Step
  <2>2. /\ history \in Seq(Known) /\ <<>> \in Seq(Known) /\ <<FinalMessage>> \in Seq(Known)
        /\ QueueHead \in Seq(Numbers)
    BY <2>1, EmptySeq, MessageTypes, QueueSplit DEF ShownInv, IInv, TypeOK
  <2>3. PICK new \in Seq(Known) : history' = history \o new
    <3>1. CASE AppendAll(<<FinalMessage>>)
      BY <2>1, <2>2, <3>1, Appended
    <3>2. CASE UNCHANGED <<messages, store>>
      <4>1. history' = history \o <<>>
        BY <2>2, <3>2, ConcatEmptySeq DEF store
      <4> QED
        BY <2>2, <4>1
    <3> QED
      BY <2>1, <3>1, <3>2
  <2>4. CASE execPending = <<>>
    <3>1. execPending' = execPending \o QueueHead
      BY <2>1, <2>2, <2>4, ConcatEmptySeq
    <3>2. queue' = QueueRest
      BY <2>1, <2>4
    <3> QED
      BY <2>1, <2>3, <3>1, <3>2, StoreKeeps
  <2>5. CASE execPending # <<>>
    BY <2>1, <2>3, <2>5, StoreKeeps
  <2> QED
    BY <2>4, <2>5
<1>23. CASE LoopStep
  BY <1>5, <1>6, <1>7, <1>8, <1>9, <1>23 DEF LoopStep
<1>24. CASE CallStep
  BY <1>10, <1>11, <1>12, <1>13, <1>14, <1>15, <1>24 DEF CallStep
<1>25. CASE ToolStep
  BY <1>16, <1>17, <1>19, <1>20, <1>21, <1>22, <1>25 DEF ToolStep
<1> QED
  BY <1>1, <1>2, <1>3, <1>4, <1>23, <1>24, <1>25 DEF Next, TurnStep, Outside

\* A steering message that was taken stays with the turn or in the history, when
\* nothing that is meant to shorten the history does.
THEOREM SteeringSafety ==
  ASSUME "context" \notin Failures, "vision" \notin Failures, "rollback" \notin Interrupts
  PROVE  Spec => []SteeringKept
<1>1. Init => KeptInv
  <2> SUFFICES ASSUME Init PROVE KeptInv
    OBVIOUS
  <2>1. CASE Continued
    <3>1. pushed = 1 /\ execPending = <<1>>
      BY <2>1 DEF Init
    <3>2. \A s \in 1 .. pushed : s = 1
      BY <3>1
    <3>3. InRange(1, execPending)
      <4>1. 1 \in DOMAIN execPending /\ execPending[1] = 1
        BY <3>1
      <4> QED
        BY <4>1 DEF InRange
    <3> QED
      BY <3>2, <3>3 DEF Init, KeptInv, SteeringKept
  <2>2. CASE ~Continued
    <3>1. 1 .. pushed = {}
      BY <2>2 DEF Init
    <3> QED
      BY <3>1 DEF Init, KeptInv, SteeringKept
  <2> QED
    BY <2>1, <2>2
<1>2. IInv /\ ShownInv /\ Begun /\ KeptInv /\ [Next]_vars => KeptInv'
  BY KeptStep
<1>3. KeptInv => SteeringKept
  BY DEF KeptInv
<1> QED
  BY <1>1, <1>2, <1>3, Basics, PTL DEF Spec

-------------------------------------------------------------------------------
(* What the session held before the turn stays where it was.                   *)

Extends(h) == \A i \in DOMAIN OldHistory : i <= Len(h) /\ h[i] = OldHistory[i]

\* The restore point is the old history from the assembly on, because no message
\* that the turn records is one of the turns before it.
RollbackInv ==
  /\ RollbackComplete
  /\ pc = "setup" => history = OldHistory
  /\ pc \notin {"setup", "ended"} => assembled = OldHistory /\ restorePoint = OldHistory
  /\ persisted \in Seq(Known)
  /\ pc \in {"loop", "call", "provider", "backoff", "tools", "running"} =>
       \A i \in DOMAIN persisted : persisted[i].n # 0

LEMMA ExtendsMore ==
  ASSUME NEW h \in Seq(Known), NEW new \in Seq(Known), Extends(h)
  PROVE  Extends(h \o new)
<1>1. PICK e \in Nat : e = Len(OldHistory) /\ DOMAIN OldHistory = 1 .. e
  BY OldHistoryType, LenProperties
<1>2. PICK n \in Nat : n = Len(h)
  BY LenProperties
<1>3. PICK l \in Nat : l = Len(new)
  BY LenProperties
<1>4. /\ Len(h \o new) = n + l
      /\ \A i \in 1 .. n + l : (h \o new)[i] = IF i <= n THEN h[i] ELSE new[i - n]
  BY <1>2, <1>3, ConcatProperties
<1>5. ASSUME NEW i \in 1 .. e
      PROVE  i <= Len(h \o new) /\ (h \o new)[i] = OldHistory[i]
  <2>1. i <= n /\ h[i] = OldHistory[i]
    BY <1>1, <1>2 DEF Extends
  <2>2. i \in 1 .. n + l
    BY <2>1
  <2> QED
    BY <1>4, <2>1, <2>2
<1> QED
  BY <1>1, <1>5 DEF Extends

\* A history cut to the length of the old one is the old one.
LEMMA ExtendsCut ==
  ASSUME NEW h \in Seq(Known), Extends(h)
  PROVE  SubSeq(h, 1, Len(OldHistory)) = OldHistory
<1>1. PICK e \in Nat : e = Len(OldHistory) /\ DOMAIN OldHistory = 1 .. e
  BY OldHistoryType, LenProperties
<1>2. PICK n \in Nat : n = Len(h)
  BY LenProperties
<1>3. \A i \in 1 .. e : i \in 1 .. n /\ h[i] = OldHistory[i]
  BY <1>1, <1>2 DEF Extends
<1>4. \A i \in 1 .. e : h[i] \in Known
  BY <1>2, <1>3, ElementOfSeq
<1> DEFINE cut == SubSeq(h, 1, e)
<1>5. /\ cut \in Seq(Known) /\ Len(cut) = e
      /\ \A i \in 1 .. e : cut[i] = h[i]
  <2>1. /\ cut \in Seq(Known)
        /\ Len(cut) = IF 1 <= e THEN e - 1 + 1 ELSE 0
        /\ \A i \in 1 .. e - 1 + 1 : cut[i] = h[1 + i - 1]
    BY <1>4, SubSeqProperties
  <2>2. \A i \in 1 .. e : i \in 1 .. e - 1 + 1 /\ 1 + i - 1 = i
    OBVIOUS
  <2> QED
    BY <2>1, <2>2
<1> HIDE DEF cut
<1>6. Len(cut) = Len(OldHistory) /\ \A i \in 1 .. Len(cut) : cut[i] = OldHistory[i]
  BY <1>1, <1>3, <1>5
<1>7. cut = OldHistory
  BY <1>5, <1>6, OldHistoryType, SeqEqual
<1> QED
  BY <1>1, <1>7 DEF cut

\* Nothing of this turn is taken for a message at the end of the old history.
LEMMA RefreshedOld ==
  ASSUME persisted \in Seq(Known), \A i \in DOMAIN persisted : persisted[i].n # 0
  PROVE  Refreshed(OldHistory) = OldHistory
<1>1. PICK e \in Nat : e = Len(OldHistory) /\ DOMAIN OldHistory = 1 .. e
  BY OldHistoryType, LenProperties
<1>2. PICK p \in Nat : p = Len(persisted) /\ DOMAIN persisted = 1 .. p
  BY LenProperties
<1>3. \A i \in 1 .. e : OldHistory[i].n = 0
  <2>1. \A i \in 1 .. e :
          OldHistory[i] \in [role : {"user", "assistant", "tool"},
                             of : {"user", "call", "result", "answer"}, n : {0}, k : Nat]
    BY <1>1, TurnLoopAssumption, ElementOfSeq
  <2> QED
    BY <2>1
<1> DEFINE Same(size) ==
             \A i \in 1 .. size :
               LET m == OldHistory[e - size + i]
               IN  m = persisted[p - size + i] /\ SurvivesStore(m)
           shorter == IF e < p THEN e ELSE p
           S == {size \in 0 .. shorter : Same(size)}
<1>4. shorter \in Nat /\ shorter <= e /\ shorter <= p
  OBVIOUS
<1>5. MatchingTail(OldHistory, persisted) = Highest(S)
  BY <1>1, <1>2 DEF MatchingTail
<1>6. 0 \in S
  <2>1. 1 .. 0 = {}
    OBVIOUS
  <2>2. Same(0)
    BY <2>1
  <2>3. 0 \in 0 .. shorter
    BY <1>4
  <2> QED
    BY <2>2, <2>3
<1>7. ASSUME NEW size \in S PROVE size = 0
  <2>1. size \in 0 .. shorter /\ Same(size)
    OBVIOUS
  <2> HIDE DEF shorter
  <2>2. SUFFICES ASSUME size # 0 PROVE FALSE
    OBVIOUS
  <2>3. size \in 1 .. size /\ e - size + size = e /\ p - size + size = p
    BY <1>4, <2>1, <2>2
  <2>4. OldHistory[e] = persisted[p]
    BY <2>1, <2>3
  <2>5. e \in 1 .. e /\ p \in 1 .. p
    BY <1>4, <2>1, <2>2
  <2> QED
    BY <1>2, <1>3, <2>4, <2>5
<1>8. S \in SUBSET (0 .. shorter)
  OBVIOUS
<1> HIDE DEF S, shorter
<1>9. Highest(S) = 0
  <2>1. Highest(S) \in S
    BY <1>4, <1>6, <1>8, HighestIs
  <2> QED
    BY <1>7, <2>1
<1>10. Refreshed(OldHistory) = SubSeq(OldHistory, 1, e - 0)
  BY <1>1, <1>5, <1>9 DEF Refreshed
<1>11. e - 0 = e
  OBVIOUS
<1>12. Extends(OldHistory)
  BY <1>1 DEF Extends
<1> QED
  BY <1>1, <1>10, <1>11, <1>12, OldHistoryType, ExtendsCut

\* A step that stores nothing.
LEMMA QuietRolls ==
  ASSUME IInv, RollbackInv, pc \notin {"setup", "ended"}, pc' # "setup",
         UNCHANGED store, status' # "aborted",
         pc' \in {"loop", "call", "provider", "backoff", "tools", "running"} =>
           pc \in {"loop", "call", "provider", "backoff", "tools", "running"}
  PROVE  RollbackInv'
BY DEF RollbackInv, RollbackComplete, store

\* A step that stores messages, which are of this turn.
LEMMA StoreRolls ==
  ASSUME IInv, ShownInv, RollbackInv, pc \notin {"setup", "ended"}, pc' # "setup",
         status' # "aborted", NEW new \in Seq(Known), AppendAll(new),
         pc' \in {"loop", "call", "provider", "backoff", "tools", "running"} =>
           /\ pc \in {"loop", "call", "provider", "backoff", "tools", "running"}
           /\ \A i \in DOMAIN new : new[i].n # 0
  PROVE  RollbackInv'
<1>1. /\ history' = history \o new /\ persisted' = persisted \o new
      /\ UNCHANGED <<assembled, restorePoint>>
      /\ history \in Seq(Known) /\ persisted \in Seq(Known)
  BY DEF AppendAll, ShownInv, RollbackInv
<1>2. Extends(history')
  BY <1>1, ExtendsMore DEF RollbackInv, RollbackComplete, Extends
<1>3. persisted' \in Seq(Known)
  BY <1>1, ConcatProperties
<1>4. ASSUME pc' \in {"loop", "call", "provider", "backoff", "tools", "running"},
             NEW i \in DOMAIN persisted'
      PROVE  persisted'[i].n # 0
  <2>1. PICK p \in Nat : p = Len(persisted) /\ DOMAIN persisted = 1 .. p
    BY <1>1, LenProperties
  <2>2. PICK l \in Nat : l = Len(new) /\ DOMAIN new = 1 .. l
    BY LenProperties
  <2>3. /\ Len(persisted') = p + l
        /\ \A j \in 1 .. p + l :
             persisted'[j] = IF j <= p THEN persisted[j] ELSE new[j - p]
    BY <1>1, <2>1, <2>2, ConcatProperties
  <2>4. i \in 1 .. p + l
    BY <1>3, <2>3, LenProperties
  <2>5. CASE i <= p
    <3>1. i \in 1 .. p
      BY <2>4, <2>5
    <3> QED
      BY <1>4, <2>1, <2>3, <2>4, <3>1 DEF RollbackInv
  <2>6. CASE ~(i <= p)
    <3>1. i - p \in 1 .. l
      BY <2>4, <2>6
    <3> QED
      BY <1>4, <2>2, <2>3, <2>4, <2>6, <3>1
  <2> QED
    BY <2>5, <2>6
<1> QED
  BY <1>1, <1>2, <1>3, <1>4 DEF RollbackInv, RollbackComplete, Extends

LEMMA RollbackStep ==
  ASSUME DefaultAgent, ~OverBudget, "context" \notin Failures,
         IInv, ShownInv, Begun, RollbackInv, [Next]_vars
  PROVE  RollbackInv'
<1>1. CASE UNCHANGED vars \/ Push \/ InterruptGraceful \/ InterruptHard
  <2>1. UNCHANGED <<pc, status, history, persisted, assembled, restorePoint>>
    BY <1>1 DEF vars, store, Push, InterruptGraceful, InterruptHard
  <2> QED
    BY <2>1 DEF RollbackInv, RollbackComplete
<1>2. CASE HardAbort
  <2>1. /\ pc # "ended" /\ UNCHANGED <<pc, status, persisted, assembled, restorePoint>>
        /\ history' = IF Len(OldHistory) < Len(history)
                      THEN SubSeq(history, 1, Len(OldHistory)) ELSE history
    BY <1>2 DEF HardAbort
  <2>2. history \in Seq(Known) /\ Extends(history)
    BY <2>1 DEF ShownInv, RollbackInv, RollbackComplete, Extends
  <2>3. history' = history \/ history' = OldHistory
    BY <2>1, <2>2, ExtendsCut
  <2>4. Extends(OldHistory)
    <3>1. \A i \in DOMAIN OldHistory : i <= Len(OldHistory)
      BY OldHistoryType, LenProperties
    <3> QED
      BY <3>1 DEF Extends
  <2>5. Extends(history')
    BY <2>2, <2>3, <2>4
  <2> QED
    BY <2>1, <2>3, <2>5 DEF RollbackInv, RollbackComplete, Extends
<1>3. ASSUME NEW over \in BOOLEAN, SetupTurn(over) PROVE RollbackInv'
  <2> DEFINE root == IF Continued THEN <<>> ELSE <<UserMessage>>
  <2>1. /\ pc = "setup" /\ pc' = "loop" /\ status' = status
        /\ restorePoint' = history /\ assembled' = history
        /\ persisted' = root /\ history' = history \o root
    BY <1>3 DEF SetupTurn, Step, Assembled
  <2>2. history = OldHistory /\ status = "running"
    BY <2>1 DEF RollbackInv, IInv, TypeOK
  <2>3. root \in Seq(Known) /\ \A i \in DOMAIN root : root[i].n # 0
    <3>1. CASE Continued
      BY <3>1, EmptySeq
    <3>2. CASE ~Continued
      <4>1. root = <<UserMessage>> /\ UserMessage.n = 1
        BY <3>2 DEF UserMessage, Message
      <4>2. \A i \in DOMAIN <<UserMessage>> : <<UserMessage>>[i] = UserMessage
        OBVIOUS
      <4> QED
        BY <4>1, <4>2, MessageTypes DEF IInv, TypeOK
    <3> QED
      BY <3>1, <3>2
  <2> HIDE DEF root
  <2>4. Extends(OldHistory)
    <3>1. \A i \in DOMAIN OldHistory : i <= Len(OldHistory)
      BY OldHistoryType, LenProperties
    <3> QED
      BY <3>1 DEF Extends
  <2>5. Extends(history')
    BY <2>1, <2>2, <2>3, <2>4, OldHistoryType, ExtendsMore
  <2> QED
    BY <2>1, <2>2, <2>3, <2>5 DEF RollbackInv, RollbackComplete, Extends
<1>4. CASE LeaveLoop \/ AbortAtLoop \/ FinalizeHandled
  <2>1. /\ pc \in {"loop", "delivered"} /\ pc' \in {"abort", "finalize", "ended"}
        /\ status' # "aborted" /\ UNCHANGED store
    BY <1>4 DEF LeaveLoop, AbortAtLoop, FinalizeHandled, Step, End, IInv, TypeOK
  <2> QED
    BY <2>1, QuietRolls
<1>5. CASE BeginIteration
  <2> DEFINE inject == pending \o (IF iteration # 0 THEN execPending
                                   ELSE IF iteration = 0 /\ ~Continued
                                        THEN QueueHead ELSE <<>>)
             new    == [i \in DOMAIN inject |-> SteerMessage(inject[i])]
  <2>1. pc = "loop" /\ pc' = "call" /\ AppendAll(new) /\ status' = status
    BY <1>5 DEF BeginIteration, Step
  <2>2. inject \in Seq(Numbers)
    <3>1. pending \in Seq(Numbers) /\ execPending \in Seq(Numbers) /\ queue \in Seq(Numbers)
      BY DEF IInv, TypeOK
    <3>2. QueueHead \in Seq(Numbers) /\ <<>> \in Seq(Numbers)
      BY <3>1, QueueSplit, EmptySeq
    <3> QED
      BY <3>1, <3>2, ConcatProperties
  <2> HIDE DEF inject
  <2>3. /\ new \in Seq(Known) /\ Len(new) = Len(inject)
        /\ \A i \in DOMAIN new : new[i] = SteerMessage(inject[i])
    BY <2>2, SteeringKnown
  <2> HIDE DEF new
  <2>4. ASSUME NEW i \in DOMAIN new PROVE new[i].n # 0
    <3>1. i \in 1 .. Len(inject)
      BY <2>3, LenProperties
    <3>2. inject[i] \in Numbers
      BY <2>2, <3>1, ElementOfSeq
    <3>3. inject[i] # 0
      BY <3>2 DEF Numbers
    <3>4. new[i].n = inject[i]
      BY <2>3 DEF SteerMessage, Message
    <3> QED
      BY <3>3, <3>4
  <2>5. status = "running"
    BY <2>1 DEF IInv, TypeOK
  <2> QED
    BY <2>1, <2>3, <2>4, <2>5, StoreRolls
<1>6. CASE AbortTurn
  <2>1. /\ pc = "abort" /\ pc' = "ended" /\ history' = restorePoint
        /\ UNCHANGED <<persisted, assembled, restorePoint>>
    BY <1>6 DEF AbortTurn, End
  <2>2. history' = OldHistory
    BY <2>1 DEF RollbackInv
  <2>3. \A i \in DOMAIN OldHistory : i <= Len(OldHistory)
    BY OldHistoryType, LenProperties
  <2> QED
    BY <2>1, <2>2, <2>3 DEF RollbackInv, RollbackComplete
<1>7. CASE Finalize
  <2>1. /\ pc = "finalize" /\ pc' = "ended" /\ status' = "completed"
        /\ AppendAll(<<FinalMessage>>)
    BY <1>7 DEF Finalize, End
  <2>2. <<FinalMessage>> \in Seq(Known)
    BY MessageTypes DEF IInv, TypeOK
  <2> QED
    BY <2>1, <2>2, StoreRolls
<1>8. CASE CallStep /\ ~RetryWithoutMedia /\ ~(\E k \in 1 .. MaxCalls : AsksForTools(k))
  <2>1. ~RetryCompressed
    BY DEF RetryCompressed
  <2>2. /\ pc \in {"call", "provider", "backoff"} /\ pc' # "setup"
        /\ UNCHANGED store /\ status' # "aborted"
    BY <1>8, <2>1
    DEF CallStep, StartCall, ProviderCanceled, WaitAfterTimeout, BackoffOver,
        BackoffAborted, ProviderFails, StopAfterCall, AnswersDirectly, Step, End, IInv, TypeOK
  <2> QED
    BY <2>2, QuietRolls
<1>9. CASE RetryWithoutMedia
  <2>1. /\ pc = "provider" /\ pc' = pc /\ status' = status
        /\ history' = assembled /\ restorePoint' = Refreshed(assembled)
        /\ UNCHANGED <<assembled, persisted>>
    BY <1>9 DEF RetryWithoutMedia
  <2>2. /\ assembled = OldHistory /\ persisted \in Seq(Known)
        /\ \A i \in DOMAIN persisted : persisted[i].n # 0
    BY <2>1 DEF RollbackInv
  <2>3. Refreshed(OldHistory) = OldHistory
    BY <2>2, RefreshedOld
  <2>4. \A i \in DOMAIN OldHistory : i <= Len(OldHistory)
    BY OldHistoryType, LenProperties
  <2> QED
    BY <2>1, <2>2, <2>3, <2>4 DEF RollbackInv, RollbackComplete
<1>10. ASSUME NEW k \in 1 .. MaxCalls, AsksForTools(k) PROVE RollbackInv'
  <2>1. /\ pc = "provider" /\ pc' = "tools" /\ status' = status
        /\ AppendAll(<<CallMessage(k)>>)
    BY <1>10 DEF AsksForTools, Step
  <2>2. <<CallMessage(k)>> \in Seq(Known)
    BY MessageTypes DEF IInv, TypeOK
  <2>3. \A i \in DOMAIN <<CallMessage(k)>> : <<CallMessage(k)>>[i].n # 0
    <3>1. \A i \in DOMAIN <<CallMessage(k)>> : <<CallMessage(k)>>[i] = CallMessage(k)
      OBVIOUS
    <3>2. CallMessage(k).n = iteration /\ iteration # 0
      BY <2>1 DEF CallMessage, Message, Begun
    <3> QED
      BY <3>1, <3>2
  <2>4. status = "running"
    BY <2>1 DEF IInv, TypeOK
  <2> QED
    BY <2>1, <2>2, <2>3, <2>4, StoreRolls
<1>11. ASSUME NEW n \in Nat, pc \in {"tools", "running"}, pc' = "tools", status' = status,
              AppendAll([i \in 1 .. n |-> ResultOf(tool + i - 1)])
       PROVE  RollbackInv'
  <2> DEFINE new == [i \in 1 .. n |-> ResultOf(tool + i - 1)]
  <2>1. tool \in Nat \ {0} /\ iteration \in Nat /\ iteration # 0 /\ status = "running"
    BY <1>11 DEF IInv, TypeOK, Begun
  <2>2. ASSUME NEW k \in Nat PROVE ResultOf(k) \in Known /\ ResultOf(k).n # 0
    BY <2>1 DEF ResultOf, Message, Known
  <2>3. \A i \in 1 .. n : tool + i - 1 \in Nat
    BY <2>1
  <2>4. /\ new \in [1 .. n -> Known] /\ DOMAIN new = 1 .. n
        /\ \A i \in 1 .. n : new[i].n # 0
    BY <2>2, <2>3
  <2>5. AppendAll(new)
    BY <1>11
  <2> HIDE DEF new
  <2>6. new \in Seq(Known)
    BY <2>4
  <2> QED
    BY <1>11, <2>1, <2>4, <2>5, <2>6, StoreRolls
<1>12. CASE StopAtTool \/ StartTool \/ ToolAborted
            \/ \E hook \in HookActions : StopByToolHook(hook)
  <2>1. /\ pc \in {"tools", "running"} /\ pc' # "setup"
        /\ UNCHANGED store /\ status' # "aborted"
    BY <1>12 DEF StopAtTool, StartTool, ToolAborted, StopByToolHook, Step, End, IInv, TypeOK
  <2> QED
    BY <2>1, QuietRolls
<1>13. CASE DenyTool
  <2>1. pc = "tools" /\ pc' = pc /\ status' = status /\ AppendAll(<<ResultOf(tool)>>)
    BY <1>13 DEF DenyTool
  <2>2. <<ResultOf(tool)>> = [i \in 1 .. 1 |-> ResultOf(tool + i - 1)]
    <3>1. tool + 1 - 1 = tool
      BY DEF IInv, TypeOK
    <3>2. \A i \in 1 .. 1 : ResultOf(tool + i - 1) = ResultOf(tool)
      BY <3>1
    <3>3. [i \in 1 .. 1 |-> ResultOf(tool + i - 1)] = [i \in 1 .. 1 |-> ResultOf(tool)]
      BY <3>2
    <3> QED
      BY <3>3
  <2>3. AppendAll([i \in 1 .. 1 |-> ResultOf(tool + i - 1)])
    BY <2>1, <2>2
  <2> QED
    BY <1>11, <2>1, <2>3
<1>14. ASSUME NEW answered \in BOOLEAN, pc \in {"tools", "running"}, tool <= calls,
              Deliver(answered)
       PROVE  RollbackInv'
  <2> DEFINE last == IF SkipsRest(execPending \o QueueHead) THEN calls ELSE tool
             n    == last - tool + 1
  <2>1. /\ pc' = "tools" /\ status' = status
        /\ AppendAll([i \in 1 .. n |-> ResultOf(tool + i - 1)])
    BY <1>14 DEF Deliver, Step
  <2>2. last \in tool .. calls
    BY <1>14 DEF IInv, TypeOK
  <2> HIDE DEF last
  <2>3. n \in Nat
    BY <2>2 DEF IInv, TypeOK
  <2> HIDE DEF n
  <2> QED
    BY <1>11, <1>14, <2>1, <2>3
<1>15. ASSUME NEW answered \in BOOLEAN, RespondForTool(answered) PROVE RollbackInv'
  BY <1>14, <1>15 DEF RespondForTool
<1>16. ASSUME NEW answered \in BOOLEAN, ToolReturns(answered) PROVE RollbackInv'
  BY <1>14, <1>16 DEF ToolReturns, IInv
<1>17. CASE ToolsDone
  <2>1. /\ pc = "tools" /\ status' = status
        /\ \/ pc' = "delivered" /\ AppendAll(<<FinalMessage>>)
           \/ pc' = "loop" /\ UNCHANGED store
    BY <1>17 DEF ToolsDone, Step
  <2>2. <<FinalMessage>> \in Seq(Known) /\ status = "running"
    BY <2>1, MessageTypes DEF IInv, TypeOK
  <2> QED
    BY <2>1, <2>2, StoreRolls, QuietRolls
<1>18. CASE LoopStep
  BY <1>3, <1>4, <1>5, <1>6, <1>7, <1>18 DEF LoopStep
<1>19. CASE CallStep
  BY <1>8, <1>9, <1>10, <1>19
<1>20. CASE ToolStep
  BY <1>12, <1>13, <1>15, <1>16, <1>17, <1>20 DEF ToolStep
<1> QED
  BY <1>1, <1>2, <1>18, <1>19, <1>20 DEF Next, TurnStep, Outside

\* An abort leaves the session as it was before the turn, and a turn never costs
\* it what it held, where the legacy manager compresses nothing: HardAbort cuts
\* back to the old length, and the retry without media, which sets the store to the
\* history as it was assembled, takes the restore point again from that.
THEOREM RollbackSafety ==
  ASSUME DefaultAgent, ~OverBudget, "context" \notin Failures
  PROVE  Spec => []RollbackComplete
<1>1. Init => RollbackInv
  <2>1. \A i \in DOMAIN OldHistory : i <= Len(OldHistory)
    BY OldHistoryType, LenProperties
  <2> QED
    BY <2>1, EmptySeq DEF Init, RollbackInv, RollbackComplete
<1>2. IInv /\ ShownInv /\ Begun /\ RollbackInv /\ [Next]_vars => RollbackInv'
  BY RollbackStep
<1>3. RollbackInv => RollbackComplete
  BY DEF RollbackInv
<1> QED
  BY <1>1, <1>2, <1>3, Basics, PTL DEF Spec

-------------------------------------------------------------------------------
(* A history that is shown as it is stored keeps being so as it grows.         *)

LEMMA AppendToConcat ==
  ASSUME NEW A, NEW g \in Seq(A), NEW h \in Seq(A), NEW m \in A
  PROVE  g \o Append(h, m) = Append(g \o h, m)
<1>1. Append(h, m) = h \o <<m>>
  BY AppendIsConcat
<1>2. <<m>> \in Seq(A) /\ g \o h \in Seq(A)
  BY ConcatProperties
<1>3. Append(g \o h, m) = (g \o h) \o <<m>>
  BY <1>2, AppendIsConcat
<1> QED
  BY <1>1, <1>2, <1>3, ConcatAssociative

\* Only the places in the history matter to a selection.
LEMMA SelectedSame ==
  ASSUME NEW A, NEW h \in Seq(A), NEW S, NEW R,
         \A i \in 1 .. Len(h) : i \in S <=> i \in R
  PROVE  Selected(h, S) = Selected(h, R)
<1> DEFINE T == {r \in Seq(A) : (\A i \in 1 .. Len(r) : i \in S <=> i \in R)
                                  => Selected(r, S) = Selected(r, R)}
<1>1. <<>> \in T
  BY SelectedEmpty, EmptySeq
<1>2. ASSUME NEW r \in Seq(A), NEW m \in A, r \in T PROVE Append(r, m) \in T
  <2>1. PICK n \in Nat : n = Len(r)
    BY LenProperties
  <2>2. Append(r, m) \in Seq(A) /\ Len(Append(r, m)) = n + 1
    BY <2>1, AppendProperties
  <2>3. ASSUME \A i \in 1 .. n + 1 : i \in S <=> i \in R
        PROVE  Selected(Append(r, m), S) = Selected(Append(r, m), R)
    <3>1. \A i \in 1 .. n : i \in 1 .. n + 1
      OBVIOUS
    <3>2. Selected(r, S) = Selected(r, R)
      BY <1>2, <2>1, <2>3, <3>1
    <3>3. n + 1 \in S <=> n + 1 \in R
      BY <2>3
    <3>4. Selected(Append(r, m), S)
            = IF n + 1 \in S THEN Append(Selected(r, S), m) ELSE Selected(r, S)
      BY <2>1, SelectedAppend
    <3>5. Selected(Append(r, m), R)
            = IF n + 1 \in R THEN Append(Selected(r, R), m) ELSE Selected(r, R)
      BY <2>1, SelectedAppend
    <3> QED
      BY <3>2, <3>3, <3>4, <3>5
  <2> QED
    BY <2>2, <2>3
<1>3. Seq(A) \subseteq T
  <2> HIDE DEF T
  <2> QED
    BY <1>1, <1>2, SeqInduction
<1> QED
  BY <1>3

\* A part of the history that is selected as a whole.
LEMMA SelectedConcat ==
  ASSUME NEW A, NEW g \in Seq(A), NEW h \in Seq(A), NEW S, NEW n \in Nat, n = Len(g),
         \A i \in 1 .. Len(h) : n + i \in S
  PROVE  Selected(g \o h, S) = Selected(g, S) \o h
<1> DEFINE T == {r \in Seq(A) : (\A i \in 1 .. Len(r) : n + i \in S)
                                  => Selected(g \o r, S) = Selected(g, S) \o r}
<1>1. <<>> \in T
  <2>1. Selected(g, S) \in Seq(A) /\ <<>> \in Seq(A)
    BY SelectedPlaces, EmptySeq
  <2>2. g \o <<>> = g /\ Selected(g, S) \o <<>> = Selected(g, S)
    BY <2>1, ConcatEmptySeq
  <2> QED
    BY <2>1, <2>2
<1>2. ASSUME NEW r \in Seq(A), NEW m \in A, r \in T PROVE Append(r, m) \in T
  <2>1. PICK l \in Nat : l = Len(r)
    BY LenProperties
  <2>2. Append(r, m) \in Seq(A) /\ Len(Append(r, m)) = l + 1
    BY <2>1, AppendProperties
  <2>3. ASSUME \A i \in 1 .. l + 1 : n + i \in S
        PROVE  Selected(g \o Append(r, m), S) = Selected(g, S) \o Append(r, m)
    <3>1. \A i \in 1 .. l : i \in 1 .. l + 1
      OBVIOUS
    <3>2. Selected(g \o r, S) = Selected(g, S) \o r
      BY <1>2, <2>1, <2>3, <3>1
    <3>3. g \o r \in Seq(A) /\ Len(g \o r) = n + l
      BY <2>1, ConcatProperties
    <3>4. g \o Append(r, m) = Append(g \o r, m)
      BY AppendToConcat
    <3>5. n + l + 1 \in S
      <4>1. n + (l + 1) \in S /\ n + (l + 1) = n + l + 1
        BY <2>3
      <4> QED
        BY <4>1
    <3>6. Selected(Append(g \o r, m), S) = Append(Selected(g \o r, S), m)
      BY <3>3, <3>5, SelectedAppend
    <3>7. Selected(g, S) \in Seq(A)
      BY SelectedPlaces
    <3>8. Selected(g, S) \o Append(r, m) = Append(Selected(g, S) \o r, m)
      BY <3>7, AppendToConcat
    <3> QED
      BY <3>2, <3>4, <3>6, <3>8
  <2> QED
    BY <2>2, <2>3
<1>3. Seq(A) \subseteq T
  <2> HIDE DEF T
  <2> QED
    BY <1>1, <1>2, SeqInduction
<1>4. h \in T
  BY <1>3
<1> QED
  BY <1>4

\* Messages that are neither calls nor results pass the first pass.
LEMMA FirstPassPlain ==
  ASSUME NEW g \in Seq(Known), NEW h \in Seq(Known),
         \A i \in 1 .. Len(h) : h[i].of # "call" /\ h[i].role \in {"user", "assistant"}
  PROVE  FirstPass(g \o h) = FirstPass(g) \o h
<1> DEFINE T == {r \in Seq(Known) :
                   (\A i \in 1 .. Len(r) :
                      r[i].of # "call" /\ r[i].role \in {"user", "assistant"})
                     => FirstPass(g \o r) = FirstPass(g) \o r}
<1>1. <<>> \in T
  <2>1. FirstPass(g) \in Seq(Known) /\ <<>> \in Seq(Known)
    BY FirstPassType, EmptySeq
  <2>2. g \o <<>> = g /\ FirstPass(g) \o <<>> = FirstPass(g)
    BY <2>1, ConcatEmptySeq
  <2> QED
    BY <2>1, <2>2
<1>2. ASSUME NEW r \in Seq(Known), NEW m \in Known, r \in T PROVE Append(r, m) \in T
  <2>1. PICK l \in Nat : l = Len(r)
    BY LenProperties
  <2>2. /\ Append(r, m) \in Seq(Known) /\ Len(Append(r, m)) = l + 1
        /\ Append(r, m)[l + 1] = m /\ \A i \in 1 .. l : Append(r, m)[i] = r[i]
    BY <2>1, AppendProperties
  <2>3. ASSUME \A i \in 1 .. l + 1 :
                 Append(r, m)[i].of # "call" /\ Append(r, m)[i].role \in {"user", "assistant"}
        PROVE  FirstPass(g \o Append(r, m)) = FirstPass(g) \o Append(r, m)
    <3>1. \A i \in 1 .. l : i \in 1 .. l + 1
      OBVIOUS
    <3>2. FirstPass(g \o r) = FirstPass(g) \o r
      BY <1>2, <2>1, <2>2, <2>3, <3>1
    <3>3. g \o r \in Seq(Known) /\ FirstPass(g) \in Seq(Known)
      BY ConcatProperties, FirstPassType
    <3>4. g \o Append(r, m) = Append(g \o r, m)
      BY AppendToConcat
    <3>5. m.of # "call" /\ m.role \in {"user", "assistant"}
      <4>1. l + 1 \in 1 .. l + 1
        OBVIOUS
      <4> QED
        BY <2>2, <2>3, <4>1
    <3>6. Follows(m, FirstPass(g \o r))
      BY <3>5 DEF Follows
    <3>7. FirstPass(Append(g \o r, m)) = Append(FirstPass(g \o r), m)
      BY <3>3, <3>6, FirstPassAppend
    <3>8. FirstPass(g) \o Append(r, m) = Append(FirstPass(g) \o r, m)
      BY <3>3, AppendToConcat
    <3> QED
      BY <3>2, <3>4, <3>7, <3>8
  <2> QED
    BY <2>2, <2>3
<1>3. Seq(Known) \subseteq T
  <2> HIDE DEF T
  <2> QED
    BY <1>1, <1>2, SeqInduction
<1>4. h \in T
  BY <1>3
<1> QED
  BY <1>4

\* A call would be shown after this history.
Ready(h) == FirstPass(h) # <<>> /\ Last(FirstPass(h)).role \in {"user", "tool"}

LEMMA BatchNext ==
  ASSUME NEW base \in Seq(Known), NEW done \in Nat, iteration \in Nat, calls \in Nat
  PROVE  /\ base \o Batch(done + 1) = Append(base \o Batch(done), ResultOf(done + 1))
         /\ ResultOf(done + 1) \in Known /\ base \o Batch(done) \in Seq(Known)
<1> DEFINE new == [i \in 1 .. 1 |-> ResultOf(done + i)]
<1>1. (base \o Batch(done)) \o new = base \o Batch(done + 1)
  BY BatchGrows
<1>2. new = <<ResultOf(done + 1)>>
  <2>1. \A i \in 1 .. 1 : ResultOf(done + i) = ResultOf(done + 1)
    OBVIOUS
  <2>2. new = [i \in 1 .. 1 |-> ResultOf(done + 1)]
    BY <2>1
  <2> QED
    BY <2>2
<1> HIDE DEF new
<1>3. ResultOf(done + 1) \in Known
  <2>1. done + 1 \in Nat
    OBVIOUS
  <2> QED
    BY <2>1 DEF ResultOf, Message, Known
<1>4. base \o Batch(done) \in Seq(Known)
  BY BatchType, ConcatProperties
<1>5. Append(base \o Batch(done), ResultOf(done + 1))
        = (base \o Batch(done)) \o <<ResultOf(done + 1)>>
  BY <1>3, <1>4, AppendIsConcat
<1> QED
  BY <1>1, <1>2, <1>3, <1>4, <1>5

LEMMA ToolFollows ==
  ASSUME NEW m, NEW shown, NEW i \in DOMAIN shown, m.role = "tool", m.of # "call",
         shown[i].of = "call", i + 1 .. Len(shown) \subseteq ToolBlock(shown, i)
  PROVE  Follows(m, shown)
<1>1. m.role # "system"
  OBVIOUS
<1> QED
  BY <1>1 DEF Follows

\* A result is looked for its call behind the results before it.
LEMMA ResultFollows ==
  ASSUME NEW f \in Seq(Known), NEW done \in Nat, iteration \in Nat, calls \in Nat
  PROVE  Follows(ResultOf(done + 1), f \o Batch(done))
<1> DEFINE b == Batch(done)
           shown == f \o b
<1>1. /\ b \in Seq(Known) /\ Len(b) = done + 1 /\ b[1] = CallMessage(calls)
      /\ \A j \in 2 .. done + 1 : b[j] = ResultOf(j - 1)
  BY BatchType
<1> HIDE DEF b
<1>2. PICK n \in Nat : n = Len(f)
  BY LenProperties
<1>3. PICK e \in Nat : e = done + 1
  OBVIOUS
<1>4. /\ Len(shown) = n + e /\ DOMAIN shown = 1 .. n + e
      /\ \A i \in 1 .. e : shown[n + i] = b[i]
  <2>1. e = Len(b)
    BY <1>1, <1>3
  <2>2. /\ Len(f \o b) = n + e /\ DOMAIN (f \o b) = 1 .. n + e
        /\ \A i \in 1 .. e : (f \o b)[n + i] = b[i]
    <3> HIDE DEF shown
    <3>1. b \in Seq(Known)
      BY <1>1
    <3> QED
      BY <1>2, <2>1, <3>1, ConcatPlaces
  <2> QED
    BY <2>2
<1> HIDE DEF shown
<1>5. /\ CallMessage(calls).of = "call"
      /\ \A k : ResultOf(k).role = "tool" /\ ResultOf(k).of # "call"
  BY DEF CallMessage, ResultOf, Message
<1>6. n + 1 \in DOMAIN shown /\ shown[n + 1].of = "call"
  <2>1. 1 \in 1 .. e /\ n + 1 \in 1 .. n + e
    BY <1>3
  <2> QED
    BY <1>1, <1>4, <1>5, <2>1
<1>7. ASSUME NEW j \in n + 1 + 1 .. Len(shown) PROVE j \in ToolBlock(shown, n + 1)
  <2>1. ASSUME NEW l \in n + 1 + 1 .. j PROVE shown[l].role = "tool"
    <3>1. l - n \in 1 .. e /\ l - n \in 2 .. done + 1 /\ n + (l - n) = l
      BY <1>3, <1>4, <2>1
    <3>2. shown[n + (l - n)] = b[l - n]
      BY <1>4, <3>1
    <3>3. b[l - n] = ResultOf((l - n) - 1)
      BY <1>1, <3>1
    <3> QED
      BY <1>5, <3>1, <3>2, <3>3
  <2> QED
    BY <1>4, <2>1, ToolBlockIs
<1>8. n + 1 + 1 .. Len(shown) \subseteq ToolBlock(shown, n + 1)
  BY <1>7
<1>9. ResultOf(done + 1).role = "tool" /\ ResultOf(done + 1).of # "call"
  BY <1>5
<1>10. Follows(ResultOf(done + 1), shown)
  BY <1>6, <1>8, <1>9, ToolFollows
<1> QED
  BY <1>10 DEF shown, b

LEMMA FirstPassBatch ==
  ASSUME NEW g \in Seq(Known), Ready(g), NEW done \in Nat, iteration \in Nat, calls \in Nat
  PROVE  FirstPass(g \o Batch(done)) = FirstPass(g) \o Batch(done)
<1> DEFINE f == FirstPass(g)
           T == {d \in Nat : FirstPass(g \o Batch(d)) = f \o Batch(d)}
<1>1. f \in Seq(Known)
  BY FirstPassType
<1>2. Follows(CallMessage(calls), f)
  <2>1. CallMessage(calls).role = "assistant" /\ CallMessage(calls).of = "call"
    BY DEF CallMessage, Message
  <2> QED
    BY <2>1 DEF Ready, Follows
<1> HIDE DEF f
<1>3. 0 \in T
  <2>1. Batch(0) = <<CallMessage(calls)>> /\ CallMessage(calls) \in Known
    <3>1. Batch(0) = [j \in 1 .. 1 |-> CallMessage(calls)]
      BY DEF Batch
    <3> QED
      BY <3>1 DEF CallMessage, Message, Known
  <2>2. /\ g \o Batch(0) = Append(g, CallMessage(calls))
        /\ f \o Batch(0) = Append(f, CallMessage(calls))
    BY <1>1, <2>1, AppendIsConcat
  <2>3. FirstPass(Append(g, CallMessage(calls))) = Append(f, CallMessage(calls))
    BY <1>2, <2>1, FirstPassAppend DEF f
  <2> QED
    BY <2>2, <2>3
<1>4. ASSUME NEW d \in Nat, d \in T PROVE d + 1 \in T
  <2>1. FirstPass(g \o Batch(d)) = f \o Batch(d)
    BY <1>4
  <2>2. /\ g \o Batch(d + 1) = Append(g \o Batch(d), ResultOf(d + 1))
        /\ ResultOf(d + 1) \in Known /\ g \o Batch(d) \in Seq(Known)
    BY BatchNext
  <2>3. f \o Batch(d + 1) = Append(f \o Batch(d), ResultOf(d + 1))
    BY <1>1, BatchNext
  <2>4. Follows(ResultOf(d + 1), f \o Batch(d))
    BY <1>1, ResultFollows
  <2>5. FirstPass(Append(g \o Batch(d), ResultOf(d + 1)))
          = Append(f \o Batch(d), ResultOf(d + 1))
    BY <2>1, <2>2, <2>4, FirstPassAppend
  <2>6. FirstPass(g \o Batch(d + 1)) = f \o Batch(d + 1)
    BY <2>2, <2>3, <2>5, Zenon
  <2>7. d + 1 \in Nat
    OBVIOUS
  <2> QED
    BY <2>6, <2>7
<1>5. Nat \subseteq T
  <2> HIDE DEF T
  <2> QED
    BY <1>3, <1>4, Induction
<1>6. done \in T
  BY <1>5
<1> QED
  BY <1>6 DEF f

\* All of a batch that is over is shown.
LEMMA BatchShown ==
  ASSUME iteration \in Nat, calls \in Nat, NEW i \in 1 .. calls + 1
  PROVE  i \in ShownPlaces(Batch(calls))
<1> DEFINE b == Batch(calls)
<1>1. /\ b \in Seq(Known) /\ Len(b) = calls + 1 /\ b[1] = CallMessage(calls)
      /\ \A j \in 2 .. calls + 1 : b[j] = ResultOf(j - 1)
  BY BatchType
<1>2. Paired(b)
  BY PairedBatch
<1> HIDE DEF b
<1>3. DOMAIN b = 1 .. calls + 1
  BY <1>1, LenProperties
<1>4. /\ b[1].of = "call" /\ b[1].n = iteration /\ b[1].k = calls
      /\ \A j \in 2 .. calls + 1 :
           /\ b[j].role = "tool" /\ b[j].of = "result"
           /\ b[j].n = iteration /\ b[j].k = j - 1
  <2>1. \A k : /\ ResultOf(k).role = "tool" /\ ResultOf(k).of = "result"
               /\ ResultOf(k).n = iteration /\ ResultOf(k).k = k
    BY DEF ResultOf, Message
  <2>2. \A k : /\ CallMessage(k).of = "call"
               /\ CallMessage(k).n = iteration /\ CallMessage(k).k = k
    BY DEF CallMessage, Message
  <2> QED
    BY <1>1, <2>1, <2>2
<1>5. 1 \in DOMAIN b /\ AllAnswered(b, 1)
  BY <1>2, <1>3, <1>4 DEF Paired
<1>6. CASE i = 1
  BY <1>4, <1>5, <1>6 DEF ShownPlaces, b
<1>7. CASE i # 1
  <2>1. i \in 2 .. calls + 1 /\ 1 \in 1 .. i - 1
    BY <1>7
  <2>2. i \in ToolBlock(b, 1)
    BY <1>1, <1>4, <2>1 DEF ToolBlock
  <2>3. Answers(b[i], b[1])
    BY <1>4, <2>1 DEF Answers
  <2>4. ASSUME NEW l \in 1 + 1 .. i - 1 PROVE b[l] # b[i]
    <3>1. l \in 2 .. calls + 1
      BY <2>1
    <3>2. b[l].k = l - 1 /\ b[i].k = i - 1 /\ l - 1 # i - 1
      BY <1>4, <2>1, <2>4, <3>1
    <3> QED
      BY <3>2
  <2>5. ShownResult(b, i)
    BY <1>4, <1>5, <2>1, <2>2, <2>3, <2>4 DEF ShownResult
  <2>6. b[i].of # "call"
    BY <1>4, <2>1
  <2> QED
    BY <1>3, <2>5, <2>6 DEF ShownPlaces, b
<1> QED
  BY <1>6, <1>7

\* The places that are shown stay, and those of the second part come to them.
LEMMA ShownStays ==
  ASSUME NEW f \in Seq(Known), NEW h \in Seq(Known), NEW n \in Nat, NEW e \in Nat,
         n = Len(f), e = Len(h), h # <<>> => h[1].role # "tool", NEW i \in 1 .. n
  PROVE  i \in ShownPlaces(f \o h) <=> i \in ShownPlaces(f)
<1> DEFINE both == f \o h
<1>1. /\ DOMAIN both = 1 .. n + e /\ \A l \in 1 .. n : both[l] = f[l]
      /\ \A l \in 1 .. n : ToolBlock(both, l) = ToolBlock(f, l)
  <2>1. DOMAIN both = 1 .. n + e /\ \A l \in 1 .. n : both[l] = f[l]
    BY ConcatPlaces
  <2>2. ASSUME NEW l \in 1 .. n PROVE ToolBlock(both, l) = ToolBlock(f, l)
    BY BlocksJoin
  <2> QED
    BY <2>1, <2>2
<1>2. DOMAIN f = 1 .. n
  BY LenProperties
<1> HIDE DEF both
<1>3. \A l \in 1 .. n : ToolBlock(f, l) \subseteq 1 .. n
  BY ToolBlockIs
<1>4. ASSUME NEW l \in 1 .. n PROVE AllAnswered(both, l) <=> AllAnswered(f, l)
  <2>1. ToolBlock(both, l) = ToolBlock(f, l) /\ both[l] = f[l]
    BY <1>1
  <2>2. \A j \in ToolBlock(f, l) : both[j] = f[j]
    BY <1>1, <1>3
  <2> QED
    BY <2>1, <2>2 DEF AllAnswered
<1>5. ShownResult(both, i) <=> ShownResult(f, i)
  <2>1. \A l \in 1 .. i - 1 : l \in 1 .. n
    OBVIOUS
  <2>2. ASSUME NEW o \in 1 .. i - 1
        PROVE  (\A l \in o + 1 .. i - 1 : both[l] # both[i])
                 <=> (\A l \in o + 1 .. i - 1 : f[l] # f[i])
    <3>1. \A l \in o + 1 .. i - 1 : l \in 1 .. n
      OBVIOUS
    <3> QED
      BY <1>1, <3>1
  <2>3. ASSUME NEW o \in 1 .. i - 1
        PROVE  /\ both[o] = f[o] /\ both[i] = f[i]
               /\ AllAnswered(both, o) <=> AllAnswered(f, o)
               /\ ToolBlock(both, o) = ToolBlock(f, o)
    BY <1>1, <1>4, <2>1
  <2> QED
    BY <2>2, <2>3 DEF ShownResult
<1>6. i \in DOMAIN both /\ i \in DOMAIN f /\ both[i] = f[i]
  BY <1>1, <1>2
<1>7. i \in ShownPlaces(both) <=> i \in ShownPlaces(f)
  BY <1>4, <1>5, <1>6 DEF ShownPlaces
<1> QED
  BY <1>7 DEF both

LEMMA ShownMoves ==
  ASSUME NEW f \in Seq(Known), NEW h \in Seq(Known), NEW n \in Nat, NEW e \in Nat,
         n = Len(f), e = Len(h), h # <<>> => h[1].role # "tool",
         NEW i \in 1 .. e, i \in ShownPlaces(h)
  PROVE  n + i \in ShownPlaces(f \o h)
<1> DEFINE both == f \o h
<1>1. /\ DOMAIN both = 1 .. n + e /\ \A l \in 1 .. e : both[n + l] = h[l]
      /\ \A l \in 1 .. e : /\ ToolBlock(both, n + l) = Moved(n, ToolBlock(h, l))
                           /\ ToolBlock(h, l) \subseteq 1 .. e
  <2>1. /\ DOMAIN both = 1 .. n + e /\ Len(both) = n + e
        /\ \A l \in 1 .. e : both[n + l] = h[l]
    BY ConcatPlaces
  <2> HIDE DEF both
  <2>2. ASSUME NEW l \in 1 .. e
        PROVE  /\ ToolBlock(both, n + l) = Moved(n, ToolBlock(h, l))
               /\ ToolBlock(h, l) \subseteq 1 .. e
    <3>1. MovesWith(both, n, h, l)
      BY <2>1, BlockMoves
    <3> QED
      BY <3>1 DEF MovesWith
  <2> QED
    BY <2>1, <2>2
<1> HIDE DEF both
<1>2. n + i \in DOMAIN both /\ both[n + i] = h[i]
  BY <1>1
<1>3. ASSUME NEW l \in 1 .. e, AllAnswered(h, l) PROVE AllAnswered(both, n + l)
  <2>1. both[n + l] = h[l]
    BY <1>1
  <2>2. ASSUME NEW k \in 1 .. h[l].k
        PROVE  \E j \in ToolBlock(both, n + l) :
                 Answers(both[j], both[n + l]) /\ both[j].k = k
    <3>1. PICK j \in ToolBlock(h, l) : Answers(h[j], h[l]) /\ h[j].k = k
      BY <1>3 DEF AllAnswered
    <3>2. j \in 1 .. e
      BY <1>1
    <3>3. both[n + j] = h[j]
      BY <1>1, <3>2
    <3>4. n + j \in ToolBlock(both, n + l)
      BY <1>1 DEF Moved
    <3> QED
      BY <2>1, <3>1, <3>3, <3>4
  <2> QED
    BY <2>1, <2>2 DEF AllAnswered
<1>4. CASE h[i].of = "call"
  <2>1. AllAnswered(h, i)
    BY <1>4 DEF ShownPlaces
  <2>2. AllAnswered(both, n + i)
    BY <1>3, <2>1
  <2> QED
    BY <1>2, <1>4, <2>2 DEF ShownPlaces, both
<1>5. CASE h[i].of # "call" /\ h[i].role # "tool"
  BY <1>2, <1>5 DEF ShownPlaces, both
<1>6. CASE h[i].of # "call" /\ h[i].role = "tool"
  <2>1. ShownResult(h, i)
    BY <1>6 DEF ShownPlaces
  <2>2. PICK o \in 1 .. i - 1 :
          /\ h[o].of = "call" /\ AllAnswered(h, o)
          /\ i \in ToolBlock(h, o) /\ Answers(h[i], h[o])
          /\ \A l \in o + 1 .. i - 1 : h[l] # h[i]
    BY <2>1 DEF ShownResult
  <2>3. o \in 1 .. e /\ n + o \in 1 .. n + i - 1
    OBVIOUS
  <2>4. both[n + o] = h[o] /\ AllAnswered(both, n + o)
    BY <1>1, <1>3, <2>2, <2>3
  <2>5. n + i \in ToolBlock(both, n + o)
    BY <1>1, <2>2, <2>3 DEF Moved
  <2>6. ASSUME NEW l \in n + o + 1 .. n + i - 1 PROVE both[l] # both[n + i]
    <3>1. l - n \in o + 1 .. i - 1 /\ l - n \in 1 .. e /\ n + (l - n) = l
      BY <2>3
    <3>2. both[n + (l - n)] = h[l - n]
      BY <1>1, <3>1
    <3>3. h[l - n] # h[i]
      BY <2>2, <3>1
    <3> QED
      BY <1>2, <3>1, <3>2, <3>3
  <2>7. ShownResult(both, n + i)
    BY <1>2, <2>2, <2>3, <2>4, <2>5, <2>6 DEF ShownResult
  <2> QED
    BY <1>2, <1>6, <2>7 DEF ShownPlaces, both
<1> QED
  BY <1>4, <1>5, <1>6

\* What is stored and passes both passes is shown behind what was shown before.
LEMMA SanitizeJoin ==
  ASSUME NEW g \in Seq(Known), NEW h \in Seq(Known), h # <<>> => h[1].role # "tool",
         \A i \in 1 .. Len(h) : i \in ShownPlaces(h),
         FirstPass(g \o h) = FirstPass(g) \o h
  PROVE  Sanitize(g \o h) = Sanitize(g) \o h
<1> DEFINE f == FirstPass(g)
           both == f \o h
<1>1. f \in Seq(Known)
  BY FirstPassType
<1>2. /\ Sanitize(g) = Selected(f, ShownPlaces(f))
      /\ Sanitize(g \o h) = Selected(both, ShownPlaces(both))
  BY SanitizeIs
<1> HIDE DEF f
<1>3. PICK n \in Nat : n = Len(f)
  BY <1>1, LenProperties
<1>4. PICK e \in Nat : e = Len(h)
  BY LenProperties
<1>5. \A i \in 1 .. n : i \in ShownPlaces(both) <=> i \in ShownPlaces(f)
  BY <1>1, <1>3, <1>4, ShownStays
<1>6. \A i \in 1 .. e : n + i \in ShownPlaces(both)
  BY <1>1, <1>3, <1>4, ShownMoves
<1> DEFINE S == ShownPlaces(both)
<1>7. \A i \in 1 .. n : i \in S <=> i \in ShownPlaces(f)
  BY <1>5
<1>8. \A i \in 1 .. e : n + i \in S
  BY <1>6
<1>9. Sanitize(g \o h) = Selected(f \o h, S)
  BY <1>2
<1> HIDE DEF S
<1>10. Selected(f \o h, S) = Selected(f, S) \o h
  BY <1>1, <1>3, <1>4, <1>8, SelectedConcat
<1>11. Selected(f, S) = Selected(f, ShownPlaces(f))
  BY <1>1, <1>3, <1>7, SelectedSame
<1> QED
  BY <1>2, <1>9, <1>10, <1>11

\* Messages of the user are shown as they are stored, and a call may follow them.
LEMMA PlainJoins ==
  ASSUME NEW g \in Seq(Known), NEW h \in Seq(Known),
         \A i \in DOMAIN h : h[i].of # "call" /\ h[i].role = "user"
  PROVE  /\ Sanitize(g \o h) = Sanitize(g) \o h
         /\ h # <<>> => Ready(g \o h)
         /\ h = <<>> => g \o h = g
<1>1. PICK e \in Nat : e = Len(h) /\ DOMAIN h = 1 .. e
  BY LenProperties
<1>2. \A i \in 1 .. e :
        h[i].of # "call" /\ h[i].role = "user" /\ h[i].role \in {"user", "assistant"}
  BY <1>1
<1>3. FirstPass(g \o h) = FirstPass(g) \o h
  BY <1>1, <1>2, FirstPassPlain
<1>4. \A i \in 1 .. e : i \in ShownPlaces(h)
  BY <1>1, <1>2 DEF ShownPlaces
<1>5. h # <<>> => e > 0
  BY <1>1, EmptySeq
<1>6. h # <<>> => h[1].role # "tool"
  <2>1. e > 0 => 1 \in 1 .. e
    OBVIOUS
  <2> QED
    BY <1>2, <1>5, <2>1
<1>7. Sanitize(g \o h) = Sanitize(g) \o h
  BY <1>1, <1>3, <1>4, <1>6, SanitizeJoin
<1>8. ASSUME h # <<>> PROVE Ready(g \o h)
  <2>1. FirstPass(g) \in Seq(Known)
    BY FirstPassType
  <2>2. PICK n \in Nat : n = Len(FirstPass(g))
    BY <2>1, LenProperties
  <2> DEFINE f == FirstPass(g) \o h
  <2>3. /\ f \in Seq(Known) /\ Len(f) = n + e /\ \A i \in 1 .. e : f[n + i] = h[i]
    BY <1>1, <2>1, <2>2, ConcatPlaces
  <2> HIDE DEF f
  <2>4. Last(f) = h[e] /\ e \in 1 .. e
    BY <1>5, <1>8, <2>3 DEF Last
  <2>5. f # <<>>
    BY <1>5, <1>8, <2>3, EmptySeq
  <2>6. FirstPass(g \o h) = f
    BY <1>3 DEF f
  <2> QED
    BY <1>2, <2>4, <2>5, <2>6 DEF Ready
<1>9. h = <<>> => g \o h = g
  BY ConcatEmptySeq
<1> QED
  BY <1>7, <1>8, <1>9

\* So is a batch that is over, in a history that a call may follow.
LEMMA BatchJoins ==
  ASSUME NEW g \in Seq(Known), Ready(g), iteration \in Nat, calls \in Nat, calls > 0
  PROVE  Sanitize(g \o Batch(calls)) = Sanitize(g) \o Batch(calls) /\ Ready(g \o Batch(calls))
<1> DEFINE b == Batch(calls)
<1>1. /\ b \in Seq(Known) /\ Len(b) = calls + 1 /\ b[1] = CallMessage(calls)
      /\ \A j \in 2 .. calls + 1 : b[j] = ResultOf(j - 1)
  BY BatchType
<1>2. FirstPass(g \o b) = FirstPass(g) \o b
  BY FirstPassBatch
<1>3. \A i \in 1 .. calls + 1 : i \in ShownPlaces(b)
  BY BatchShown
<1> HIDE DEF b
<1>4. b[1].role # "tool" /\ b[calls + 1].role = "tool"
  <2>1. CallMessage(calls).role = "assistant" /\ ResultOf(calls + 1 - 1).role = "tool"
    BY DEF CallMessage, ResultOf, Message
  <2>2. calls + 1 \in 2 .. calls + 1
    OBVIOUS
  <2> QED
    BY <1>1, <2>1, <2>2
<1>5. Sanitize(g \o b) = Sanitize(g) \o b
  BY <1>1, <1>2, <1>3, <1>4, SanitizeJoin
<1>6. Ready(g \o b)
  <2>1. FirstPass(g) \in Seq(Known)
    BY FirstPassType
  <2>2. PICK n \in Nat : n = Len(FirstPass(g))
    BY <2>1, LenProperties
  <2>3. PICK e \in Nat : e = calls + 1
    OBVIOUS
  <2>4. e = Len(b) /\ b \in Seq(Known)
    BY <1>1, <2>3
  <2> DEFINE f == FirstPass(g) \o b
  <2>5. /\ f \in Seq(Known) /\ Len(f) = n + e /\ \A i \in 1 .. e : f[n + i] = b[i]
    BY <2>1, <2>2, <2>4, ConcatPlaces
  <2> HIDE DEF f
  <2>6. Last(f) = b[e]
    BY <2>3, <2>5 DEF Last
  <2>7. f # <<>>
    BY <2>3, <2>5, EmptySeq
  <2> QED
    BY <1>2, <1>4, <2>3, <2>6, <2>7 DEF Ready, f
<1> QED
  BY <1>5, <1>6 DEF b

\* What is stored is shown, and a call may follow it; while tools run that is so of
\* what comes before the batch.  Only the turn of Continue may begin at a history
\* that no call can follow, and then it has a message to inject.
StoredInv ==
  /\ pc = "setup" => iteration = 0 /\ (Continued => pending # <<>>)
  /\ pc \in {"loop", "call", "provider", "backoff"} =>
       /\ messages = Sanitize(history)
       /\ Ready(history) \/ (iteration = 0 /\ Continued /\ pending # <<>>)
  /\ pc \in {"tools", "running"} =>
       /\ calls > 0
       /\ \E base \in Seq(Known) :
            /\ Ready(base)
            /\ history = base \o Batch(tool - 1)
            /\ messages = Sanitize(base) \o Batch(tool - 1)

LEMMA QuietStored ==
  ASSUME StoredInv, UNCHANGED <<messages, history, iteration, pending, calls, tool>>,
         pc' = "setup" => pc = "setup",
         pc' \in {"loop", "call", "provider", "backoff"} =>
           pc \in {"loop", "call", "provider", "backoff"},
         pc' \in {"tools", "running"} => pc \in {"tools", "running"}
  PROVE  StoredInv'
<1>1. Batch(tool - 1)' = Batch(tool - 1)
  BY DEF Batch, CallMessage, ResultOf
<1>2. Ready(history)' = Ready(history) /\ Sanitize(history)' = Sanitize(history)
  BY DEF Ready
<1>3. pc' = "setup" => (iteration = 0 /\ (Continued => pending # <<>>))'
  BY DEF StoredInv
<1>4. pc' \in {"loop", "call", "provider", "backoff"} =>
        /\ messages' = Sanitize(history)'
        /\ Ready(history)' \/ (iteration = 0 /\ Continued /\ pending # <<>>)'
  BY <1>2 DEF StoredInv
<1>5. pc' \in {"tools", "running"} =>
        /\ calls' > 0
        /\ \E base \in Seq(Known) :
             /\ Ready(base)
             /\ history' = base \o Batch(tool - 1)'
             /\ messages' = Sanitize(base) \o Batch(tool - 1)'
  BY <1>1 DEF StoredInv
<1> QED
  BY <1>3, <1>4, <1>5 DEF StoredInv

\* A step after which neither a call nor a tool comes.
LEMMA StoredIsOver ==
  ASSUME pc' \in {"finalize", "delivered", "abort", "ended"}
  PROVE  StoredInv'
BY DEF StoredInv

LEMMA StoredSetup ==
  ASSUME DefaultAgent, IInv, ShownInv, StoredInv, NEW over \in BOOLEAN, SetupTurn(over)
  PROVE  StoredInv'
<1> DEFINE base == IF over THEN Compacted(history) ELSE history
           root == IF Continued THEN <<>> ELSE <<UserMessage>>
<1>1. /\ pc = "setup" /\ pc' = "loop" /\ UNCHANGED <<iteration, pending>>
      /\ history' = base \o root /\ messages' = Sanitize(base) \o root
  BY DEF SetupTurn, Step, Assembled, steering
<1>2. history \in Seq(Known)
  BY <1>1 DEF ShownInv
<1>3. base \in Seq(Known)
  BY <1>2, AssembledType
<1>4. root \in Seq(Known) /\ \A i \in DOMAIN root : root[i].of # "call" /\ root[i].role = "user"
  <2>1. CASE Continued
    BY <2>1, EmptySeq
  <2>2. CASE ~Continued
    <3>1. UserMessage.of # "call" /\ UserMessage.role = "user"
      BY DEF UserMessage, Message
    <3>2. \A i \in DOMAIN <<UserMessage>> : <<UserMessage>>[i] = UserMessage
      OBVIOUS
    <3> QED
      BY <2>2, <3>1, <3>2, MessageTypes DEF IInv, TypeOK
  <2> QED
    BY <2>1, <2>2
<1>5. ~Continued => root # <<>>
  OBVIOUS
<1> HIDE DEF base, root
<1>6. /\ Sanitize(base \o root) = Sanitize(base) \o root
      /\ root # <<>> => Ready(base \o root)
  BY <1>3, <1>4, PlainJoins
<1>7. messages' = Sanitize(history') /\ (~Continued => Ready(history'))
  BY <1>1, <1>5, <1>6
<1>8. Continued => (iteration = 0 /\ pending # <<>>)'
  BY <1>1 DEF StoredInv
<1> QED
  BY <1>1, <1>7, <1>8 DEF StoredInv, Ready

LEMMA StoredBegin ==
  ASSUME IInv, ShownInv, StoredInv, BeginIteration
  PROVE  StoredInv'
<1> DEFINE first  == iteration = 0
           polls  == first /\ ~Continued
           rest   == IF ~first THEN execPending ELSE IF polls THEN QueueHead ELSE <<>>
           inject == pending \o rest
           new    == [i \in DOMAIN inject |-> SteerMessage(inject[i])]
<1>1. pc = "loop" /\ pc' = "call" /\ AppendAll(new)
  BY DEF BeginIteration, Step
<1>2. pending \in Seq(Numbers) /\ rest \in Seq(Numbers)
  <2>1. pending \in Seq(Numbers) /\ execPending \in Seq(Numbers) /\ queue \in Seq(Numbers)
    BY DEF IInv, TypeOK
  <2>2. QueueHead \in Seq(Numbers) /\ <<>> \in Seq(Numbers)
    BY <2>1, QueueSplit, EmptySeq
  <2> QED
    BY <2>1, <2>2
<1> HIDE DEF rest
<1>3. inject \in Seq(Numbers) /\ Len(inject) = Len(pending) + Len(rest)
  BY <1>2, ConcatProperties
<1>4. pending # <<>> => inject # <<>>
  <2>1. Len(pending) \in Nat /\ Len(rest) \in Nat /\ (pending # <<>> => Len(pending) # 0)
    BY <1>2, EmptySeq, LenProperties
  <2> QED
    BY <1>3, <2>1, EmptySeq
<1> HIDE DEF inject
<1>5. /\ new \in Seq(Known) /\ Len(new) = Len(inject)
      /\ \A i \in DOMAIN new : new[i].of # "call" /\ new[i].role = "user"
  BY <1>3, SteeringKnown
<1> HIDE DEF new
<1>6. inject # <<>> => new # <<>>
  BY <1>3, <1>5, EmptySeq
<1>7. history \in Seq(Known) /\ messages = Sanitize(history)
  BY <1>1 DEF ShownInv, StoredInv
<1>8. history' = history \o new /\ messages' = messages \o new
  BY <1>1, <1>5, Appended
<1>9. /\ Sanitize(history \o new) = Sanitize(history) \o new
      /\ new # <<>> => Ready(history \o new)
      /\ new = <<>> => history \o new = history
  BY <1>5, <1>7, PlainJoins
<1>10. messages' = Sanitize(history')
  BY <1>7, <1>8, <1>9
<1>11. Ready(history')
  <2>1. CASE new # <<>>
    BY <1>8, <1>9, <2>1
  <2>2. CASE new = <<>>
    <3>1. pending = <<>>
      BY <1>4, <1>6, <2>2
    <3>2. Ready(history)
      BY <1>1, <3>1 DEF StoredInv
    <3> QED
      BY <1>8, <1>9, <2>2, <3>2
  <2> QED
    BY <2>1, <2>2
<1> QED
  BY <1>1, <1>10, <1>11 DEF StoredInv, Ready

LEMMA StoredCalls ==
  ASSUME IInv, ShownInv, Begun, StoredInv, NEW k \in 1 .. MaxCalls, AsksForTools(k)
  PROVE  StoredInv'
<1>1. /\ pc = "provider" /\ pc' = "tools" /\ AppendAll(<<CallMessage(k)>>)
      /\ calls' = k /\ tool' = 1 /\ iteration' = iteration
  BY DEF AsksForTools, Step
<1>2. <<CallMessage(k)>> \in Seq(Known)
  BY MessageTypes DEF IInv, TypeOK
<1>3. history' = history \o <<CallMessage(k)>> /\ messages' = messages \o <<CallMessage(k)>>
  BY <1>1, <1>2, Appended
<1>4. Batch(tool - 1)' = <<CallMessage(k)>>
  <2>1. (tool - 1)' = 0
    BY <1>1
  <2>2. CallMessage(calls)' = CallMessage(k)
    BY <1>1 DEF CallMessage
  <2>3. Batch(tool - 1)' = [j \in 1 .. 1 |-> CallMessage(k)]
    BY <2>1, <2>2 DEF Batch
  <2> QED
    BY <2>3
<1>5. history \in Seq(Known) /\ messages = Sanitize(history) /\ Ready(history)
  BY <1>1 DEF ShownInv, StoredInv, Begun
<1>6. calls' > 0
  BY <1>1
<1> QED
  BY <1>1, <1>3, <1>4, <1>5, <1>6 DEF StoredInv

LEMMA StoredResults ==
  ASSUME IInv, ShownInv, StoredInv, pc \in {"tools", "running"}, pc' = "tools",
         NEW n \in Nat, tool' = tool + n,
         UNCHANGED <<iteration, calls>>,
         AppendAll([i \in 1 .. n |-> ResultOf(tool + i - 1)])
  PROVE  StoredInv'
<1> DEFINE new == [i \in 1 .. n |-> ResultOf(tool + i - 1)]
<1>1. PICK done \in Nat : done = tool - 1
  <2>1. tool - 1 \in Nat
    BY DEF IInv, TypeOK
  <2> QED
    BY <2>1
<1>2. tool = done + 1 /\ tool' - 1 = done + n /\ tool \in Nat
  BY <1>1 DEF IInv, TypeOK
<1>3. iteration \in Nat /\ calls \in Nat
  BY TurnLoopAssumption DEF IInv, TypeOK
<1>4. PICK base \in Seq(Known) :
        /\ Ready(base)
        /\ history = base \o Batch(done)
        /\ messages = Sanitize(base) \o Batch(done)
  BY <1>1 DEF StoredInv
<1>5. new = [i \in 1 .. n |-> ResultOf(done + i)]
  <2>1. \A i \in 1 .. n : tool + i - 1 = done + i
    BY <1>2
  <2> QED
    BY <2>1
<1>6. Sanitize(base) \in Seq(Known)
  BY SanitizePaired
<1>7. /\ new \in Seq(Known)
      /\ (base \o Batch(done)) \o new = base \o Batch(done + n)
      /\ (Sanitize(base) \o Batch(done)) \o new = Sanitize(base) \o Batch(done + n)
  <2> DEFINE next == [i \in 1 .. n |-> ResultOf(done + i)]
  <2>1. next \in Seq(Known) /\ (base \o Batch(done)) \o next = base \o Batch(done + n)
    BY <1>3, BatchGrows
  <2>2. (Sanitize(base) \o Batch(done)) \o next = Sanitize(base) \o Batch(done + n)
    BY <1>3, <1>6, BatchGrows
  <2> HIDE DEF next
  <2>3. new = next
    BY <1>5 DEF next
  <2> QED
    BY <2>1, <2>2, <2>3
<1> HIDE DEF new
<1>8. history' = history \o new /\ messages' = messages \o new
  <2>1. pc # "ended" /\ AppendAll(new)
    BY DEF new
  <2> QED
    BY <1>7, <2>1, Appended
<1>9. history' = base \o Batch(done + n) /\ messages' = Sanitize(base) \o Batch(done + n)
  BY <1>4, <1>7, <1>8
<1>10. Batch(tool - 1)' = Batch(done + n)
  BY <1>2 DEF Batch, CallMessage, ResultOf
<1>11. calls' > 0
  BY DEF StoredInv
<1> QED
  BY <1>4, <1>9, <1>10, <1>11 DEF StoredInv

LEMMA StoredTool ==
  ASSUME IInv, ShownInv, StoredInv, ToolStep
  PROVE  StoredInv'
<1>1. CASE StopAtTool \/ ToolAborted \/ \E hook \in HookActions : StopByToolHook(hook)
  <2>1. pc' \in {"abort", "ended"}
    BY <1>1 DEF StopAtTool, ToolAborted, StopByToolHook, Step, End
  <2> QED
    BY <2>1, StoredIsOver
<1>2. CASE DenyTool
  <2>1. /\ pc = "tools" /\ pc' = pc /\ tool' = tool + 1
        /\ AppendAll(<<ResultOf(tool)>>) /\ UNCHANGED <<iteration, calls>>
    BY <1>2 DEF DenyTool
  <2>2. <<ResultOf(tool)>> = [i \in 1 .. 1 |-> ResultOf(tool + i - 1)]
    <3>1. tool + 1 - 1 = tool
      BY DEF IInv, TypeOK
    <3>2. \A i \in 1 .. 1 : ResultOf(tool + i - 1) = ResultOf(tool)
      BY <3>1
    <3>3. [i \in 1 .. 1 |-> ResultOf(tool + i - 1)] = [i \in 1 .. 1 |-> ResultOf(tool)]
      BY <3>2
    <3> QED
      BY <3>3
  <2>3. AppendAll([i \in 1 .. 1 |-> ResultOf(tool + i - 1)])
    BY <2>1, <2>2
  <2> QED
    BY <2>1, <2>3, StoredResults
<1>3. ASSUME NEW answered \in BOOLEAN, pc \in {"tools", "running"}, tool <= calls,
             Deliver(answered)
      PROVE  StoredInv'
  <2> DEFINE last == IF SkipsRest(execPending \o QueueHead) THEN calls ELSE tool
             n    == last - tool + 1
  <2>1. /\ pc' = "tools" /\ tool' = last + 1 /\ UNCHANGED <<iteration, calls>>
        /\ AppendAll([i \in 1 .. n |-> ResultOf(tool + i - 1)])
    BY <1>3 DEF Deliver, Step
  <2>2. last \in tool .. calls
    BY <1>3 DEF IInv, TypeOK
  <2> HIDE DEF last
  <2>3. n \in Nat /\ tool' = tool + n
    BY <2>1, <2>2 DEF IInv, TypeOK
  <2> HIDE DEF n
  <2> QED
    BY <1>3, <2>1, <2>3, StoredResults
<1>4. ASSUME NEW answered \in BOOLEAN, RespondForTool(answered) PROVE StoredInv'
  BY <1>3, <1>4 DEF RespondForTool
<1>5. ASSUME NEW answered \in BOOLEAN, ToolReturns(answered) PROVE StoredInv'
  BY <1>3, <1>5 DEF ToolReturns, IInv
<1>6. CASE StartTool
  <2>1. pc = "tools" /\ pc' = "running"
    BY <1>6 DEF StartTool, Step
  <2> QED
    BY <1>6, <2>1, QuietStored DEF StartTool, store, steering, batch
<1>7. CASE ToolsDone
  <2>1. /\ pc = "tools" /\ tool > calls
        /\ \/ pc' = "delivered"
           \/ pc' = "loop" /\ UNCHANGED <<messages, store>>
    BY <1>7 DEF ToolsDone, Step
  <2>2. CASE pc' = "delivered"
    BY <2>2, StoredIsOver
  <2>3. CASE pc' = "loop" /\ UNCHANGED <<messages, store>>
    <3>1. iteration \in Nat /\ calls \in Nat /\ tool - 1 = calls /\ calls > 0
      BY <2>1, TurnLoopAssumption DEF IInv, TypeOK, StoredInv
    <3>2. PICK base \in Seq(Known) :
            /\ Ready(base)
            /\ history = base \o Batch(calls)
            /\ messages = Sanitize(base) \o Batch(calls)
      BY <2>1, <3>1 DEF StoredInv
    <3>3. messages = Sanitize(history) /\ Ready(history)
      BY <3>1, <3>2, BatchJoins
    <3>4. messages' = Sanitize(history') /\ Ready(history')
      BY <2>3, <3>3 DEF store
    <3> QED
      BY <2>3, <3>4 DEF StoredInv, Ready
  <2> QED
    BY <2>1, <2>2, <2>3
<1> QED
  BY <1>1, <1>2, <1>4, <1>5, <1>6, <1>7 DEF ToolStep

LEMMA StoredStep ==
  ASSUME DefaultAgent, "context" \notin Failures, "vision" \notin Failures,
         "rollback" \notin Interrupts,
         IInv, ShownInv, Begun, StoredInv, [Next]_vars
  PROVE  StoredInv'
<1>1. CASE UNCHANGED vars \/ Push \/ InterruptGraceful \/ InterruptHard
  <2>1. UNCHANGED <<pc, messages, history, iteration, pending, calls, tool>>
    BY <1>1 DEF vars, store, steering, batch, Push, InterruptGraceful, InterruptHard
  <2> QED
    BY <2>1, QuietStored
<1>2. ~HardAbort /\ ~RetryWithoutMedia /\ ~RetryCompressed
  BY DEF HardAbort, RetryWithoutMedia, RetryCompressed
<1>3. CASE LeaveLoop \/ AbortAtLoop \/ AbortTurn \/ Finalize \/ FinalizeHandled
  <2>1. pc' \in {"abort", "finalize", "ended"}
    BY <1>3 DEF LeaveLoop, AbortAtLoop, AbortTurn, Finalize, FinalizeHandled, Step, End
  <2> QED
    BY <2>1, StoredIsOver
<1>4. CASE LoopStep
  BY <1>3, <1>4, StoredSetup, StoredBegin DEF LoopStep
<1>5. ASSUME NEW hook, StartCall(hook) PROVE StoredInv'
  <2>1. pc = "call" /\ pc' \in {"provider", "abort", "ended"}
    BY <1>5 DEF StartCall, Step, End
  <2> QED
    BY <1>5, <2>1, QuietStored DEF StartCall, store, steering, batch
<1>6. CASE \/ ProviderCanceled \/ WaitAfterTimeout \/ ProviderFails
           \/ BackoffOver \/ BackoffAborted
           \/ \E hook \in HookActions : StopAfterCall(hook)
  <2>1. /\ pc \in {"provider", "backoff"}
        /\ pc' \in {"abort", "backoff", "ended", "provider", "finalize"}
        /\ UNCHANGED <<messages, history, iteration, pending, calls, tool>>
    BY <1>6 DEF ProviderCanceled, WaitAfterTimeout, ProviderFails, BackoffOver,
                BackoffAborted, StopAfterCall, Step, End, store, steering, batch
  <2> QED
    BY <2>1, QuietStored
<1>7. CASE AnswersDirectly
  <2>1. /\ pc = "provider" /\ pc' \in {"loop", "finalize"}
        /\ UNCHANGED <<messages, history, iteration>>
    BY <1>7 DEF AnswersDirectly, Step, store
  <2>2. messages = Sanitize(history) /\ Ready(history)
    BY <2>1 DEF StoredInv, Begun
  <2> QED
    BY <2>1, <2>2 DEF StoredInv, Ready
<1>8. CASE CallStep
  BY <1>2, <1>5, <1>6, <1>7, <1>8, StoredCalls DEF CallStep
<1> QED
  BY <1>1, <1>2, <1>4, <1>8, StoredTool DEF Next, TurnStep, Outside

\* The provider is shown what is stored: every message that is appended to what it
\* is shown is one that the passes of the sanitizer would show behind the others.
\* The steps that set the store to something else are excluded: a compression, the
\* retry without media, HardAbort; so is an agent that is shown another's store.
THEOREM StoredIsShown ==
  ASSUME DefaultAgent, "context" \notin Failures, "vision" \notin Failures,
         "rollback" \notin Interrupts
  PROVE  Spec => []ContextIsStored
<1>1. Init => StoredInv
  BY DEF Init, StoredInv
<1>2. IInv /\ ShownInv /\ Begun /\ StoredInv /\ [Next]_vars => StoredInv'
  BY StoredStep
<1>3. StoredInv => ContextIsStored
  BY DEF StoredInv, ContextIsStored
<1> QED
  BY <1>1, <1>2, <1>3, Basics, PTL DEF Spec

--------------------------------------------------------------------------------
(* The same operators on whatever history is stored (LegacyContext).           *)

\* A history is what is before a cut and what is kept.
LEMMA SplitAt ==
  ASSUME NEW h \in Seq(Known), NEW n \in Nat, n = Len(h), NEW t \in 0 .. n
  PROVE  /\ SubSeq(h, 1, t) \in Seq(Known) /\ Len(SubSeq(h, 1, t)) = t
         /\ Keep(h, t) \in Seq(Known) /\ Len(Keep(h, t)) = n - t
         /\ \A i \in 1 .. n - t : Keep(h, t)[i] = h[t + i]
         /\ h = SubSeq(h, 1, t) \o Keep(h, t)
<1> DEFINE g == SubSeq(h, 1, t)
           s == Keep(h, t)
<1>1. \A i \in 1 .. n : h[i] \in Known
  BY ElementOfSeq
<1>2. /\ g \in Seq(Known) /\ Len(g) = t
      /\ \A i \in 1 .. t : g[i] = h[i]
  <2>1. \A i \in 1 .. t : h[i] \in Known
    BY <1>1
  <2>2. /\ g \in Seq(Known)
        /\ Len(g) = IF 1 <= t THEN t - 1 + 1 ELSE 0
        /\ \A i \in 1 .. t - 1 + 1 : g[i] = h[1 + i - 1]
    BY <2>1, SubSeqProperties
  <2> QED
    BY <2>2
<1>3. /\ s \in Seq(Known) /\ Len(s) = n - t
      /\ \A i \in 1 .. n - t : s[i] = h[t + i]
  <2>1. \A i \in t + 1 .. n : h[i] \in Known
    BY <1>1
  <2>2. /\ s \in Seq(Known)
        /\ Len(s) = IF t + 1 <= n THEN n - (t + 1) + 1 ELSE 0
        /\ \A i \in 1 .. n - (t + 1) + 1 : s[i] = h[(t + 1) + i - 1]
    BY <2>1, SubSeqProperties DEF Keep
  <2>3. \A i \in 1 .. n - t : s[i] = h[t + i]
    <3>1. \A i \in 1 .. n - t : i \in 1 .. n - (t + 1) + 1 /\ (t + 1) + i - 1 = t + i
      OBVIOUS
    <3> QED
      BY <2>2, <3>1
  <2> QED
    BY <2>2, <2>3
<1> HIDE DEF g, s
<1>4. /\ g \o s \in Seq(Known) /\ Len(g \o s) = t + (n - t)
      /\ \A i \in 1 .. t + (n - t) : (g \o s)[i] = IF i <= t THEN g[i] ELSE s[i - t]
  BY <1>2, <1>3, ConcatProperties
<1>5. ASSUME NEW i \in 1 .. n PROVE (g \o s)[i] = h[i]
  <2>1. CASE i <= t
    BY <1>2, <1>4, <2>1
  <2>2. CASE i > t
    <3>1. i - t \in 1 .. n - t /\ t + (i - t) = i
      BY <2>2
    <3> QED
      BY <1>3, <1>4, <2>2, <3>1
  <2>3. i <= t \/ i > t
    OBVIOUS
  <2> QED
    BY <2>1, <2>2, <2>3
<1>6. h = g \o s
  <2>1. Len(g \o s) = n
    BY <1>4
  <2> QED
    BY <1>4, <1>5, <2>1, SeqEqual
<1> QED
  BY <1>2, <1>3, <1>6 DEF g, s

\* What follows another history, and does not begin with a result, has its results if
\* both together have (the converse of PairedJoin).
LEMMA PairedEnd ==
  ASSUME NEW g \in Seq(Known), NEW s \in Seq(Known), Paired(g \o s),
         s # <<>> => s[1].role # "tool"
  PROVE  Paired(s)
<1> DEFINE h == g \o s
<1>1. PICK t \in Nat : t = Len(g)
  BY LenProperties
<1>2. PICK e \in Nat : e = Len(s)
  BY LenProperties
<1>3. /\ h \in Seq(Known) /\ Len(h) = t + e /\ DOMAIN h = 1 .. t + e
      /\ \A i \in 1 .. e : h[t + i] = s[i]
  BY <1>1, <1>2, ConcatPlaces
<1>4. DOMAIN s = 1 .. e
  BY <1>2, LenProperties
<1>0. Paired(h)
  OBVIOUS
<1> HIDE DEF h
<1>5. ASSUME NEW i \in 1 .. e
      PROVE  /\ ToolBlock(h, t + i) = Moved(t, ToolBlock(s, i))
             /\ ToolBlock(s, i) \subseteq 1 .. e
  <2>1. MovesWith(h, t, s, i)
    BY <1>2, <1>3, BlockMoves
  <2> QED
    BY <1>2, <2>1 DEF MovesWith
<1>6. ASSUME NEW i \in 1 .. e, s[i].of = "call"
      PROVE  AllAnswered(s, i) /\ Cardinality(ToolBlock(s, i)) = s[i].k
  <2>1. s[i] = h[t + i] /\ t + i \in DOMAIN h
    BY <1>3
  <2>2. AllAnswered(h, t + i) /\ Cardinality(ToolBlock(h, t + i)) = s[i].k
    BY <1>0, <1>6, <2>1 DEF Paired
  <2>3. ToolBlock(h, t + i) = Moved(t, ToolBlock(s, i)) /\ ToolBlock(s, i) \subseteq 1 .. e
    BY <1>5
  <2>4. Cardinality(ToolBlock(h, t + i)) = Cardinality(ToolBlock(s, i))
    <3>1. IsFiniteSet(1 .. e)
      BY FS_Interval
    <3>2. IsFiniteSet(ToolBlock(s, i))
      BY <2>3, <3>1, FS_Subset
    <3>3. ToolBlock(s, i) \in SUBSET Nat
      BY <2>3
    <3> QED
      BY <1>2, <2>3, <3>2, <3>3, Shifted
  <2>5. AllAnswered(s, i)
    <3>1. ASSUME NEW o \in ToolBlock(h, t + i)
          PROVE  \E j \in ToolBlock(s, i) : h[o] = s[j]
      <4>1. PICK j \in ToolBlock(s, i) : o = t + j
        BY <2>3 DEF Moved
      <4> QED
        BY <1>3, <2>3, <4>1
    <3>2. ASSUME NEW k \in 1 .. s[i].k
          PROVE  \E j \in ToolBlock(s, i) : Answers(s[j], s[i]) /\ s[j].k = k
      <4>1. PICK o \in ToolBlock(h, t + i) : Answers(h[o], s[i]) /\ h[o].k = k
        BY <2>1, <2>2 DEF AllAnswered
      <4> QED
        BY <3>1, <4>1
    <3> QED
      BY <3>2 DEF AllAnswered
  <2> QED
    BY <2>2, <2>4, <2>5
<1>7. ASSUME NEW j \in 1 .. e, s[j].role = "tool"
      PROVE  \E i \in 1 .. j - 1 :
               s[i].of = "call" /\ j \in ToolBlock(s, i) /\ Answers(s[j], s[i])
  <2>1. s[j] = h[t + j] /\ t + j \in DOMAIN h
    BY <1>3
  <2>2. PICK o \in 1 .. (t + j) - 1 :
          h[o].of = "call" /\ t + j \in ToolBlock(h, o) /\ Answers(h[t + j], h[o])
    BY <1>0, <1>7, <2>1 DEF Paired
  <2>3. \A l \in o + 1 .. t + j : h[l].role = "tool"
    BY <2>2, ToolBlockIs
  <2>4. h[t + 1].role # "tool"
    <3>1. 1 \in 1 .. e /\ s # <<>>
      BY <1>2, EmptySeq
    <3> QED
      BY <1>3, <3>1
  <2>5. o > t
    <3>1. t + 1 \in Int /\ t + 1 <= t + j /\ o \in Int
      OBVIOUS
    <3>2. ~(o + 1 <= t + 1)
      BY <2>3, <2>4, <3>1
    <3> QED
      BY <3>1, <3>2
  <2>6. PICK i \in 1 .. j - 1 : o = t + i
    <3>1. o - t \in 1 .. j - 1 /\ o = t + (o - t)
      BY <2>5
    <3> QED
      BY <3>1
  <2>7. i \in 1 .. e /\ h[o] = s[i]
    BY <1>3, <2>6
  <2>8. j \in ToolBlock(s, i)
    <3>1. PICK l \in ToolBlock(s, i) : t + j = t + l
      BY <1>5, <2>2, <2>6, <2>7 DEF Moved
    <3>2. l \in 1 .. e
      BY <1>5, <2>7
    <3> QED
      BY <3>1, <3>2
  <2> QED
    BY <2>1, <2>2, <2>7, <2>8
<1>8. Paired(s)
  BY <1>4, <1>6, <1>7 DEF Paired
<1> QED
  BY <1>8

\* A cut at a message that is no result takes no call from its results.
LEMMA SuffixPaired ==
  ASSUME NEW h \in Seq(Known), Paired(h), NEW n \in Nat, n = Len(h),
         NEW t \in 0 .. n, t < n => h[t + 1].role # "tool"
  PROVE  Paired(Keep(h, t))
<1> DEFINE g == SubSeq(h, 1, t)
           s == Keep(h, t)
<1>1. /\ g \in Seq(Known) /\ s \in Seq(Known) /\ Len(s) = n - t
      /\ \A i \in 1 .. n - t : s[i] = h[t + i]
      /\ h = g \o s
  BY SplitAt
<1> HIDE DEF g, s
<1>2. s # <<>> => s[1].role # "tool"
  <2>1. s # <<>> => n - t > 0
    BY <1>1, EmptySeq
  <2>2. n - t > 0 => t < n /\ 1 \in 1 .. n - t
    OBVIOUS
  <2> QED
    BY <1>1, <2>1, <2>2
<1>3. Paired(s)
  BY <1>1, <1>2, PairedEnd
<1> QED
  BY <1>3 DEF s

\* A history kept as it is, cut or reduced to the message of its one turn.
LEMMA SpanIs ==
  ASSUME NEW h \in Seq(Known), NEW n \in Nat, n = Len(h), n > 2, TurnBoundaries(h) # {}
  PROVE  LET top == Highest(TurnBoundaries(h))
         IN  /\ top \in TurnBoundaries(h) /\ \A t \in TurnBoundaries(h) : t <= top
             /\ \/ /\ CompressionCut(h) \in TurnBoundaries(h) /\ CompressionCut(h) > 0
                   /\ ForceCompression(h) = Keep(h, CompressionCut(h))
                \/ ForceCompression(h) = SubSeq(h, top + 1, top + 1)
<1> DEFINE bounds == TurnBoundaries(h)
           top    == Highest(bounds)
           cut    == CompressionCut(h)
<1>1. bounds \in SUBSET (0 .. n)
  BY DEF TurnBoundaries
<1>2. top \in bounds /\ \A t \in bounds : t <= top
  <2>1. bounds # {}
    OBVIOUS
  <2> HIDE DEF bounds
  <2> QED
    BY <1>1, <2>1, HighestIs
<1>3. cut \in bounds
  BY CutIs
<1>4. CASE cut > 0
  <2>1. CompressionSpan(h) = <<cut + 1, n>>
    BY <1>4 DEF CompressionSpan
  <2>2. ForceCompression(h) = Keep(h, cut)
    <3>1. CompressionSpan(h)[1] = cut + 1 /\ CompressionSpan(h)[2] = n
      BY <2>1
    <3>2. ForceCompression(h) = SubSeq(h, CompressionSpan(h)[1], CompressionSpan(h)[2])
      BY DEF ForceCompression
    <3> HIDE DEF cut
    <3> QED
      BY <3>1, <3>2 DEF Keep
  <2> QED
    BY <1>2, <1>3, <1>4, <2>2
<1>5. CASE ~(cut > 0)
  <2>1. CompressionSpan(h) = <<top + 1, top + 1>>
    BY <1>5 DEF CompressionSpan
  <2>2. ForceCompression(h) = SubSeq(h, top + 1, top + 1)
    <3>1. CompressionSpan(h)[1] = top + 1 /\ CompressionSpan(h)[2] = top + 1
      BY <2>1
    <3>2. ForceCompression(h) = SubSeq(h, CompressionSpan(h)[1], CompressionSpan(h)[2])
      BY DEF ForceCompression
    <3> HIDE DEF top
    <3> QED
      BY <3>1, <3>2
  <2> QED
    BY <1>2, <2>2
<1> QED
  BY <1>4, <1>5

\* Wherever a history is cut, by the summariser or by the emergency compression, no
\* call is separated from its results, for histories of any length; the compression
\* keeps the last message of the user and does make the history shorter.
THEOREM CutsArePaired ==
  ASSUME Messages(stored) \in Seq(Known)
  PROVE  CutsKeepPairs
<1> DEFINE h      == Messages(stored)
           bounds == TurnBoundaries(h)
           top    == Highest(bounds)
           kept   == ForceCompression(h)
<1>1. PICK n \in Nat : n = Len(h)
  BY LenProperties
<1>2. h \in Seq(Known)
  OBVIOUS
<1>3. bounds = {cut \in 0 .. n - 1 : h[cut + 1].role = "user"}
  BY <1>1 DEF TurnBoundaries
<1>4. CutsKeepPairs <=>
        (Paired(h) /\ bounds # {} =>
           /\ \A target \in 0 .. n : Paired(Keep(h, SafeBoundary(h, target)))
           /\ n > 2 => /\ Len(kept) < n
                       /\ Paired(kept)
                       /\ \E i \in DOMAIN kept : kept[i] = h[top + 1])
  BY <1>1 DEF CutsKeepPairs
<1> SUFFICES ASSUME Paired(h), bounds # {}
             PROVE  /\ \A target \in 0 .. n : Paired(Keep(h, SafeBoundary(h, target)))
                    /\ n > 2 => /\ Len(kept) < n
                                /\ Paired(kept)
                                /\ \E i \in DOMAIN kept : kept[i] = h[top + 1]
  BY <1>4
<1> HIDE DEF h
<1>5. ASSUME NEW t \in bounds PROVE t \in 0 .. n /\ t < n /\ h[t + 1].role # "tool"
  BY <1>3
<1> HIDE DEF bounds, top, kept
<1>6. ASSUME NEW t \in bounds PROVE Paired(Keep(h, t))
  BY <1>1, <1>2, <1>5, SuffixPaired
<1>7. ASSUME NEW target \in 0 .. n PROVE Paired(Keep(h, SafeBoundary(h, target)))
  <2> DEFINE cut == SafeBoundary(h, target)
  <2>1. cut \in bounds \cup {0, n}
    BY <1>1, <1>2, BoundaryIs DEF bounds
  <2> HIDE DEF cut
  <2>2. CASE cut \in bounds
    BY <1>6, <2>2 DEF cut
  <2>3. CASE cut = 0
    <3>1. Keep(h, 0) = h
      BY <1>1, <1>2, SubSeqFull DEF Keep
    <3> QED
      BY <2>3, <3>1 DEF cut
  <2>4. CASE cut = n
    <3>1. n \in 0 .. n /\ ~(n < n)
      OBVIOUS
    <3>2. Paired(Keep(h, n))
      BY <1>1, <1>2, <3>1, SuffixPaired
    <3> QED
      BY <2>4, <3>2 DEF cut
  <2> QED
    BY <2>1, <2>2, <2>3, <2>4
<1>8. ASSUME n > 2
      PROVE  Len(kept) < n /\ Paired(kept) /\ \E i \in DOMAIN kept : kept[i] = h[top + 1]
  <2> DEFINE cut == CompressionCut(h)
  <2>1. /\ top \in bounds /\ \A t \in bounds : t <= top
        /\ \/ cut \in bounds /\ cut > 0 /\ kept = Keep(h, cut)
           \/ kept = SubSeq(h, top + 1, top + 1)
    BY <1>1, <1>2, <1>8, SpanIs DEF bounds, top, kept
  <2> HIDE DEF cut
  <2>2. CASE cut \in bounds /\ cut > 0 /\ kept = Keep(h, cut)
    <3>1. cut \in 0 .. n /\ top \in 0 .. n /\ top < n /\ cut <= top
      BY <1>5, <2>1, <2>2
    <3>2. /\ kept \in Seq(Known) /\ Len(kept) = n - cut
          /\ \A i \in 1 .. n - cut : kept[i] = h[cut + i]
      BY <1>1, <1>2, <2>2, <3>1, SplitAt
    <3>3. (top - cut) + 1 \in 1 .. n - cut /\ cut + ((top - cut) + 1) = top + 1
      BY <3>1
    <3>4. DOMAIN kept = 1 .. n - cut
      BY <3>2, LenProperties
    <3>5. kept[(top - cut) + 1] = h[top + 1]
      BY <3>2, <3>3
    <3>6. Len(kept) < n /\ (top - cut) + 1 \in DOMAIN kept
      BY <2>2, <3>1, <3>2, <3>3, <3>4
    <3>7. Paired(kept)
      BY <1>6, <2>2
    <3> QED
      BY <3>5, <3>6, <3>7
  <2>3. CASE kept = SubSeq(h, top + 1, top + 1)
    <3>1. top \in 0 .. n - 1 /\ h[top + 1].role = "user"
      BY <1>3, <2>1
    <3>2. h[top + 1] \in Known
      BY <1>1, <1>2, <3>1, ElementOfSeq
    <3>3. /\ kept \in Seq(Known) /\ Len(kept) = 1 /\ kept[1] = h[top + 1]
      <4> DEFINE place == top + 1
      <4>1. place \in Int /\ \A i \in place .. place : h[i] \in Known
        BY <3>1, <3>2
      <4>2. place - place + 1 = 1 /\ place + 1 - 1 = place /\ 1 \in 1 .. 1 /\ place <= place
        BY <4>1
      <4> HIDE DEF place
      <4>3. /\ SubSeq(h, place, place) \in Seq(Known)
            /\ Len(SubSeq(h, place, place)) = IF place <= place THEN place - place + 1 ELSE 0
            /\ \A i \in 1 .. place - place + 1 : SubSeq(h, place, place)[i] = h[place + i - 1]
        BY <4>1, SubSeqProperties
      <4>4. kept = SubSeq(h, place, place)
        BY <2>3 DEF place
      <4>5. Len(kept) = 1 /\ kept \in Seq(Known) /\ kept[1] = h[place]
        BY <4>2, <4>3, <4>4
      <4> QED
        BY <4>5 DEF place
    <3>4. DOMAIN kept = 1 .. 1
      BY <3>3, LenProperties
    <3>5. \A i \in DOMAIN kept : kept[i].of # "call" /\ kept[i].role # "tool"
      <4>1. kept[1].of # "call" /\ kept[1].role # "tool"
        BY <3>1, <3>2, <3>3 DEF Known
      <4> QED
        BY <3>4, <4>1
    <3>6. Paired(kept)
      BY <3>5, PairedPlain
    <3> QED
      BY <1>8, <3>3, <3>4, <3>6
  <2> QED
    BY <2>1, <2>2, <2>3
<1> QED
  BY <1>7, <1>8

\* What the first pass leaves out of a history: nothing, when this holds of it.
Steady(h) ==
  \A i \in DOMAIN h :
    /\ h[i].role # "system"
    /\ h[i].of = "call" => i > 1 /\ h[i - 1].role \in {"user", "tool"}
    /\ h[i].role = "tool" => \E o \in 1 .. i - 1 :
                                h[o].of = "call" /\ \A l \in o + 1 .. i - 1 : h[l].role = "tool"

\* The message that follows is the one that the first pass lets follow.
LEMMA SteadyAppend ==
  ASSUME NEW h \in Seq(Known), NEW m \in Known
  PROVE  Steady(Append(h, m)) <=> Steady(h) /\ Follows(m, h)
<1> DEFINE t == Append(h, m)
<1>1. PICK n \in Nat : n = Len(h) /\ DOMAIN h = 1 .. n
  BY LenProperties
<1>2. /\ t \in Seq(Known) /\ Len(t) = n + 1 /\ t[n + 1] = m
      /\ \A i \in 1 .. n : t[i] = h[i]
  BY <1>1, AppendProperties
<1>3. DOMAIN t = 1 .. n + 1
  BY <1>2, LenProperties
<1> HIDE DEF t
<1> DEFINE Fits(s, i) ==
             /\ s[i].role # "system"
             /\ s[i].of = "call" => i > 1 /\ s[i - 1].role \in {"user", "tool"}
             /\ s[i].role = "tool" => \E o \in 1 .. i - 1 :
                  s[o].of = "call" /\ \A l \in o + 1 .. i - 1 : s[l].role = "tool"
<1>4. \A i \in 1 .. n : Fits(t, i) <=> Fits(h, i)
  <2> SUFFICES ASSUME NEW i \in 1 .. n PROVE Fits(t, i) <=> Fits(h, i)
    OBVIOUS
  <2>1. t[i] = h[i]
    BY <1>2
  <2>2. i > 1 => t[i - 1] = h[i - 1]
    <3>1. i > 1 => i - 1 \in 1 .. n
      OBVIOUS
    <3> QED
      BY <1>2, <3>1
  <2>3. \A o \in 1 .. i - 1 : t[o] = h[o] /\ \A l \in o + 1 .. i - 1 : t[l] = h[l]
    <3>1. \A o \in 1 .. i - 1 : o \in 1 .. n /\ \A l \in o + 1 .. i - 1 : l \in 1 .. n
      OBVIOUS
    <3> QED
      BY <1>2, <3>1
  <2> QED
    BY <2>1, <2>2, <2>3
<1>5. Fits(t, n + 1) <=> Follows(m, h)
  <2>1. (n + 1) - 1 = n /\ t[n + 1] = m /\ \A o \in 1 .. n : t[o] = h[o]
    BY <1>2
  <2>2. m.of = "call" => m.role = "assistant"
    BY DEF Known
  <2>3. CASE m.role = "system"
    <3>1. ~Follows(m, h)
      BY <2>2, <2>3 DEF Follows
    <3> QED
      BY <2>1, <2>3, <3>1
  <2>4. CASE m.role = "tool"
    <3>1. Follows(m, h) <=> \E i \in 1 .. n :
                              h[i].of = "call" /\ i + 1 .. n \subseteq ToolBlock(h, i)
      BY <1>1, <2>2, <2>4 DEF Follows
    <3>2. ASSUME NEW i \in 1 .. n
          PROVE  i + 1 .. n \subseteq ToolBlock(h, i) <=> \A l \in i + 1 .. n : h[l].role = "tool"
      BY <1>1 DEF ToolBlock
    <3>3. \A i \in 1 .. n : \A l \in i + 1 .. n : t[l] = h[l]
      BY <2>1
    <3>4. Fits(t, n + 1) <=>
            \E i \in 1 .. n : h[i].of = "call" /\ \A l \in i + 1 .. n : h[l].role = "tool"
      BY <2>1, <2>2, <2>4, <3>3
    <3> HIDE DEF Fits
    <3> QED
      BY <3>1, <3>2, <3>4
  <2>5. CASE m.role # "system" /\ m.role # "tool"
    <3>1. h # <<>> <=> n > 0
      BY <1>1, EmptySeq
    <3>2. n > 0 => Last(h) = h[n] /\ n \in 1 .. n
      BY <1>1 DEF Last
    <3>3. Follows(m, h) <=> (m.of = "call" => n > 0 /\ h[n].role \in {"user", "tool"})
      BY <2>5, <3>1, <3>2 DEF Follows
    <3>4. n > 0 => t[n] = h[n]
      BY <2>1, <3>2
    <3>5. Fits(t, n + 1) <=> (m.of = "call" => n > 0 /\ h[n].role \in {"user", "tool"})
      BY <2>1, <2>5, <3>4
    <3> HIDE DEF Fits
    <3> QED
      BY <3>3, <3>5
  <2> QED
    BY <2>3, <2>4, <2>5
<1>6. Steady(t) <=> \A i \in 1 .. n + 1 : Fits(t, i)
  BY <1>3 DEF Steady
<1>7. Steady(h) <=> \A i \in 1 .. n : Fits(h, i)
  BY <1>1 DEF Steady
<1> HIDE DEF Fits
<1>8. \A i \in 1 .. n + 1 : i \in 1 .. n \/ i = n + 1
  OBVIOUS
<1>9. n + 1 \in 1 .. n + 1 /\ \A i \in 1 .. n : i \in 1 .. n + 1
  OBVIOUS
<1>10. Steady(t) <=> Steady(h) /\ Follows(m, h)
  BY <1>4, <1>5, <1>6, <1>7, <1>8, <1>9
<1> QED
  BY <1>10 DEF t

LEMMA SteadyEmpty == Steady(<<>>)
BY DEF Steady

\* The first pass leaves a steady history, and leaves a steady history as it is.
LEMMA FirstPassSteady ==
  ASSUME NEW h \in Seq(Known)
  PROVE  Steady(FirstPass(h)) /\ (Steady(h) => FirstPass(h) = h)
<1> DEFINE T == {r \in Seq(Known) :
                   Steady(FirstPass(r)) /\ (Steady(r) => FirstPass(r) = r)}
<1>1. <<>> \in T
  BY FirstPassEmpty, SteadyEmpty, EmptySeq
<1>2. ASSUME NEW r \in Seq(Known), NEW m \in Known, r \in T PROVE Append(r, m) \in T
  <2>1. Append(r, m) \in Seq(Known)
    BY AppendProperties
  <2>2. FirstPass(r) \in Seq(Known)
    BY FirstPassType
  <2>3. Steady(FirstPass(r)) /\ (Steady(r) => FirstPass(r) = r)
    BY <1>2
  <2>4. FirstPass(Append(r, m))
          = IF Follows(m, FirstPass(r)) THEN Append(FirstPass(r), m) ELSE FirstPass(r)
    BY FirstPassAppend
  <2>5. Steady(FirstPass(Append(r, m)))
    BY <2>2, <2>3, <2>4, SteadyAppend
  <2>6. ASSUME Steady(Append(r, m)) PROVE FirstPass(Append(r, m)) = Append(r, m)
    <3>1. Steady(r) /\ Follows(m, r)
      BY <2>6, SteadyAppend
    <3> QED
      BY <2>3, <2>4, <3>1
  <2> QED
    BY <2>1, <2>5, <2>6
<1>3. Seq(Known) \subseteq T
  <2> HIDE DEF T
  <2> QED
    BY <1>1, <1>2, SeqInduction
<1>4. h \in T
  BY <1>3
<1> QED
  BY <1>4

\* Where every call has exactly its results, no result is there twice.
LEMMA PairedShown ==
  ASSUME NEW h \in Seq(Known), Paired(h), NEW j \in 1 .. Len(h)
  PROVE  j \in ShownPlaces(h)
<1>1. PICK n \in Nat : n = Len(h) /\ DOMAIN h = 1 .. n
  BY LenProperties
<1>2. CASE h[j].of = "call"
  BY <1>1, <1>2 DEF Paired, ShownPlaces
<1>3. CASE h[j].of # "call" /\ h[j].role = "tool"
  <2>1. PICK i \in 1 .. j - 1 :
          h[i].of = "call" /\ j \in ToolBlock(h, i) /\ Answers(h[j], h[i])
    BY <1>1, <1>3 DEF Paired
  <2> DEFINE B == ToolBlock(h, i)
             k == h[i].k
  <2>2. AllAnswered(h, i) /\ Cardinality(B) = k
    BY <1>1, <2>1 DEF Paired
  <2>3. B \subseteq 1 .. n /\ IsFiniteSet(B) /\ Cardinality(B) \in Nat
    <3>1. B \subseteq 1 .. n
      BY <1>1 DEF ToolBlock
    <3>2. IsFiniteSet(1 .. n)
      BY FS_Interval
    <3> HIDE DEF B
    <3> QED
      BY <3>1, <3>2, FS_Subset, FS_CardinalityType
  <2>4. ASSUME NEW l \in i + 1 .. j - 1, h[l] = h[j] PROVE FALSE
    <3>1. l \in B /\ l # j /\ j \in B
      BY <1>1, <2>1, <2>4 DEF ToolBlock
    <3>2. ASSUME NEW q \in 1 .. k
          PROVE  \E b \in B \ {l} : h[b].k = q
      <4>1. PICK b \in B : h[b].k = q
        BY <2>2 DEF AllAnswered
      <4>2. CASE b = l
        BY <2>4, <3>1, <4>1, <4>2
      <4> QED
        BY <4>1, <4>2
    <3> DEFINE f == [q \in 1 .. k |-> CHOOSE b \in B \ {l} : h[b].k = q]
    <3>3. \A q \in 1 .. k : f[q] \in B \ {l} /\ h[f[q]].k = q
      BY <3>2
    <3>4. f \in Injection(1 .. k, B \ {l})
      <4>1. f \in [1 .. k -> B \ {l}]
        BY <3>3
      <4>2. \A p, q \in 1 .. k : f[p] = f[q] => p = q
        BY <3>3
      <4> HIDE DEF f, B
      <4> QED
        BY <4>1, <4>2 DEF Injection, IsInjective
    <3> HIDE DEF f, B, k
    <3>5. IsFiniteSet(B \ {l}) /\ Cardinality(B \ {l}) = k - 1
      BY <2>2, <2>3, <3>1, FS_RemoveElement
    <3>6. k \in Nat
      BY <2>2, <2>3
    <3>7. Cardinality(1 .. k) = k
      <4>1. Cardinality(1 .. k) = IF 1 > k THEN 0 ELSE k - 1 + 1
        BY <3>6, FS_Interval
      <4> QED
        BY <3>6, <4>1
    <3>8. Cardinality(1 .. k) <= Cardinality(B \ {l})
      BY <3>4, <3>5, FS_Injection
    <3> QED
      BY <3>5, <3>6, <3>7, <3>8
  <2>5. \A l \in i + 1 .. j - 1 : h[l] # h[j]
    BY <2>4
  <2>6. ShownResult(h, j)
    BY <2>1, <2>2, <2>5 DEF ShownResult
  <2> QED
    BY <1>1, <1>3, <2>6 DEF ShownPlaces
<1>4. CASE h[j].of # "call" /\ h[j].role # "tool"
  BY <1>1, <1>4 DEF ShownPlaces
<1> QED
  BY <1>2, <1>3, <1>4

\* What is steady and has its results is shown as it is.
LEMMA ShownWhole ==
  ASSUME NEW h \in Seq(Known), Steady(h), Paired(h)
  PROVE  Sanitize(h) = h
<1>1. FirstPass(h) = h
  BY FirstPassSteady
<1>2. PICK n \in Nat : n = Len(h)
  BY LenProperties
<1> DEFINE S == ShownPlaces(h)
<1>3. \A j \in 1 .. n : 0 + j \in S
  BY <1>2, PairedShown
<1> HIDE DEF S
<1>4. <<>> \in Seq(Known) /\ Len(<<>>) = 0 /\ 0 \in Nat
  BY EmptySeq
<1>5. Selected(<<>> \o h, S) = Selected(<<>>, S) \o h
  BY <1>2, <1>3, <1>4, SelectedConcat
<1>6. Selected(h, S) = h
  BY <1>5, SelectedEmpty, ConcatEmptySeq
<1> QED
  BY <1>1, <1>6, SanitizeIs DEF S

\* A call has at least one tool (it is a message with tool calls).
Proper == {m \in Known : m.of = "call" => m.k # 0}

\* Of what is shown, the last message before a call is one that a call may follow: a
\* call that is left out takes its results with it, and one that is shown has some.
LEMMA BeforeCall ==
  ASSUME NEW g \in Seq(Proper), Steady(g), NEW n \in Nat, n = Len(g),
         NEW p \in 1 .. n, g[p].of = "call"
  PROVE  \E q \in 1 .. p - 1 : /\ q \in ShownPlaces(g) /\ g[q].role \in {"user", "tool"}
                               /\ \A l \in q + 1 .. p - 1 : l \notin ShownPlaces(g)
<1> DEFINE S == ShownPlaces(g)
           Good(r) == \E q \in 1 .. r - 1 : /\ q \in S /\ g[q].role \in {"user", "tool"}
                                            /\ \A l \in q + 1 .. r - 1 : l \notin S
           Bad == {r \in 1 .. n : g[r].of = "call" /\ ~Good(r)}
<1>1. DOMAIN g = 1 .. n /\ \A i \in 1 .. n : g[i] \in Proper
  BY LenProperties, ElementOfSeq
<1>2. \A i \in 1 .. n : g[i].of = "call" => g[i].role = "assistant" /\ 1 \in 1 .. g[i].k
  BY <1>1 DEF Proper, Known
<1>3. ASSUME NEW r \in 1 .. n, g[r].of = "call",
             \A o \in 1 .. r - 1 : g[o].of = "call" => Good(o)
      PROVE  Good(r)
  <2>1. r > 1 /\ g[r - 1].role \in {"user", "tool"}
    BY <1>1, <1>3 DEF Steady
  <2>2. r - 1 \in 1 .. n /\ r - 1 \in 1 .. r - 1
    BY <2>1
  <2>3. CASE g[r - 1].role = "user"
    <3>1. r - 1 \in S
      BY <1>1, <1>2, <2>2, <2>3 DEF ShownPlaces
    <3>2. \A l \in (r - 1) + 1 .. r - 1 : l \notin S
      BY <2>2
    <3> HIDE DEF S
    <3> QED
      BY <2>2, <2>3, <3>1, <3>2
  <2>4. CASE g[r - 1].role = "tool"
    <3>1. PICK o \in 1 .. (r - 1) - 1 :
            g[o].of = "call" /\ \A l \in o + 1 .. (r - 1) - 1 : g[l].role = "tool"
      BY <1>1, <2>2, <2>4 DEF Steady
    <3>2. o \in 1 .. r - 1 /\ o \in 1 .. n /\ o + 1 <= r - 1
      BY <3>1
    <3>3. \A l \in o + 1 .. r - 1 : l \in 1 .. n /\ g[l].role = "tool" /\ g[l].of # "call"
      <4>1. \A l \in o + 1 .. r - 1 : l \in 1 .. n /\ (l \in o + 1 .. (r - 1) - 1 \/ l = r - 1)
        BY <3>2
      <4> QED
        BY <1>2, <2>4, <3>1, <4>1
    <3>4. CASE AllAnswered(g, o)
      <4>1. PICK b \in ToolBlock(g, o) : Answers(g[b], g[o])
        BY <1>2, <3>1, <3>2, <3>4 DEF AllAnswered
      <4> DEFINE Same == {l \in ToolBlock(g, o) : g[l] = g[b]}
      <4>2. PICK c \in Same : \A l \in Same : c <= l
        <5>1. Same \in SUBSET Nat /\ Same # {}
          <6>1. o \in 0 .. n /\ ToolBlock(g, o) \in SUBSET Nat
            BY <1>2, <3>2, BlockLies
          <6> QED
            BY <4>1, <6>1
        <5> HIDE DEF Same
        <5> QED
          BY <5>1, Least
      <4>3. /\ c \in o + 1 .. n /\ \A l \in o + 1 .. c : g[l].role = "tool"
            /\ g[c] = g[b] /\ c \in ToolBlock(g, o)
        BY <4>2 DEF ToolBlock
      <4>4. c < r
        <5>1. g[r].role # "tool"
          BY <1>2, <1>3
        <5>2. c \in Int /\ r \in Int /\ o + 1 <= r
          BY <3>2, <4>3
        <5>3. ~(r <= c)
          BY <4>3, <5>1, <5>2
        <5> QED
          BY <5>2, <5>3
      <4>5. c \in o + 1 .. r - 1
        BY <4>3, <4>4
      <4>6. \A l \in o + 1 .. c - 1 : g[l] # g[c]
        <5> SUFFICES ASSUME NEW l \in o + 1 .. c - 1, g[l] = g[c] PROVE FALSE
          OBVIOUS
        <5>1. l \in ToolBlock(g, o)
          <6>1. l \in o + 1 .. n /\ \A x \in o + 1 .. l : x \in o + 1 .. c
            BY <3>2, <4>3
          <6> QED
            BY <4>3, <6>1 DEF ToolBlock
        <5>2. l \in Same
          BY <4>3, <5>1
        <5>3. c <= l
          BY <4>2, <5>2
        <5> QED
          BY <3>2, <4>3, <5>3
      <4>7. c \in S
        <5>1. o \in 1 .. c - 1
          BY <3>2, <4>5
        <5>2. ShownResult(g, c)
          BY <3>1, <3>4, <4>1, <4>3, <4>6, <5>1 DEF ShownResult
        <5> QED
          BY <1>1, <3>3, <4>5, <5>2 DEF ShownPlaces
      <4> DEFINE Shown == {l \in o + 1 .. r - 1 : l \in S}
      <4>8. PICK q \in Shown : \A l \in Shown : l <= q
        <5>1. Shown \in SUBSET (0 .. r) /\ Shown # {} /\ r \in Nat
          BY <3>2, <4>5, <4>7
        <5> HIDE DEF Shown
        <5>2. Highest(Shown) \in Shown /\ \A l \in Shown : l <= Highest(Shown)
          BY <5>1, HighestIs
        <5> QED
          BY <5>2
      <4>9. q \in 1 .. r - 1 /\ q \in S /\ g[q].role \in {"user", "tool"}
        BY <3>2, <3>3, <4>8
      <4>10. \A l \in q + 1 .. r - 1 : l \notin S
        <5>1. \A l \in q + 1 .. r - 1 : l \in o + 1 .. r - 1 /\ ~(l <= q)
          BY <3>2, <4>8
        <5> QED
          BY <4>8, <5>1
      <4> HIDE DEF S, Shown
      <4> QED
        BY <4>9, <4>10
    <3>5. CASE ~AllAnswered(g, o)
      <4>1. o \notin S
        BY <3>1, <3>5 DEF ShownPlaces
      <4>2. ASSUME NEW l \in o + 1 .. r - 1, l \in S PROVE FALSE
        <5>1. ShownResult(g, l)
          BY <3>3, <4>2 DEF ShownPlaces
        <5>2. PICK i \in 1 .. l - 1 :
                g[i].of = "call" /\ AllAnswered(g, i) /\ l \in ToolBlock(g, i)
          BY <5>1 DEF ShownResult
        <5>3. \A x \in i + 1 .. l : g[x].role = "tool"
          BY <5>2, ToolBlockIs
        <5>4. i # o
          BY <3>5, <5>2
        <5>5. CASE i < o
          <6>1. o \in i + 1 .. l
            BY <3>2, <5>5
          <6> QED
            BY <1>2, <3>1, <3>2, <5>3, <6>1
        <5>6. CASE i > o
          <6>1. i \in o + 1 .. r - 1
            BY <3>2, <5>2, <5>6
          <6> QED
            BY <3>3, <5>2, <6>1
        <5> QED
          BY <3>2, <5>4, <5>5, <5>6
      <4>3. PICK q \in 1 .. o - 1 : /\ q \in S /\ g[q].role \in {"user", "tool"}
                                    /\ \A l \in q + 1 .. o - 1 : l \notin S
        BY <1>3, <3>1, <3>2
      <4>4. \A l \in q + 1 .. r - 1 :
              l \in q + 1 .. o - 1 \/ l = o \/ l \in o + 1 .. r - 1
        BY <3>2
      <4>5. \A l \in q + 1 .. r - 1 : l \notin S
        BY <4>1, <4>2, <4>3, <4>4
      <4>6. q \in 1 .. r - 1
        BY <3>2, <4>3
      <4> HIDE DEF S
      <4> QED
        BY <4>3, <4>5, <4>6
    <3> QED
      BY <3>4, <3>5
  <2> QED
    BY <2>1, <2>3, <2>4
<1> HIDE DEF S, Good
<1>4. Bad = {}
  <2> SUFFICES ASSUME Bad # {} PROVE FALSE
    OBVIOUS
  <2>1. PICK r \in Bad : \A x \in Bad : r <= x
    <3>1. Bad \in SUBSET Nat
      OBVIOUS
    <3> HIDE DEF Bad
    <3> QED
      BY <3>1, Least
  <2>2. r \in 1 .. n /\ g[r].of = "call" /\ ~Good(r)
    BY <2>1
  <2>3. ASSUME NEW o \in 1 .. r - 1, g[o].of = "call" PROVE Good(o)
    <3>1. o \in 1 .. n /\ ~(r <= o)
      BY <2>2
    <3> QED
      BY <2>1, <2>3, <3>1
  <2> QED
    BY <1>3, <2>2, <2>3
<1>5. Good(p)
  BY <1>4
<1> QED
  BY <1>5 DEF Good, S

\* So what is shown is steady.
LEMMA SanitizedSteady ==
  ASSUME NEW h \in Seq(Proper)
  PROVE  Sanitize(h) \in Seq(Proper) /\ Steady(Sanitize(h))
<1> DEFINE g == FirstPass(h)
           S == ShownPlaces(g)
           s == Selected(g, S)
<1>1. Proper \subseteq Known /\ h \in Seq(Known)
  BY DEF Proper
<1>2. g \in Seq(Proper) /\ g \in Seq(Known) /\ Steady(g)
  BY <1>1, FirstPassType, FirstPassSteady
<1>3. Sanitize(h) = s
  BY SanitizeIs
<1>4. Paired(s)
  BY <1>2, SelectedPaired
<1> HIDE DEF g
<1>5. s \in Seq(Proper) /\ \E at : PlacesOf(at, g, S)
  BY <1>2, SelectedPlaces
<1>6. PICK n \in Nat : n = Len(g) /\ DOMAIN g = 1 .. n
  BY <1>2, LenProperties
<1>7. PICK l \in Nat : l = Len(s) /\ DOMAIN s = 1 .. l
  BY <1>5, LenProperties
<1>8. PICK at : PlacesOf(at, g, S)
  BY <1>5
<1>9. /\ at \in [1 .. l -> S \cap (1 .. n)]
      /\ \A q \in 1 .. l : s[q] = g[at[q]]
      /\ \A i \in S \cap (1 .. n) : \E q \in 1 .. l : at[q] = i
      /\ \A p, q \in 1 .. l : p < q => at[p] < at[q]
  BY <1>6, <1>7, <1>8 DEF PlacesOf
<1> HIDE DEF s, S
<1>10. ASSUME NEW i \in 1 .. l, s[i].of = "call"
       PROVE  i > 1 /\ s[i - 1].role \in {"user", "tool"}
  <2> DEFINE p == at[i]
  <2>1. p \in 1 .. n /\ g[p].of = "call"
    BY <1>9, <1>10
  <2> HIDE DEF p
  <2>2. PICK q \in 1 .. p - 1 : /\ q \in S /\ g[q].role \in {"user", "tool"}
                                /\ \A x \in q + 1 .. p - 1 : x \notin S
    BY <1>2, <1>6, <2>1, BeforeCall DEF S
  <2>3. PICK j \in 1 .. l : at[j] = q
    <3>1. q \in 1 .. n
      BY <2>1, <2>2
    <3> QED
      BY <1>9, <2>2, <3>1
  <2>4. at \in [1 .. l -> Nat] /\ at[i] = p /\ \A x \in 1 .. l : at[x] \in S
    BY <1>9 DEF p
  <2>5. j < i
    <3>1. at[j] < at[i]
      BY <2>1, <2>2, <2>3, <2>4
    <3>2. ~(i < j) /\ i # j
      BY <1>9, <2>4, <3>1
    <3> QED
      BY <3>2
  <2>6. j = i - 1
    <3> SUFFICES ASSUME j # i - 1 PROVE FALSE
      OBVIOUS
    <3>1. i - 1 \in 1 .. l /\ j < i - 1 /\ i - 1 < i
      BY <2>5
    <3>2. at[j] < at[i - 1] /\ at[i - 1] < at[i]
      BY <1>9, <3>1
    <3>3. at[i - 1] \in q + 1 .. p - 1
      BY <2>1, <2>3, <2>4, <3>1, <3>2
    <3> QED
      BY <2>2, <2>4, <3>1, <3>3
  <2> QED
    BY <1>9, <2>2, <2>3, <2>5, <2>6
<1>11. ASSUME NEW i \in 1 .. l PROVE s[i].role # "system"
  <2>1. at[i] \in 1 .. n /\ s[i] = g[at[i]]
    BY <1>9
  <2> QED
    BY <1>2, <1>6, <2>1 DEF Steady
<1>12. ASSUME NEW i \in 1 .. l, s[i].role = "tool"
       PROVE  \E o \in 1 .. i - 1 :
                s[o].of = "call" /\ \A x \in o + 1 .. i - 1 : s[x].role = "tool"
  <2>1. PICK o \in 1 .. i - 1 : s[o].of = "call" /\ i \in ToolBlock(s, o)
    BY <1>4, <1>7, <1>12 DEF Paired
  <2>2. \A x \in o + 1 .. i : s[x].role = "tool"
    BY <2>1, ToolBlockIs
  <2> QED
    BY <2>1, <2>2
<1>13. Steady(s)
  BY <1>7, <1>10, <1>11, <1>12 DEF Steady
<1> QED
  BY <1>3, <1>5, <1>13

\* Whatever is stored, what is shown of it has every call followed by exactly its
\* results, is shown whole when it is sanitized again, and is all that is stored when
\* that is in order.
THEOREM SanitizedOnce ==
  ASSUME Messages(stored) \in Seq(Proper)
  PROVE  SanitizedIsPaired
<1> DEFINE h     == Messages(stored)
           shown == Sanitize(h)
<1>1. Proper \subseteq Known /\ h \in Seq(Known) /\ h \in Seq(Proper)
  BY DEF Proper
<1> HIDE DEF h
<1>2. Paired(shown)
  BY <1>1, SanitizePaired
<1>3. shown \in Seq(Known) /\ Steady(shown)
  BY <1>1, SanitizePaired, SanitizedSteady
<1>4. Sanitize(shown) = shown
  <2> HIDE DEF shown
  <2> QED
    BY <1>2, <1>3, ShownWhole
<1>5. ASSUME InOrder(h), Paired(h) PROVE shown = h
  <2>1. PICK n \in Nat : n = Len(h) /\ DOMAIN h = 1 .. n
    BY <1>1, LenProperties
  <2>2. ASSUME NEW i \in 1 .. n, h[i].of = "call"
        PROVE  i > 1 /\ h[i - 1].role \in {"user", "tool"}
    <3>1. h[i].role = "assistant"
      <4>1. h[i] \in Known
        BY <1>1, <2>1, ElementOfSeq
      <4> QED
        BY <2>2, <4>1 DEF Known
    <3>2. h # <<>>
      BY <2>1, EmptySeq
    <3>3. i # 1
      BY <1>5, <3>1, <3>2 DEF InOrder
    <3>4. i \in 2 .. Len(h)
      BY <2>1, <3>3
    <3> QED
      BY <1>5, <2>2, <3>3, <3>4 DEF InOrder
  <2>3. ASSUME NEW i \in 1 .. n, h[i].role = "tool"
        PROVE  \E o \in 1 .. i - 1 :
                 h[o].of = "call" /\ \A x \in o + 1 .. i - 1 : h[x].role = "tool"
    <3>1. PICK o \in 1 .. i - 1 : h[o].of = "call" /\ i \in ToolBlock(h, o)
      BY <1>5, <2>1, <2>3 DEF Paired
    <3>2. \A x \in o + 1 .. i : h[x].role = "tool"
      BY <3>1, ToolBlockIs
    <3> QED
      BY <3>1, <3>2
  <2>4. Steady(h)
    BY <1>5, <2>1, <2>2, <2>3 DEF Steady, InOrder
  <2> QED
    BY <1>1, <1>5, <2>4, ShownWhole
<1> QED
  BY <1>2, <1>4, <1>5 DEF h, SanitizedIsPaired

-------------------------------------------------------------------------------
(* The legacy context manager: the invariant behind LeavesTold.                *)

\* Numbered messages, as the session stores them.
Entries == [id : Nat, msg : Proper]

Rising(h) == \A i, j \in DOMAIN h : i < j => h[i].id < h[j].id

LEMMA MessagesType ==
  ASSUME NEW h \in Seq(Entries)
  PROVE  /\ Messages(h) \in Seq(Proper) /\ Messages(h) \in Seq(Known)
         /\ Len(Messages(h)) = Len(h)
<1>1. PICK n \in Nat : n = Len(h) /\ DOMAIN h = 1 .. n
  BY LenProperties
<1>2. \A i \in 1 .. n : h[i].msg \in Proper
  <2>1. \A i \in 1 .. n : h[i] \in Entries
    BY <1>1, ElementOfSeq
  <2> QED
    BY <2>1 DEF Entries
<1> DEFINE m == [i \in 1 .. n |-> h[i].msg]
<1>3. Messages(h) = m
  BY <1>1 DEF Messages
<1>4. m \in Seq(Proper) /\ Len(m) = n
  BY <1>2, SeqDef, LenProperties
<1>5. Seq(Proper) \subseteq Seq(Known)
  <2>1. Proper \subseteq Known
    BY DEF Proper
  <2> QED
    BY <2>1
<1> QED
  BY <1>1, <1>3, <1>4, <1>5

\* A part of a history: its messages keep their numbers and their order.
LEMMA PartOf ==
  ASSUME NEW h \in Seq(Entries), NEW n \in Nat, n = Len(h),
         NEW a \in 1 .. n + 1, NEW b \in a - 1 .. n
  PROVE  LET s == SubSeq(h, a, b)
         IN  /\ s \in Seq(Entries) /\ Len(s) = b - a + 1
             /\ Ids(s) = {h[i].id : i \in a .. b} /\ Ids(s) \subseteq Ids(h)
             /\ \A i \in DOMAIN s : s[i] = h[a + i - 1]
             /\ Rising(h) => Rising(s)
<1> DEFINE s == SubSeq(h, a, b)
<1>1. \A i \in a .. b : i \in 1 .. n /\ h[i] \in Entries
  <2>1. \A i \in 1 .. n : h[i] \in Entries
    BY ElementOfSeq
  <2> QED
    BY <2>1
<1>2. /\ s \in Seq(Entries)
      /\ Len(s) = IF a <= b THEN b - a + 1 ELSE 0
      /\ \A i \in 1 .. b - a + 1 : s[i] = h[a + i - 1]
  BY <1>1, SubSeqProperties
<1> HIDE DEF s
<1>3. DOMAIN s = 1 .. b - a + 1 /\ Len(s) = b - a + 1 /\ DOMAIN h = 1 .. n
  BY <1>2, LenProperties
<1>4. Ids(s) = {h[i].id : i \in a .. b}
  <2>1. \A i \in DOMAIN s : a + i - 1 \in a .. b /\ s[i] = h[a + i - 1]
    BY <1>2, <1>3
  <2>2. \A i \in a .. b : i - a + 1 \in DOMAIN s /\ s[i - a + 1] = h[i]
    <3>1. \A i \in a .. b : i - a + 1 \in 1 .. b - a + 1 /\ a + (i - a + 1) - 1 = i
      OBVIOUS
    <3> QED
      BY <1>2, <1>3, <3>1
  <2>3. Ids(s) \subseteq {h[i].id : i \in a .. b}
    BY <2>1 DEF Ids
  <2>4. {h[i].id : i \in a .. b} \subseteq Ids(s)
    <3>1. \A i \in a .. b : h[i].id = s[i - a + 1].id /\ i - a + 1 \in DOMAIN s
      BY <2>2
    <3> QED
      BY <3>1 DEF Ids
  <2> QED
    BY <2>3, <2>4
<1>5. Ids(s) \subseteq Ids(h)
  BY <1>1, <1>3, <1>4 DEF Ids
<1>6. ASSUME Rising(h) PROVE Rising(s)
  <2>1. \A i, j \in 1 .. b - a + 1 : i < j =>
          a + i - 1 \in 1 .. n /\ a + j - 1 \in 1 .. n /\ a + i - 1 < a + j - 1
    OBVIOUS
  <2> QED
    BY <1>2, <1>3, <1>6, <2>1 DEF Rising
<1> QED
  BY <1>2, <1>3, <1>4, <1>5, <1>6 DEF s

LEMMA AppendIds ==
  ASSUME NEW h \in Seq(Entries), NEW e \in Entries
  PROVE  /\ Append(h, e) \in Seq(Entries) /\ Append(h, e) # <<>>
         /\ Ids(Append(h, e)) = Ids(h) \cup {e.id}
         /\ Rising(h) /\ (\A x \in Ids(h) : x < e.id) => Rising(Append(h, e))
<1> DEFINE s == Append(h, e)
<1>1. PICK n \in Nat : n = Len(h) /\ DOMAIN h = 1 .. n
  BY LenProperties
<1>2. /\ s \in Seq(Entries) /\ s # <<>> /\ Len(s) = n + 1
      /\ (\A i \in 1 .. n : s[i] = h[i]) /\ s[n + 1] = e
  BY <1>1, AppendProperties
<1> HIDE DEF s
<1>3. DOMAIN s = 1 .. n + 1 /\ 1 .. n + 1 = (1 .. n) \cup {n + 1}
  BY <1>2, LenProperties
<1>4. Ids(s) = Ids(h) \cup {e.id}
  BY <1>1, <1>2, <1>3 DEF Ids
<1>5. ASSUME Rising(h), \A x \in Ids(h) : x < e.id PROVE Rising(s)
  <2> SUFFICES ASSUME NEW i \in 1 .. n + 1, NEW j \in 1 .. n + 1, i < j
               PROVE  s[i].id < s[j].id
    BY <1>3 DEF Rising
  <2>1. i \in 1 .. n /\ s[i] = h[i]
    BY <1>2
  <2>2. CASE j \in 1 .. n
    BY <1>1, <1>2, <1>5, <2>1, <2>2 DEF Rising
  <2>3. CASE j = n + 1
    BY <1>1, <1>2, <1>5, <2>1, <2>3 DEF Ids
  <2> QED
    BY <1>3, <2>2, <2>3
<1> QED
  BY <1>2, <1>4, <1>5 DEF s

\* The last messages of a history, and those before them.
LEMMA LastOf ==
  ASSUME NEW h \in Seq(Entries), NEW n \in Nat, n = Len(h), NEW t \in 0 .. n
  PROVE  /\ KeepLast(h, t) \in Seq(Entries) /\ Len(KeepLast(h, t)) = t
         /\ KeepLast(h, t) = SubSeq(h, n - t + 1, n)
         /\ Ids(h) = Ids(SubSeq(h, 1, n - t)) \cup Ids(KeepLast(h, t))
         /\ Rising(h) =>
              /\ Rising(KeepLast(h, t))
              /\ \A x \in Ids(SubSeq(h, 1, n - t)), y \in Ids(KeepLast(h, t)) : x < y
<1> DEFINE g == SubSeq(h, 1, n - t)
           s == SubSeq(h, n - t + 1, n)
<1>1. KeepLast(h, t) = s
  <2>1. CASE t < n
    <3>1. n - (n - t) = t /\ n - t + 1 = (n - t) + 1
      OBVIOUS
    <3> QED
      BY <2>1, <3>1 DEF KeepLast, Keep
  <2>2. CASE t = n
    <3>1. n - t + 1 = 1 /\ SubSeq(h, 1, n) = h
      BY <2>2, SubSeqFull
    <3> QED
      BY <2>2, <3>1 DEF KeepLast
  <2> QED
    BY <2>1, <2>2
<1>2. Ids(g) = {h[i].id : i \in 1 .. n - t}
  <2>1. 1 \in 1 .. n + 1 /\ n - t \in 1 - 1 .. n
    OBVIOUS
  <2> QED
    BY <2>1, PartOf
<1>3. /\ s \in Seq(Entries) /\ Len(s) = t
      /\ Ids(s) = {h[i].id : i \in n - t + 1 .. n}
      /\ Rising(h) => Rising(s)
  <2>1. n - t + 1 \in 1 .. n + 1 /\ n \in (n - t + 1) - 1 .. n /\ n - (n - t + 1) + 1 = t
    OBVIOUS
  <2> QED
    BY <2>1, PartOf
<1> HIDE DEF g, s
<1>4. DOMAIN h = 1 .. n
  BY LenProperties
<1>5. 1 .. n = (1 .. n - t) \cup (n - t + 1 .. n)
  OBVIOUS
<1>6. Ids(h) = Ids(g) \cup Ids(s)
  <2>1. Ids(h) = {h[i].id : i \in 1 .. n}
    BY <1>4 DEF Ids
  <2>2. Ids(h) \subseteq Ids(g) \cup Ids(s)
    BY <1>2, <1>3, <1>5, <2>1
  <2>3. Ids(g) \cup Ids(s) \subseteq Ids(h)
    BY <1>2, <1>3, <1>5, <2>1
  <2> QED
    BY <2>2, <2>3
<1>7. ASSUME Rising(h), NEW i \in 1 .. n - t, NEW j \in n - t + 1 .. n
      PROVE  h[i].id < h[j].id
  <2>1. i \in 1 .. n /\ j \in 1 .. n /\ i < j
    OBVIOUS
  <2> QED
    BY <1>4, <1>7, <2>1 DEF Rising
<1>8. Rising(h) => \A x \in Ids(g), y \in Ids(s) : x < y
  BY <1>2, <1>3, <1>7
<1>9. g = SubSeq(h, 1, n - t) /\ s = SubSeq(h, n - t + 1, n)
  BY DEF g, s
<1> QED
  BY <1>1, <1>3, <1>6, <1>8, <1>9

\* A history has as many numbers as messages.
LEMMA CountIds ==
  ASSUME NEW h \in Seq(Entries), Rising(h)
  PROVE  IsFiniteSet(Ids(h)) /\ Cardinality(Ids(h)) = Len(h)
<1>1. PICK n \in Nat : n = Len(h) /\ DOMAIN h = 1 .. n
  BY LenProperties
<1> DEFINE f == [i \in 1 .. n |-> h[i].id]
<1>2. \A i \in 1 .. n : h[i].id \in Nat
  <2>1. \A i \in 1 .. n : h[i] \in Entries
    BY <1>1, ElementOfSeq
  <2> QED
    BY <2>1 DEF Entries
<1>3. f \in Bijection(1 .. n, Ids(h))
  <2>1. f \in [1 .. n -> Ids(h)]
    BY <1>1 DEF Ids
  <2>2. \A i, j \in 1 .. n : f[i] = f[j] => i = j
    <3> SUFFICES ASSUME NEW i \in 1 .. n, NEW j \in 1 .. n, f[i] = f[j] PROVE i = j
      OBVIOUS
    <3>1. ~(i < j) /\ ~(j < i)
      BY <1>1, <1>2 DEF Rising
    <3> QED
      BY <3>1
  <2>3. \A x \in Ids(h) : \E i \in 1 .. n : f[i] = x
    BY <1>1 DEF Ids
  <2> HIDE DEF f
  <2> QED
    BY <2>1, <2>2, <2>3, Fun_IsBij
<1>4. IsFiniteSet(1 .. n) /\ Cardinality(1 .. n) = n
  BY FS_Interval
<1> QED
  BY <1>1, <1>3, <1>4, FS_Bijection, Fun_ExistsBij

\* What the emergency compression keeps is a part of the history.
LEMMA SpanLies ==
  ASSUME NEW h \in Seq(Known), NEW n \in Nat, n = Len(h), n > 2
  PROVE  LET a == CompressionSpan(h)[1]
             b == CompressionSpan(h)[2]
         IN  a \in 1 .. n + 1 /\ b \in a - 1 .. n
<1> DEFINE bounds == TurnBoundaries(h)
           cut    == CompressionCut(h)
           top    == Highest(bounds)
           span   == CompressionSpan(h)
<1>1. cut \in 0 .. n
  BY CutIs
<1>2. CASE cut > 0
  <2>1. span = <<cut + 1, n>>
    BY <1>2 DEF CompressionSpan
  <2>2. span[1] = cut + 1 /\ span[2] = n
    BY <2>1
  <2> QED
    BY <1>1, <2>2
<1>3. CASE ~(cut > 0) /\ bounds = {}
  <2>1. span = <<1, 0>>
    BY <1>3 DEF CompressionSpan
  <2>2. span[1] = 1 /\ span[2] = 0
    BY <2>1
  <2> QED
    BY <2>2
<1>4. CASE ~(cut > 0) /\ bounds # {}
  <2>1. bounds \in SUBSET (0 .. n) /\ bounds \in SUBSET (0 .. n - 1)
    BY DEF TurnBoundaries
  <2>2. top \in 0 .. n - 1
    <3>1. bounds # {}
      BY <1>4
    <3> HIDE DEF bounds
    <3> QED
      BY <2>1, <3>1, HighestIs
  <2>3. span = <<top + 1, top + 1>>
    BY <1>4 DEF CompressionSpan
  <2>4. span[1] = top + 1 /\ span[2] = top + 1
    <3> HIDE DEF top
    <3> QED
      BY <2>3
  <2> QED
    BY <2>2, <2>4
<1> QED
  BY <1>2, <1>3, <1>4


\* The restore point is what an abort would restore; what the compression keeps is what
\* it will store.
Going == turn.at \in {"setup", "begin", "running"}
Compressing == turn.at \in {"read", "noting", "storing"}

\* The messages the summariser took, and those the history consists of or may again.
Taken == asks.batch \cup asks.skipped
Reach == Ids(stored) \cup (IF Going THEN Ids(restore.history) ELSE {})
                     \cup (IF Compressing THEN Ids(turn.kept) ELSE {})

Places == {"idle", "setup", "begin", "running", "closing", "read", "noting",
           "storing", "refresh", "undoing", "clearing"}

TurnRecords(n) ==
  [at : Places, own : Seq(Entries), kept : Seq(Entries), told : SUBSET (1 .. n)]

AskRecords(n) ==
  [at : {"off", "started", "asking", "told"}, keep : Nat, since : Nat,
   batch : SUBSET (1 .. n), skipped : SUBSET (1 .. n), told : SUBSET (1 .. n)]

USE DEF TurnRecords, AskRecords

LegacyTypes ==
  /\ stored \in Seq(Entries) /\ Rising(stored) /\ Ids(stored) \subseteq 1 .. added
  /\ restore \in [history : Seq(Entries), told : SUBSET (1 .. added)]
  /\ Rising(restore.history) /\ Ids(restore.history) \subseteq 1 .. added
  /\ turn \in TurnRecords(added)
  /\ Rising(turn.own) /\ Ids(turn.own) \subseteq 1 .. added
  /\ Rising(turn.kept) /\ Ids(turn.kept) \subseteq 1 .. added
  /\ turn.at = "running" => turn.own # <<>>
  /\ asks \in AskRecords(added)

\* The summariser's length counts from the end: as many of the messages it did not take
\* can be there as it keeps and as came since it read, and they came after those it took.
\* An abort brings back nothing else: what it drops is the turn's own.
Counted ==
  /\ asks.at \in {"off", "started"} => asks.since = 0
  /\ asks.at = "started" => Reach \subseteq Ids(stored)
  /\ asks.at \in {"asking", "told"} =>
       /\ Cardinality(Reach \ Taken) <= asks.keep + asks.since
       /\ \A x \in Taken, y \in Reach \ Taken : x < y
  /\ asks.at = "told" => asks.batch \subseteq told \cup lapsed

Returns == Going => Ids(stored) \subseteq Ids(restore.history) \cup Ids(turn.own)

LegacyInv ==
  /\ LegacyTypeOK /\ LegacyTypes
  /\ displaced + asks.since <= added
  /\ Returns /\ Counted
  /\ LeavesTold

LEMMA EmptyHistory == <<>> \in Seq(Entries) /\ Ids(<<>>) = {} /\ Rising(<<>>)
BY EmptySeq DEF Ids, Rising

\* A session of an earlier process: some of its messages are stored, others told of.
Resumed ==
  /\ stored \in Seq(Entries) /\ Rising(stored)
  /\ added \in 0 .. MaxMessages /\ Ids(stored) \cup told = 1 .. added
  /\ turn = Idle /\ turns = 0 /\ restore = Nothing /\ asks = Off
  /\ gone = {} /\ lapsed = {} /\ displaced = 0

LEMMA LegacyStart == Resumed => LegacyInv
<1> SUFFICES ASSUME Resumed PROVE LegacyInv
  OBVIOUS
<1> USE EmptyHistory, LegacyAssumption DEF Resumed
<1>1. LegacyTypeOK
  BY DEF LegacyTypeOK, Idle, Off
<1>2. LegacyTypes
  BY DEF LegacyTypes, Idle, Off, Nothing, Places
<1>3. Returns /\ Counted /\ displaced + asks.since <= added
  BY DEF Returns, Going, Counted, Off, Idle
<1>4. LeavesTold
  <2>1. 1 .. added \ (Ids(stored) \cup told \cup lapsed \cup gone) = {}
    OBVIOUS
  <2>2. Cardinality({}) <= displaced
    BY FS_EmptySet
  <2> QED
    BY <2>1, <2>2 DEF LeavesTold
<1> QED
  BY <1>1, <1>2, <1>3, <1>4 DEF LegacyInv

LEMMA InitResumed == LegacyInit => Resumed
BY EmptyHistory, LegacyAssumption DEF LegacyInit, Resumed

\* Messages leave the history in no other way, so none is lost untold.
LEMMA NoneLost ==
  ASSUME LeavesTold, added \in Nat, displaced \in Nat, displaced' = displaced,
         1 .. added' \subseteq 1 .. added \cup Ids(stored'),
         told \cup lapsed \subseteq told' \cup lapsed', gone \subseteq gone',
         Ids(stored) \subseteq Ids(stored') \cup gone'
  PROVE  LeavesTold'
<1> DEFINE U == 1 .. added \ (Ids(stored) \cup told \cup lapsed \cup gone)
           V == 1 .. added' \ (Ids(stored') \cup told' \cup lapsed' \cup gone')
<1>1. V \subseteq U
  OBVIOUS
<1>2. IsFiniteSet(U) /\ Cardinality(U) \in Nat
  <2>1. IsFiniteSet(1 .. added)
    BY FS_Interval
  <2>2. IsFiniteSet(U)
    BY <2>1, FS_Difference
  <2> QED
    BY <2>2, FS_CardinalityType
<1>3. Cardinality(U) <= displaced
  BY DEF LeavesTold
<1> HIDE DEF U, V
<1>4. Cardinality(V) <= Cardinality(U) /\ Cardinality(V) \in Nat
  BY <1>1, <1>2, FS_Subset, FS_CardinalityType
<1>5. Cardinality(V) <= displaced
  <2> QED
    BY <1>2, <1>3, <1>4
<1> QED
  BY <1>5 DEF LeavesTold, V

\* A new summary, whatever it tells of, loses none that the old one told of.
LEMMA SummaryKeeps ==
  ASSUME NEW new, SetSummary(new)
  PROVE  told \cup lapsed \subseteq told' \cup lapsed' /\ told' = new
BY DEF SetSummary

LEMMA ReachFinite ==
  ASSUME LegacyInv
  PROVE  IsFiniteSet(Reach) /\ IsFiniteSet(Reach \ Taken)
<1>1. Reach \subseteq 1 .. added /\ added \in Nat
  BY DEF LegacyInv, LegacyTypes, Reach, LegacyTypeOK
<1>2. IsFiniteSet(1 .. added)
  BY <1>1, FS_Interval
<1>3. IsFiniteSet(Reach)
  BY <1>1, <1>2, FS_Subset
<1> QED
  BY <1>3, FS_Difference

\* A step that lets nothing more into reach, and leaves the summariser alone or ends it.
LEMMA ReachShrinks ==
  ASSUME LegacyInv, LegacyTypes', asks' = asks \/ asks' = Off, Reach' \subseteq Reach,
         asks'.at = "started" => Reach' \subseteq Ids(stored'),
         told \cup lapsed \subseteq told' \cup lapsed'
  PROVE  Counted'
<1>1. CASE asks' = Off
  BY <1>1 DEF Counted, Off
<1>2. CASE asks' = asks
  <2>1. asks.at \in {"asking", "told"} =>
          /\ Cardinality(Reach' \ Taken) <= asks.keep + asks.since
          /\ \A x \in Taken, y \in Reach' \ Taken : x < y
    <3> SUFFICES ASSUME asks.at \in {"asking", "told"}
                 PROVE  /\ Cardinality(Reach' \ Taken) <= asks.keep + asks.since
                        /\ \A x \in Taken, y \in Reach' \ Taken : x < y
      OBVIOUS
    <3>1. IsFiniteSet(Reach) /\ IsFiniteSet(Reach \ Taken)
      BY ReachFinite
    <3>2. Reach' \ Taken \subseteq Reach \ Taken
      OBVIOUS
    <3>3. /\ Cardinality(Reach' \ Taken) <= Cardinality(Reach \ Taken)
          /\ Cardinality(Reach' \ Taken) \in Nat /\ Cardinality(Reach \ Taken) \in Nat
      BY <3>1, <3>2, FS_Subset, FS_CardinalityType
    <3>4. /\ Cardinality(Reach \ Taken) <= asks.keep + asks.since
          /\ \A x \in Taken, y \in Reach \ Taken : x < y
          /\ asks.keep \in Nat /\ asks.since \in Nat
      BY DEF LegacyInv, Counted, LegacyTypes
    <3> QED
      BY <3>2, <3>3, <3>4
  <2>2. Taken' = Taken
    BY <1>2 DEF Taken
  <2>3. /\ asks.at \in {"off", "started"} => asks.since = 0
        /\ asks.at = "told" => asks.batch \subseteq told \cup lapsed
    BY DEF LegacyInv, Counted
  <2> QED
    BY <1>2, <2>1, <2>2, <2>3 DEF Counted
<1> QED
  BY <1>1, <1>2

\* A step of the turn, or its end, that stores nothing.
LEMMA TypesStay ==
  ASSUME LegacyTypes, UNCHANGED <<stored, restore, added>>,
         turn' = Idle \/ turn' = turn \/
           (\E at \in Places \ {"running"} : turn' = [turn EXCEPT !.at = at]),
         asks' = asks \/ asks' = Off
  PROVE  LegacyTypes'
<1>1. /\ asks' \in AskRecords(added)
  BY DEF LegacyTypes, Off
<1>2. CASE turn' = Idle
  BY <1>1, <1>2, EmptyHistory DEF LegacyTypes, Idle, Places
<1>3. CASE turn' = turn
  BY <1>1, <1>3 DEF LegacyTypes
<1>4. CASE \E at \in Places \ {"running"} : turn' = [turn EXCEPT !.at = at]
  <2>1. PICK at \in Places \ {"running"} : turn' = [turn EXCEPT !.at = at]
    BY <1>4
  <2>2. turn \in TurnRecords(added)
    BY DEF LegacyTypes
  <2>3. /\ turn' \in TurnRecords(added)
        /\ turn'.at # "running" /\ turn'.own = turn.own /\ turn'.kept = turn.kept
    BY <2>1, <2>2
  <2> QED
    BY <1>1, <2>3 DEF LegacyTypes
<1> QED
  BY <1>2, <1>3, <1>4

\* Such a step preserves the invariant if what it drops from the history is gone for a
\* reason.
LEMMA QuietLegacy ==
  ASSUME LegacyInv, LegacyTypeOK', LegacyTypes', Returns', UNCHANGED <<added, displaced>>,
         asks' = asks \/ asks' = Off, Reach' \subseteq Reach,
         asks'.at = "started" => Reach' \subseteq Ids(stored'),
         told \cup lapsed \subseteq told' \cup lapsed', gone \subseteq gone',
         Ids(stored) \subseteq Ids(stored') \cup gone'
  PROVE  LegacyInv'
<1>1. Counted'
  BY ReachShrinks
<1>2. LeavesTold'
  BY NoneLost DEF LegacyInv, LegacyTypeOK
<1>3. displaced' + asks'.since <= added'
  BY DEF LegacyInv, LegacyTypeOK, LegacyTypes, Off
<1> QED
  BY <1>1, <1>2, <1>3 DEF LegacyInv


LEMMA LegacyBegin ==
  ASSUME LegacyInv, BeginTurn
  PROVE  LegacyInv'
<1>1. LegacyTypeOK'
  BY LegacyAssumption DEF LegacyInv, LegacyTypeOK, BeginTurn, ghosts, Idle
<1>2. LegacyTypes'
  BY EmptyHistory DEF LegacyInv, LegacyTypeOK, LegacyTypes, BeginTurn, ghosts, Idle, Places
<1>3. Returns'
  BY DEF Returns, BeginTurn, ghosts
<1>4. Reach' = Ids(stored)
  BY DEF Reach, Going, Compressing, BeginTurn, ghosts, Idle
<1>5. Ids(stored) \subseteq Reach /\ stored' = stored
  BY DEF Reach, BeginTurn
<1> QED
  BY <1>1, <1>2, <1>3, <1>4, <1>5, QuietLegacy DEF BeginTurn, ghosts

\* The turn ends, or the process does: what is stored stays.
LEMMA LegacyStops ==
  ASSUME LegacyInv, FailTurn \/ Crash \/ NoSummary
  PROVE  LegacyInv'
<1>1. /\ UNCHANGED <<stored, told, turns, restore, added, ghosts>>
      /\ turn' = Idle \/ turn' = turn
      /\ asks' = Off \/ asks' = asks
  BY DEF FailTurn, Crash, NoSummary
<1>2. LegacyTypeOK'
  BY <1>1 DEF LegacyInv, LegacyTypeOK, ghosts, Idle, Off
<1>3. LegacyTypes'
  BY <1>1, TypesStay DEF LegacyInv
<1>4. Returns'
  BY <1>1 DEF LegacyInv, Returns, Going, ghosts, Idle
<1>5. Reach' \subseteq Reach
  BY <1>1 DEF Reach, Going, Compressing, ghosts, Idle
<1>6. asks'.at = "started" => Reach' \subseteq Ids(stored')
  BY <1>1, <1>5 DEF LegacyInv, Counted, Off
<1> QED
  BY <1>1, <1>2, <1>3, <1>4, <1>5, <1>6, QuietLegacy DEF ghosts

LEMMA LegacyRestores ==
  ASSUME LegacyInv, RestoreHistory
  PROVE  LegacyInv'
<1>1. turn.at = "running" /\ Going /\ turn' = [Idle EXCEPT !.at = "undoing"]
  BY DEF RestoreHistory, Going
<1>2. LegacyTypeOK'
  BY DEF LegacyInv, LegacyTypeOK, LegacyTypes, RestoreHistory, Idle
<1>3. LegacyTypes'
  BY EmptyHistory DEF LegacyInv, LegacyTypeOK, LegacyTypes, RestoreHistory, Idle, Places
<1>4. Returns'
  BY <1>1 DEF Returns, Going, Idle
<1>5. Reach' = Ids(stored') /\ Reach' = Ids(restore.history)
  BY <1>1 DEF Reach, Going, Compressing, Idle, RestoreHistory
<1>6. Reach' \subseteq Reach
  BY <1>1, <1>5 DEF Reach
<1>7. Ids(stored) \subseteq Ids(stored') \cup gone'
  BY <1>1, <1>5 DEF LegacyInv, Returns, RestoreHistory
<1> QED
  BY <1>2, <1>3, <1>4, <1>5, <1>6, <1>7, QuietLegacy DEF RestoreHistory

LEMMA LegacyClears ==
  ASSUME LegacyInv, Clear
  PROVE  LegacyInv'
<1>1. turn' = [Idle EXCEPT !.at = "clearing"]
  BY DEF Clear
<1>2. LegacyTypeOK'
  BY EmptyHistory DEF LegacyInv, LegacyTypeOK, Clear, Idle
<1>3. LegacyTypes'
  BY EmptyHistory DEF LegacyInv, LegacyTypeOK, LegacyTypes, Clear, Idle, Places
<1>4. Returns'
  BY <1>1 DEF Returns, Going, Idle
<1>5. Reach' = {}
  BY <1>1, EmptyHistory DEF Reach, Going, Compressing, Idle, Clear
<1>6. Ids(stored) \subseteq Ids(stored') \cup gone' /\ gone \subseteq gone'
  BY DEF LegacyInv, LegacyTypeOK, Clear
<1> QED
  BY <1>2, <1>3, <1>4, <1>5, <1>6, QuietLegacy DEF Clear

\* The summary is set: to the restored one, to none, or to the one with the note.
LEMMA LegacySetsSummary ==
  ASSUME LegacyInv, RestoreSummary \/ ClearSummary \/ SetNote
  PROVE  LegacyInv'
<1>1. /\ UNCHANGED <<stored, turns, restore, asks, added, gone, displaced>>
      /\ \/ turn' = Idle
         \/ turn.at = "noting" /\ turn' = [turn EXCEPT !.at = "storing"]
  BY DEF RestoreSummary, ClearSummary, SetNote
<1>2. PICK new \in SUBSET (1 .. added) : SetSummary(new)
  <2>1. restore.told \in SUBSET (1 .. added) /\ turn.told \in SUBSET (1 .. added)
    BY DEF LegacyInv, LegacyTypes
  <2> QED
    BY <2>1 DEF RestoreSummary, ClearSummary, SetNote
<1>3. told \cup lapsed \subseteq told' \cup lapsed' /\ told' = new
  BY <1>2, SummaryKeeps
<1>4. lapsed' \subseteq 1 .. added
  BY <1>2 DEF SetSummary, LegacyInv, LegacyTypeOK
<1>5. LegacyTypeOK'
  BY <1>1, <1>2, <1>3, <1>4 DEF LegacyInv, LegacyTypeOK, LegacyTypes, Idle
<1>6. LegacyTypes'
  BY <1>1, TypesStay DEF LegacyInv, Places
<1>7. Returns'
  BY <1>1 DEF LegacyInv, LegacyTypes, Returns, Going, Idle
<1>8. Reach' \subseteq Reach
  BY <1>1 DEF LegacyInv, LegacyTypes, Reach, Going, Compressing, Idle
<1>9. asks'.at = "started" => Reach' \subseteq Ids(stored')
  BY <1>1, <1>8 DEF LegacyInv, Counted
<1> QED
  BY <1>1, <1>3, <1>5, <1>6, <1>7, <1>8, <1>9, QuietLegacy


\* The emergency compression reads the history and the summary.
LEMMA LegacyReads ==
  ASSUME LegacyInv, ReadHistory \/ ReadSummary
  PROVE  LegacyInv'
<1>1. UNCHANGED <<stored, told, turns, restore, asks, added, ghosts>>
  BY DEF ReadHistory, ReadSummary
<1>2. /\ turn'.at \in {"refresh", "read", "noting"} /\ turn'.own = turn.own
      /\ turn' \in TurnRecords(added)
      /\ Rising(turn'.kept) /\ Ids(turn'.kept) \subseteq 1 .. added
      /\ turn'.at \in {"read", "noting"} =>
           Ids(turn'.kept) \subseteq Ids(stored) \/ (Compressing /\ turn'.kept = turn.kept)
  <2>1. CASE ReadHistory
    <3> DEFINE span == CompressionSpan(Messages(stored))
               part == SubSeq(stored, span[1], span[2])
    <3>1. CASE Len(stored) <= 2
      <4>1. turn' = [turn EXCEPT !.at = "refresh"]
        BY <2>1, <3>1 DEF ReadHistory
      <4> QED
        BY <4>1 DEF LegacyInv, LegacyTypes, Places
    <3>2. CASE ~(Len(stored) <= 2)
      <4>1. turn' = [turn EXCEPT !.at = "read", !.kept = part]
        BY <2>1, <3>2 DEF ReadHistory
      <4>2. /\ stored \in Seq(Entries) /\ Rising(stored) /\ Ids(stored) \subseteq 1 .. added
            /\ turn \in TurnRecords(added)
        BY DEF LegacyInv, LegacyTypes
      <4>3. PICK n \in Nat : n = Len(stored) /\ n > 2
        BY <3>2, <4>2, LenProperties
      <4>4. span[1] \in 1 .. n + 1 /\ span[2] \in span[1] - 1 .. n
        BY <4>2, <4>3, MessagesType, SpanLies
      <4> HIDE DEF span
      <4>5. part \in Seq(Entries) /\ Ids(part) \subseteq Ids(stored) /\ Rising(part)
        BY <4>2, <4>3, <4>4, PartOf
      <4> HIDE DEF part
      <4>6. /\ turn'.at = "read" /\ turn'.own = turn.own /\ turn'.kept = part
            /\ turn' \in TurnRecords(added)
        BY <4>1, <4>2, <4>5 DEF Places
      <4>7. Rising(turn'.kept) /\ Ids(turn'.kept) \subseteq Ids(stored)
        BY <4>5, <4>6
      <4>8. Ids(turn'.kept) \subseteq 1 .. added
        BY <4>2, <4>7
      <4>9. turn'.at \in {"refresh", "read", "noting"}
        BY <4>6
      <4> HIDE DEF Places
      <4> QED
        BY <4>6, <4>7, <4>8, <4>9
    <3> QED
      BY <3>1, <3>2
  <2>2. CASE ReadSummary
    <3>1. turn.at = "read" /\ turn' = [turn EXCEPT !.at = "noting", !.told = told]
      BY <2>2 DEF ReadSummary
    <3> QED
      BY <3>1 DEF LegacyInv, LegacyTypeOK, LegacyTypes, Places, Compressing
  <2> QED
    BY <2>1, <2>2
<1>3. LegacyTypeOK'
  BY <1>1, <1>2 DEF LegacyInv, LegacyTypeOK, ghosts, Places
<1>4. LegacyTypes'
  BY <1>1, <1>2 DEF LegacyInv, LegacyTypes
<1>5. Returns'
  BY <1>2 DEF Returns, Going
<1>6. Reach' \subseteq Reach
  BY <1>1, <1>2 DEF Reach, Going, Compressing
<1>7. asks'.at = "started" => Reach' \subseteq Ids(stored')
  BY <1>1, <1>6 DEF LegacyInv, Counted
<1> QED
  BY <1>1, <1>3, <1>4, <1>5, <1>6, <1>7, QuietLegacy DEF ghosts

\* It stores what it keeps; the note counts the others.
LEMMA LegacyStoresKept ==
  ASSUME LegacyInv, SetKept
  PROVE  LegacyInv'
<1>1. /\ Compressing /\ stored' = turn.kept /\ gone' = gone \cup (Ids(stored) \ Ids(turn.kept))
      /\ turn' = [turn EXCEPT !.at = "refresh", !.kept = <<>>, !.told = {}]
      /\ UNCHANGED <<told, turns, restore, asks, added, lapsed, displaced>>
  BY DEF SetKept, Compressing
<1>2. turn'.at = "refresh"
  BY <1>1 DEF LegacyInv, LegacyTypes
<1>3. LegacyTypeOK'
  BY <1>1, <1>2 DEF LegacyInv, LegacyTypes, LegacyTypeOK
<1>4. LegacyTypes'
  BY <1>1, EmptyHistory DEF LegacyInv, LegacyTypes, Places
<1>5. Returns'
  BY <1>2 DEF Returns, Going
<1>6. Reach' = Ids(stored') /\ Reach' \subseteq Reach
  BY <1>1, <1>2 DEF Reach, Going, Compressing
<1> QED
  BY <1>1, <1>3, <1>4, <1>5, <1>6, QuietLegacy

\* The restore point becomes what is stored without the tail that is the turn's own.
LEMMA LegacyRefreshes ==
  ASSUME LegacyInv, Refresh
  PROVE  LegacyInv'
<1> DEFINE tails == {t \in 0 .. Len(turn.own) :
                       t <= Len(stored) /\ KeepLast(stored, t) = KeepLast(turn.own, t)}
<1>1. /\ turn.own \in Seq(Entries) /\ stored \in Seq(Entries)
      /\ Rising(stored) /\ Ids(stored) \subseteq 1 .. added
      /\ turn \in TurnRecords(added)
  BY DEF LegacyInv, LegacyTypes
<1>2. PICK n \in Nat : n = Len(stored)
  BY <1>1, LenProperties
<1>3. PICK l \in Nat : l = Len(turn.own)
  BY <1>1, LenProperties
<1>4. PICK t \in tails : t = OwnTail
  <2>1. 0 \in tails
    <3>1. KeepLast(stored, 0) = <<>> /\ KeepLast(turn.own, 0) = <<>>
      <4>1. ASSUME NEW h \in Seq(Entries) PROVE KeepLast(h, 0) = <<>>
        <5>1. CASE h = <<>>
          BY <5>1, EmptySeq DEF KeepLast
        <5>2. CASE h # <<>>
          <6>1. PICK m \in Nat : m = Len(h) /\ m > 0
            BY <5>2, LenProperties, EmptySeq
          <6>2. KeepLast(h, 0) = SubSeq(h, m + 1, m)
            BY <6>1 DEF KeepLast, Keep
          <6> QED
            BY <6>1, <6>2, SubSeqEmpty
        <5> QED
          BY <5>1, <5>2
      <4> QED
        BY <1>1, <4>1
    <3> QED
      BY <1>2, <1>3, <3>1
  <2>2. tails \in SUBSET (0 .. l)
    BY <1>3
  <2>3. OwnTail = Highest(tails)
    BY DEF OwnTail
  <2> HIDE DEF tails
  <2> QED
    BY <2>1, <2>2, <2>3, HighestIs
<1>5. t \in 0 .. n /\ t \in 0 .. l /\ KeepLast(stored, t) = KeepLast(turn.own, t)
  BY <1>2, <1>3, <1>4
<1> HIDE DEF tails
<1> DEFINE part == SubSeq(stored, 1, n - t)
<1>6. part \in Seq(Entries) /\ Ids(part) \subseteq Ids(stored) /\ Rising(part)
  BY <1>1, <1>2, <1>5, PartOf
<1>7. Ids(stored) \subseteq Ids(part) \cup Ids(turn.own)
  <2>1. Ids(KeepLast(turn.own, t)) \subseteq Ids(turn.own)
    BY <1>1, <1>3, <1>5, LastOf
  <2>2. Ids(stored) = Ids(part) \cup Ids(KeepLast(stored, t))
    BY <1>1, <1>2, <1>5, LastOf
  <2> QED
    BY <1>5, <2>1, <2>2
<1>8. /\ restore' = [history |-> part, told |-> told]
      /\ turn' = [turn EXCEPT !.at = Back]
      /\ UNCHANGED <<stored, told, turns, asks, added, ghosts>>
  BY <1>2, <1>4 DEF Refresh
<1> HIDE DEF part
<1>9. /\ turn'.own = turn.own /\ turn'.kept = turn.kept
      /\ turn'.at \in {"begin", "running"}
      /\ turn'.at = "running" => turn.own # <<>>
      /\ turn' \in TurnRecords(added)
  BY <1>1, <1>8 DEF Back, Places
<1>10. LegacyTypeOK'
  <2>1. UNCHANGED <<stored, told, turns, asks, added, gone, lapsed, displaced>>
    BY <1>8 DEF ghosts
  <2>2. turn'.at \in {"begin", "running"}
    BY <1>9
  <2> QED
    BY <2>1, <2>2 DEF LegacyInv, LegacyTypeOK
<1>11. LegacyTypes'
  <2>1. told \in SUBSET (1 .. added)
    BY DEF LegacyInv, LegacyTypeOK
  <2> QED
    BY <1>1, <1>6, <1>8, <1>9, <2>1 DEF LegacyInv, LegacyTypes
<1>12. Returns'
  BY <1>7, <1>8, <1>9 DEF Returns
<1>13. Reach' = Ids(stored) /\ Reach' \subseteq Reach
  <2>1. restore'.history = part /\ stored' = stored /\ ~Compressing'
    BY <1>8, <1>9 DEF Compressing
  <2>2. Reach' = Ids(stored)
    BY <1>6, <2>1 DEF Reach
  <2> QED
    BY <2>2 DEF Reach
<1> QED
  BY <1>8, <1>10, <1>11, <1>12, <1>13, QuietLegacy DEF ghosts


\* A message is stored: by the turn, and if the summariser has read, it is one more than
\* the summariser knows of.
LEMMA LegacyStores ==
  ASSUME LegacyInv, NEW m \in Proper, Store(m),
         turn.at \in {"setup", "begin", "running"}
  PROVE  LegacyInv'
<1> DEFINE e == Entry(m)
<1>1. /\ added \in Nat /\ displaced \in Nat /\ added + 1 \in 0 .. MaxMessages
      /\ stored \in Seq(Entries) /\ Rising(stored) /\ Ids(stored) \subseteq 1 .. added
      /\ turn.own \in Seq(Entries) /\ Rising(turn.own) /\ Ids(turn.own) \subseteq 1 .. added
  BY LegacyAssumption DEF LegacyInv, LegacyTypeOK, LegacyTypes, Store
<1>2. e \in Entries /\ e.id = added + 1
  BY <1>1 DEF Entry, Entries
<1>3. /\ added' = added + 1 /\ stored' = Append(stored, e)
      /\ turn' = [turn EXCEPT !.at = IF m = Answer THEN "closing" ELSE "running",
                              !.own = Append(turn.own, e)]
      /\ asks' = [asks EXCEPT !.since = IF asks.at \in {"asking", "told"} THEN asks.since + 1
                                        ELSE asks.since]
      /\ UNCHANGED <<told, turns, restore, ghosts>>
  BY DEF Store
<1>4. \A x \in 1 .. added : x < e.id
  BY <1>1, <1>2
<1> HIDE DEF e
<1>5. /\ stored' \in Seq(Entries) /\ Ids(stored') = Ids(stored) \cup {added + 1}
      /\ Rising(stored')
  BY <1>1, <1>2, <1>3, <1>4, AppendIds
<1> DEFINE own == Append(turn.own, e)
<1>6. /\ own \in Seq(Entries) /\ Ids(own) = Ids(turn.own) \cup {added + 1}
      /\ Rising(own) /\ own # <<>>
  BY <1>1, <1>2, <1>4, AppendIds
<1> HIDE DEF own
<1>7. /\ turn'.at \in {"closing", "running"} /\ turn'.own = own /\ turn'.kept = turn.kept
      /\ turn' \in TurnRecords(added)
  BY <1>3, <1>6 DEF LegacyInv, LegacyTypes, Places, own
<1>8. /\ asks'.at = asks.at /\ asks'.keep = asks.keep /\ asks'.batch = asks.batch
      /\ asks'.skipped = asks.skipped
      /\ asks'.since = IF asks.at \in {"asking", "told"} THEN asks.since + 1 ELSE asks.since
      /\ asks' \in AskRecords(added)
  <2> DEFINE since == IF asks.at \in {"asking", "told"} THEN asks.since + 1 ELSE asks.since
  <2>1. asks \in AskRecords(added)
    BY DEF LegacyInv, LegacyTypes
  <2>2. since \in Nat /\ asks' = [asks EXCEPT !.since = since]
    BY <1>3, <2>1
  <2>3. asks'.since = since
    BY <2>1, <2>2
  <2> HIDE DEF since
  <2>4. /\ asks'.at = asks.at /\ asks'.keep = asks.keep /\ asks'.batch = asks.batch
        /\ asks'.skipped = asks.skipped
        /\ asks' \in AskRecords(added)
    BY <2>1, <2>2
  <2> QED
    BY <2>3, <2>4 DEF since
<1>9. 1 .. added' = 1 .. added \cup {added + 1} /\ SUBSET (1 .. added) \subseteq SUBSET (1 .. added')
  BY <1>1, <1>3
<1>10. LegacyTypeOK'
  <2>1. Ids(stored') \cup told' \cup gone' \cup lapsed' \subseteq 1 .. added'
    BY <1>3, <1>5, <1>9 DEF LegacyInv, LegacyTypeOK, ghosts
  <2>2. turn'.at \in {"closing", "running"} /\ asks'.at \in {"off", "started", "asking", "told"}
    BY <1>7, <1>8 DEF LegacyInv, LegacyTypeOK
  <2> QED
    BY <1>1, <1>3, <2>1, <2>2 DEF LegacyInv, LegacyTypeOK, ghosts
<1>11. LegacyTypes'
  <2>1. /\ stored' \in Seq(Entries) /\ Rising(stored') /\ Ids(stored') \subseteq 1 .. added'
    BY <1>1, <1>5, <1>9
  <2>2. /\ restore' \in [history : Seq(Entries), told : SUBSET (1 .. added')]
        /\ Rising(restore'.history) /\ Ids(restore'.history) \subseteq 1 .. added'
    BY <1>3, <1>9 DEF LegacyInv, LegacyTypes
  <2>3. /\ turn' \in TurnRecords(added')
        /\ turn'.own # <<>>
    BY <1>6, <1>7, <1>9
  <2>4. Rising(turn'.own) /\ Ids(turn'.own) \subseteq 1 .. added'
    BY <1>1, <1>6, <1>7, <1>9
  <2>5. Rising(turn'.kept) /\ Ids(turn'.kept) \subseteq 1 .. added'
    BY <1>7, <1>9 DEF LegacyInv, LegacyTypes
  <2>6. asks' \in AskRecords(added')
    BY <1>8, <1>9
  <2> QED
    BY <2>1, <2>2, <2>3, <2>4, <2>5, <2>6 DEF LegacyTypes
<1>12. displaced' + asks'.since <= added'
  <2>1. displaced + asks.since <= added /\ asks.since \in Nat
    BY DEF LegacyInv, LegacyTypes
  <2>2. displaced' = displaced
    BY <1>3 DEF ghosts
  <2> QED
    BY <1>1, <1>3, <1>8, <2>1, <2>2
<1>13. Returns'
  <2>1. Ids(stored) \subseteq Ids(restore.history) \cup Ids(turn.own)
    BY DEF LegacyInv, Returns, Going
  <2> QED
    BY <1>3, <1>5, <1>6, <1>7, <2>1 DEF Returns
<1>14. Going /\ Reach' \subseteq Reach \cup {added + 1} /\ added + 1 \in Ids(stored')
  <2>1. Going /\ ~Compressing' /\ restore' = restore
    BY <1>3, <1>7 DEF Going, Compressing
  <2> QED
    BY <1>5, <2>1 DEF Reach
<1>15. Counted'
  <2>1. asks'.at \in {"off", "started"} => asks'.since = 0
    BY <1>8 DEF LegacyInv, Counted
  <2>2. asks'.at = "started" => Reach' \subseteq Ids(stored')
    BY <1>5, <1>8, <1>14 DEF LegacyInv, Counted
  <2>3. asks'.at = "told" => asks'.batch \subseteq told' \cup lapsed'
    BY <1>3, <1>8 DEF LegacyInv, Counted, ghosts
  <2>4. Taken' = Taken
    BY <1>8 DEF Taken
  <2>5. ASSUME asks.at \in {"asking", "told"}
        PROVE  /\ Cardinality(Reach' \ Taken) <= asks'.keep + asks'.since
               /\ \A x \in Taken, y \in Reach' \ Taken : x < y
    <3>1. /\ Cardinality(Reach \ Taken) <= asks.keep + asks.since
          /\ \A x \in Taken, y \in Reach \ Taken : x < y
          /\ asks.keep \in Nat /\ asks.since \in Nat /\ Taken \subseteq 1 .. added
      BY <2>5 DEF LegacyInv, Counted, LegacyTypes, Taken
    <3> DEFINE R == Reach \ Taken
    <3>2. IsFiniteSet(R)
      BY ReachFinite
    <3>3. IsFiniteSet(R \cup {added + 1}) /\ Cardinality(R \cup {added + 1}) <= Cardinality(R) + 1
          /\ Cardinality(R) \in Nat
      <4> HIDE DEF R
      <4>1. Cardinality(R) \in Nat
        BY <3>2, FS_CardinalityType
      <4>2. /\ IsFiniteSet(R \cup {added + 1})
            /\ Cardinality(R \cup {added + 1}) =
                 IF added + 1 \in R THEN Cardinality(R) ELSE Cardinality(R) + 1
        BY <3>2, FS_AddElement
      <4> QED
        BY <4>1, <4>2
    <3>4. Reach' \ Taken \subseteq R \cup {added + 1}
      BY <1>14
    <3>5. /\ Cardinality(Reach' \ Taken) <= Cardinality(R \cup {added + 1})
          /\ Cardinality(Reach' \ Taken) \in Nat /\ Cardinality(R \cup {added + 1}) \in Nat
      <4> HIDE DEF R
      <4> QED
        BY <3>3, <3>4, FS_Subset, FS_CardinalityType
    <3>6. asks'.keep = asks.keep /\ asks'.since = asks.since + 1
      BY <1>8, <2>5
    <3>7. \A x \in Taken, y \in Reach' \ Taken : x < y
      BY <1>1, <3>1, <3>4
    <3> HIDE DEF R
    <3>8. Cardinality(R) <= asks.keep + asks.since
      BY <3>1 DEF R
    <3> QED
      BY <3>1, <3>3, <3>5, <3>6, <3>7, <3>8
  <2> QED
    BY <1>8, <2>1, <2>2, <2>3, <2>4, <2>5 DEF Counted
<1>16. LeavesTold'
  <2>1. /\ displaced' = displaced /\ told \cup lapsed \subseteq told' \cup lapsed'
        /\ gone \subseteq gone'
    BY <1>3 DEF ghosts
  <2>2. /\ 1 .. added' \subseteq 1 .. added \cup Ids(stored')
        /\ Ids(stored) \subseteq Ids(stored') \cup gone'
    BY <1>5, <1>9
  <2> QED
    BY <1>1, <2>1, <2>2, NoneLost DEF LegacyInv
<1> QED
  BY <1>10, <1>11, <1>12, <1>13, <1>15, <1>16 DEF LegacyInv


\* The messages a turn stores.
LEMMA StoredMessages ==
  ASSUME LegacyInv
  PROVE  /\ User \in Proper
         /\ turn.at = "running" =>
              \A m \in NextMessages(Last(turn.own).msg) : m \in Proper
<1>1. User \in Proper /\ Answer \in Proper /\ Call(1) \in Proper /\ Call(2) \in Proper
  BY DEF User, Answer, Call, Message, Proper, Known
<1>2. ASSUME turn.at = "running" PROVE Last(turn.own).msg \in Proper
  <2>1. turn.own \in Seq(Entries) /\ turn.own # <<>>
    BY <1>2 DEF LegacyInv, LegacyTypes
  <2>2. PICK n \in Nat : n = Len(turn.own) /\ n > 0
    BY <2>1, LenProperties, EmptySeq
  <2>3. turn.own[n] \in Entries
    BY <2>1, <2>2, ElementOfSeq
  <2> QED
    BY <2>2, <2>3 DEF Last, Entries
<1>3. ASSUME NEW last \in Proper, NEW m \in NextMessages(last) PROVE m \in Proper
  <2>1. last.n \in Nat /\ last.k \in Nat
    BY DEF Proper, Known
  <2>2. Result(last.n, 1) \in Proper /\ Result(last.n, last.k + 1) \in Proper
    BY <2>1 DEF Result, Message, Proper, Known
  <2> QED
    BY <1>1, <1>3, <2>2 DEF NextMessages
<1> QED
  BY <1>1, <1>2, <1>3

\* The turn is over; the summariser may be started.
LEMMA LegacyEnds ==
  ASSUME LegacyInv, EndTurn
  PROVE  LegacyInv'
<1>1. /\ turn.at = "closing" /\ turn' = Idle
      /\ asks' = asks \/ (asks.at = "off" /\ asks' = [Off EXCEPT !.at = "started"])
      /\ UNCHANGED <<stored, told, turns, restore, added, gone, lapsed, displaced>>
  BY DEF EndTurn, ghosts
<1>2. LegacyTypeOK'
  BY <1>1 DEF LegacyInv, LegacyTypeOK, Idle, Off
<1>3. LegacyTypes'
  <2>1. asks' \in AskRecords(added)
    <3>1. CASE asks' = asks
      BY <1>1, <3>1 DEF LegacyInv, LegacyTypes
    <3>2. CASE asks' = [Off EXCEPT !.at = "started"]
      BY <1>1, <3>2 DEF LegacyInv, LegacyTypes, Off
    <3> QED
      BY <1>1, <3>1, <3>2
  <2> QED
    BY <1>1, <2>1, EmptyHistory DEF LegacyInv, LegacyTypes, Idle, Places
<1>4. Returns'
  BY <1>1 DEF Returns, Going, Idle
<1>5. Reach' = Ids(stored') /\ Reach' \subseteq Reach
  BY <1>1 DEF Reach, Going, Compressing, Idle
<1>6. CASE asks' = asks
  BY <1>1, <1>2, <1>3, <1>4, <1>5, <1>6, QuietLegacy
<1>7. CASE asks.at = "off" /\ asks' = [Off EXCEPT !.at = "started"]
  <2>1. Counted'
    BY <1>5, <1>7 DEF Counted, Off
  <2>2. LeavesTold'
    BY <1>1, NoneLost DEF LegacyInv, LegacyTypeOK
  <2>3. displaced' + asks'.since <= added'
    BY <1>1, <1>7 DEF LegacyInv, LegacyTypeOK, LegacyTypes, Off
  <2> QED
    BY <1>2, <1>3, <1>4, <2>1, <2>2, <2>3 DEF LegacyInv
<1> QED
  BY <1>1, <1>6, <1>7


\* The summariser reads: what it takes comes before what it keeps.
LEMMA LegacyReadsSession ==
  ASSUME LegacyInv, ReadSession
  PROVE  LegacyInv'
<1> DEFINE cut    == SummaryCut(stored)
           taken  == SubSeq(stored, 1, cut)
           chosen == {taken[i].id : i \in {j \in DOMAIN taken : Valid(taken[j])}}
           read   == [at |-> "asking", keep |-> KeepCount(stored, cut), batch |-> chosen,
                      skipped |-> Ids(taken) \ chosen, told |-> told, since |-> 0]
<1>1. /\ asks.at = "started"
      /\ UNCHANGED <<stored, told, turn, turns, restore, added, gone, lapsed, displaced>>
      /\ asks' = IF Len(stored) <= KeepRecent \/ cut <= 0 \/ chosen = {} THEN Off ELSE read
  BY DEF ReadSession, ghosts
<1>2. /\ stored \in Seq(Entries) /\ Rising(stored) /\ Ids(stored) \subseteq 1 .. added
      /\ KeepRecent \in Nat
  BY LegacyAssumption DEF LegacyInv, LegacyTypes
<1>3. PICK n \in Nat : n = Len(stored)
  BY <1>2, LenProperties
<1>4. cut \in 0 .. n
  <2>1. Messages(stored) \in Seq(Known) /\ Len(Messages(stored)) = n
    BY <1>2, <1>3, MessagesType
  <2>2. n - KeepRecent \in Int /\ cut = SafeBoundary(Messages(stored), n - KeepRecent)
    BY <1>2, <1>3 DEF SummaryCut
  <2> HIDE DEF cut
  <2> QED
    BY <2>1, <2>2, BoundaryIs
<1> HIDE DEF cut
<1> DEFINE kept == KeepLast(stored, n - cut)
<1>5. /\ taken \in Seq(Entries) /\ Ids(taken) \subseteq Ids(stored)
      /\ Ids(stored) = Ids(taken) \cup Ids(kept)
      /\ \A x \in Ids(taken), y \in Ids(kept) : x < y
      /\ IsFiniteSet(Ids(kept)) /\ Cardinality(Ids(kept)) = n - cut
  <2>1. n - cut \in 0 .. n /\ n - (n - cut) = cut
    BY <1>4
  <2>2. /\ kept \in Seq(Entries) /\ Len(kept) = n - cut /\ Rising(kept)
        /\ Ids(stored) = Ids(taken) \cup Ids(kept)
        /\ \A x \in Ids(taken), y \in Ids(kept) : x < y
    BY <1>2, <1>3, <2>1, LastOf
  <2>3. taken \in Seq(Entries) /\ Ids(taken) \subseteq Ids(stored)
    <3>1. 1 \in 1 .. n + 1 /\ cut \in 1 - 1 .. n
      BY <1>4
    <3> QED
      BY <1>2, <1>3, <3>1, PartOf
  <2> HIDE DEF kept, taken
  <2> QED
    BY <2>2, <2>3, CountIds
<1> HIDE DEF kept
<1>6. chosen \subseteq Ids(taken)
  BY DEF Ids
<1> HIDE DEF chosen
<1>7. chosen \in SUBSET (1 .. added) /\ Ids(taken) \ chosen \in SUBSET (1 .. added)
  BY <1>2, <1>5, <1>6
<1>8. CASE asks' = Off
  <2>1. LegacyTypeOK'
    BY <1>1, <1>8 DEF LegacyInv, LegacyTypeOK, Off
  <2>2. LegacyTypes'
    BY <1>1, <1>8, TypesStay DEF LegacyInv
  <2>3. Returns' /\ Reach' = Reach
    BY <1>1 DEF LegacyInv, Returns, Going, Reach, Compressing
  <2>4. asks'.at # "started"
    BY <1>8 DEF Off
  <2> QED
    BY <1>1, <1>8, <2>1, <2>2, <2>3, <2>4, QuietLegacy
<1>9. CASE asks' = read
  <2> DEFINE rest == Ids(taken) \ chosen
  <2>1. /\ asks'.at = "asking" /\ asks'.keep = n - cut /\ asks'.since = 0
        /\ asks'.batch = chosen /\ asks'.skipped = rest
        /\ asks' \in AskRecords(added)
    <3>1. KeepCount(stored, cut) = n - cut /\ n - cut \in Nat
      BY <1>3, <1>4 DEF KeepCount
    <3>2. told \in SUBSET (1 .. added)
      BY DEF LegacyInv, LegacyTypeOK
    <3> HIDE DEF rest
    <3>3. read = [at |-> "asking", keep |-> n - cut, batch |-> chosen,
                  skipped |-> rest, told |-> told, since |-> 0]
      BY <3>1 DEF rest
    <3>4. rest \in SUBSET (1 .. added)
      BY <1>7 DEF rest
    <3> HIDE DEF read
    <3> QED
      BY <1>7, <1>9, <3>1, <3>2, <3>3, <3>4
  <2>2. LegacyTypeOK'
    BY <1>1, <2>1 DEF LegacyInv, LegacyTypeOK
  <2>3. LegacyTypes'
    BY <1>1, <2>1 DEF LegacyInv, LegacyTypes
  <2>4. Returns' /\ Reach' = Reach /\ Reach = Ids(stored)
    BY <1>1 DEF LegacyInv, Returns, Counted, Going, Reach, Compressing
  <2>5. Taken' = Ids(taken)
    BY <1>6, <2>1 DEF Taken
  <2>6. Reach' \ Taken' \subseteq Ids(kept)
    BY <1>5, <2>4, <2>5
  <2>7. Cardinality(Reach' \ Taken') <= n - cut
    BY <1>5, <2>6, FS_Subset
  <2>8. Counted'
    <3>1. n - cut + 0 = n - cut
      BY <1>4
    <3>2. \A x \in Taken', y \in Reach' \ Taken' : x < y
      BY <1>5, <2>5, <2>6
    <3> QED
      BY <2>1, <2>7, <3>1, <3>2 DEF Counted
  <2>9. LeavesTold'
    BY <1>1, NoneLost DEF LegacyInv, LegacyTypeOK
  <2>10. displaced' + asks'.since <= added'
    BY <1>1, <2>1 DEF LegacyInv, LegacyTypeOK, LegacyTypes
  <2> QED
    BY <2>2, <2>3, <2>4, <2>8, <2>9, <2>10 DEF LegacyInv
<1> QED
  BY <1>1, <1>8, <1>9

\* It writes a summary that tells of what it took and did not skip.
LEMMA LegacyWrites ==
  ASSUME LegacyInv, WriteSummary
  PROVE  LegacyInv'
<1>1. /\ asks.at = "asking" /\ asks' = [asks EXCEPT !.at = "told"]
      /\ UNCHANGED <<stored, turn, turns, restore, added, gone, displaced>>
  BY DEF WriteSummary
<1>2. PICK new \in Summaries : SetSummary(new)
  BY DEF WriteSummary
<1>3. /\ asks \in AskRecords(added)
  BY DEF LegacyInv, LegacyTypes
<1>4. new \in SUBSET (1 .. added) /\ asks.batch \subseteq new
  BY <1>3 DEF Summaries
<1>5. told \cup lapsed \subseteq told' \cup lapsed' /\ told' = new
  BY <1>2, SummaryKeeps
<1>6. lapsed' \subseteq 1 .. added
  BY <1>2 DEF SetSummary, LegacyInv, LegacyTypeOK
<1>7. /\ asks'.at = "told" /\ asks'.keep = asks.keep /\ asks'.since = asks.since
      /\ asks'.batch = asks.batch /\ asks'.skipped = asks.skipped
      /\ asks' \in AskRecords(added)
  BY <1>1, <1>3
<1>8. LegacyTypeOK'
  BY <1>1, <1>4, <1>5, <1>6, <1>7 DEF LegacyInv, LegacyTypeOK
<1>9. LegacyTypes'
  BY <1>1, <1>7 DEF LegacyInv, LegacyTypes
<1>10. Returns' /\ Reach' = Reach /\ Taken' = Taken
  BY <1>1, <1>7 DEF LegacyInv, Returns, Reach, Going, Compressing, Taken
<1>11. Counted'
  <2>1. /\ Cardinality(Reach \ Taken) <= asks.keep + asks.since
        /\ \A x \in Taken, y \in Reach \ Taken : x < y
    BY <1>1 DEF LegacyInv, Counted
  <2> QED
    BY <1>4, <1>5, <1>7, <1>10, <2>1 DEF Counted
<1>12. LeavesTold'
  BY <1>1, <1>5, NoneLost DEF LegacyInv, LegacyTypeOK
<1>13. displaced' + asks'.since <= added'
  BY <1>1, <1>7 DEF LegacyInv
<1> QED
  BY <1>8, <1>9, <1>10, <1>11, <1>12, <1>13 DEF LegacyInv


\* It truncates.  If a message goes that it did not take, then all that stay are such,
\* as many as it keeps, so those that go untold are no more than came since it read.
LEMMA LegacyTruncates ==
  ASSUME LegacyInv, Truncate
  PROVE  LegacyInv'
<1>1. /\ asks.at = "told" /\ asks' = Off
      /\ stored' = KeepLast(stored, asks.keep) /\ gone' = gone \cup asks.skipped
      /\ displaced' = displaced + asks.since
      /\ UNCHANGED <<told, turn, turns, restore, added, lapsed>>
  BY DEF Truncate
<1>2. /\ stored \in Seq(Entries) /\ Rising(stored) /\ Ids(stored) \subseteq 1 .. added
      /\ asks.keep \in Nat /\ asks.since \in Nat
      /\ asks.batch \subseteq 1 .. added /\ asks.skipped \subseteq 1 .. added
      /\ added \in Nat /\ displaced \in Nat /\ added \in 0 .. MaxMessages
      /\ displaced + asks.since <= added
  BY LegacyAssumption DEF LegacyInv, LegacyTypes, LegacyTypeOK
<1>3. PICK n \in Nat : n = Len(stored)
  BY <1>2, LenProperties
<1> DEFINE keep == IF asks.keep < n THEN asks.keep ELSE n
           part == SubSeq(stored, 1, n - keep)
           D    == Ids(part) \ Taken
           R    == Ids(stored')
<1>4. keep \in 0 .. n /\ stored' = KeepLast(stored, keep)
  BY <1>1, <1>2, <1>3 DEF KeepLast
<1> HIDE DEF keep
<1>5. /\ stored' \in Seq(Entries) /\ Len(stored') = keep /\ Rising(stored')
      /\ Ids(stored) = Ids(part) \cup R
      /\ \A x \in Ids(part), y \in R : x < y
  BY <1>2, <1>3, <1>4, LastOf
<1> HIDE DEF part
<1>6. IsFiniteSet(R) /\ Cardinality(R) = keep
  BY <1>5, CountIds
<1> HIDE DEF R
<1>7. R \subseteq Ids(stored) /\ Ids(part) \subseteq Ids(stored) /\ R = Ids(stored')
  BY <1>5 DEF R
<1>8. LegacyTypeOK'
  <2>1. displaced' \in 0 .. MaxMessages
    BY <1>1, <1>2, LegacyAssumption
  <2>2. Ids(stored') \cup told' \cup gone' \cup lapsed' \subseteq 1 .. added'
    BY <1>1, <1>2, <1>7 DEF LegacyInv, LegacyTypeOK
  <2> QED
    BY <1>1, <2>1, <2>2 DEF LegacyInv, LegacyTypeOK, Off
<1>9. LegacyTypes'
  BY <1>1, <1>2, <1>5, <1>7 DEF LegacyInv, LegacyTypes, Off
<1>10. Returns'
  BY <1>1, <1>7 DEF LegacyInv, Returns, Going
<1>11. Counted'
  BY <1>1 DEF Counted, Off
<1>12. /\ Taken \subseteq told' \cup lapsed' \cup gone'
       /\ Cardinality(Reach \ Taken) <= asks.keep + asks.since
       /\ \A x \in Taken, y \in Reach \ Taken : x < y
  BY <1>1 DEF LegacyInv, Counted, Taken
<1>13. IsFiniteSet(Reach \ Taken) /\ Ids(stored) \subseteq Reach
  BY ReachFinite DEF Reach
<1>14. IsFiniteSet(D) /\ Cardinality(D) <= asks.since /\ Cardinality(D) \in Nat
  <2>1. D \subseteq Reach \ Taken
    BY <1>7, <1>13
  <2>2. IsFiniteSet(D) /\ Cardinality(D) \in Nat
    <3> HIDE DEF D
    <3> QED
      BY <1>13, <2>1, FS_Subset, FS_CardinalityType
  <2>3. CASE D = {}
    BY <1>2, <2>2, <2>3, FS_EmptySet
  <2>4. CASE D # {}
    <3>1. PICK x \in D : TRUE
      BY <2>4
    <3>2. R \cap Taken = {}
      <4> SUFFICES ASSUME NEW y \in R, y \in Taken PROVE FALSE
        OBVIOUS
      <4>1. x < y
        BY <1>5, <3>1
      <4>2. y < x
        BY <1>12, <2>1, <3>1
      <4>3. x \in Nat /\ y \in Nat
        BY <1>2, <1>7, <3>1
      <4> QED
        BY <4>1, <4>2, <4>3
    <3>3. D \cap R = {}
      <4> SUFFICES ASSUME NEW y \in R, y \in D PROVE FALSE
        OBVIOUS
      <4>1. y < y /\ y \in Nat
        BY <1>2, <1>5, <1>7
      <4> QED
        BY <4>1
    <3>4. D \cup R \subseteq Reach \ Taken
      BY <1>7, <1>13, <2>1, <3>2
    <3> HIDE DEF D
    <3>5. Cardinality(D \cup R) = Cardinality(D) + keep
      <4>1. Cardinality(D \cap R) = 0
        BY <3>3, FS_EmptySet
      <4>2. Cardinality(D \cup R) = Cardinality(D) + Cardinality(R) - Cardinality(D \cap R)
        BY <1>6, <2>2, FS_Union
      <4>3. keep \in Nat
        BY <1>4
      <4> QED
        BY <1>6, <2>2, <4>1, <4>2, <4>3
    <3>6. Cardinality(D \cup R) <= asks.keep + asks.since
      <4>1. Cardinality(D \cup R) <= Cardinality(Reach \ Taken)
        BY <1>13, <3>4, FS_Subset
      <4>2. Cardinality(Reach \ Taken) \in Nat
        BY <1>13, FS_CardinalityType
      <4>3. keep \in Nat
        BY <1>4
      <4> QED
        BY <1>2, <1>12, <2>2, <3>5, <4>1, <4>2, <4>3
    <3>7. keep = asks.keep
      <4> SUFFICES ASSUME keep # asks.keep PROVE FALSE
        OBVIOUS
      <4>1. n - keep = 0
        BY <1>3 DEF keep
      <4>2. part = <<>>
        BY <4>1, SubSeqEmpty DEF part
      <4> QED
        BY <3>1, <4>2, EmptyHistory DEF D
    <3> QED
      BY <1>2, <2>2, <3>5, <3>6, <3>7
  <2> QED
    BY <2>3, <2>4
<1>15. LeavesTold'
  <2> DEFINE U == 1 .. added \ (Ids(stored) \cup told \cup lapsed \cup gone)
             V == 1 .. added' \ (Ids(stored') \cup told' \cup lapsed' \cup gone')
  <2>1. V \subseteq U \cup D
    BY <1>1, <1>5, <1>7, <1>12
  <2>2. IsFiniteSet(U) /\ Cardinality(U) \in Nat /\ Cardinality(U) <= displaced
    <3>1. IsFiniteSet(1 .. added)
      <4>1. 1 \in Int /\ added \in Int
        BY <1>2
      <4> QED
        BY <4>1, FS_Interval
    <3>2. IsFiniteSet(U)
      BY <3>1, FS_Difference
    <3>3. Cardinality(U) <= displaced
      BY DEF LegacyInv, LeavesTold
    <3> QED
      BY <3>2, <3>3, FS_CardinalityType
  <2> HIDE DEF U, V, D
  <2>3. /\ IsFiniteSet(U \cup D)
        /\ Cardinality(U \cup D) = Cardinality(U) + Cardinality(D) - Cardinality(U \cap D)
    BY <1>14, <2>2, FS_Union
  <2>4. Cardinality(U \cap D) \in Nat
    <3>1. IsFiniteSet(U \cap D)
      BY <2>2, FS_Intersection
    <3> QED
      BY <3>1, FS_CardinalityType
  <2>5. /\ Cardinality(V) <= Cardinality(U \cup D)
        /\ Cardinality(V) \in Nat /\ Cardinality(U \cup D) \in Nat
    BY <2>1, <2>3, FS_Subset, FS_CardinalityType
  <2>6. Cardinality(V) <= displaced + asks.since
    BY <1>2, <1>14, <2>2, <2>3, <2>4, <2>5
  <2>7. Cardinality(V) <= displaced'
    BY <1>1, <2>6
  <2> QED
    BY <2>7 DEF V, LeavesTold
<1>16. displaced' + asks'.since <= added'
  <2>1. asks'.since = 0
    BY <1>1 DEF Off
  <2> QED
    BY <1>1, <1>2, <2>1
<1> QED
  BY <1>8, <1>9, <1>10, <1>11, <1>15, <1>16 DEF LegacyInv

LEMMA LegacyStep ==
  ASSUME LegacyInv, [LegacyNext]_legacyVars
  PROVE  LegacyInv'
<1>1. CASE BeginTurn
  BY <1>1, LegacyBegin
<1>2. CASE StoreUser
  BY <1>2, StoredMessages, LegacyStores DEF StoreUser
<1>3. CASE StoreNext
  <2>1. PICK m \in NextMessages(Last(turn.own).msg) : Store(m) /\ turn.at = "running"
    BY <1>3 DEF StoreNext
  <2>2. m \in Proper
    BY <2>1, StoredMessages
  <2> QED
    BY <2>1, <2>2, LegacyStores
<1>4. CASE EndTurn
  BY <1>4, LegacyEnds
<1>5. CASE FailTurn \/ Crash \/ NoSummary
  BY <1>5, LegacyStops
<1>6. CASE RestoreHistory
  BY <1>6, LegacyRestores
<1>7. CASE RestoreSummary \/ ClearSummary \/ SetNote
  BY <1>7, LegacySetsSummary
<1>8. CASE Clear
  BY <1>8, LegacyClears
<1>9. CASE ReadHistory \/ ReadSummary
  BY <1>9, LegacyReads
<1>10. CASE SetKept
  BY <1>10, LegacyStoresKept
<1>11. CASE Refresh
  BY <1>11, LegacyRefreshes
<1>12. CASE ReadSession
  BY <1>12, LegacyReadsSession
<1>13. CASE WriteSummary
  BY <1>13, LegacyWrites
<1>14. CASE Truncate
  BY <1>14, LegacyTruncates
<1>15. CASE UNCHANGED legacyVars
  BY <1>15 DEF legacyVars, LegacyInv, LegacyTypeOK, LegacyTypes, Returns, Going, Counted,
               Reach, Compressing, Taken, LeavesTold
<1> QED
  BY <1>1, <1>2, <1>3, <1>4, <1>5, <1>6, <1>7, <1>8, <1>9, <1>10, <1>11, <1>12, <1>13,
     <1>14, <1>15 DEF LegacyNext, Turn, Summarise

\* The legacy context manager keeps its types, and a message leaves the history only
\* after a summary has told of it, or for a reason of its own, save for as many as were
\* stored while a summary was made; whatever session it goes on from.
THEOREM ResumedSafety ==
  Resumed /\ [][LegacyNext]_legacyVars => [](LegacyTypeOK /\ LeavesTold)
<1>1. Resumed => LegacyInv
  BY LegacyStart
<1>2. LegacyInv /\ [LegacyNext]_legacyVars => LegacyInv'
  BY LegacyStep
<1>3. LegacyInv => LegacyTypeOK /\ LeavesTold
  BY DEF LegacyInv
<1> QED
  BY <1>1, <1>2, <1>3, PTL

\* So for a session that begins empty.
THEOREM LegacySafety == LegacySpec => [](LegacyTypeOK /\ LeavesTold)
<1>1. LegacyInit => Resumed
  BY InitResumed
<1> QED
  BY <1>1, ResumedSafety, PTL DEF LegacySpec

\* What a session's history ever is, is shown with every call followed by its results,
\* and is cut, wherever it is, without separating them.
THEOREM LegacyHistories == LegacySpec => [](SanitizedIsPaired /\ CutsKeepPairs)
<1>1. LegacyInit => LegacyInv
  BY InitResumed, LegacyStart
<1>2. LegacyInv /\ [LegacyNext]_legacyVars => LegacyInv'
  BY LegacyStep
<1>3. LegacyInv => SanitizedIsPaired /\ CutsKeepPairs
  <2> SUFFICES ASSUME LegacyInv PROVE SanitizedIsPaired /\ CutsKeepPairs
    OBVIOUS
  <2>1. stored \in Seq(Entries)
    BY DEF LegacyInv, LegacyTypes
  <2>2. Messages(stored) \in Seq(Proper) /\ Messages(stored) \in Seq(Known)
    BY <2>1, MessagesType
  <2> QED
    BY <2>2, SanitizedOnce, CutsArePaired
<1> QED
  BY <1>1, <1>2, <1>3, PTL DEF LegacySpec

===============================================================================
