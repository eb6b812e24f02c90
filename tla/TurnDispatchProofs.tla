-------------------------- MODULE TurnDispatchProofs --------------------------
(***************************************************************************)
(* Proofs about TurnDispatch, for every number of messages, every set of   *)
(* sessions, every pool and queue size and both steering modes.            *)
(*                                                                         *)
(* First claims and slots; then the order of messages.                     *)
(*                                                                         *)
(* IInv is inductive.  Its parts disturb each other only through the step  *)
(* of one worker at a time, so the first lemmas say what a change of one   *)
(* worker's step, or one operation of the steering queue, preserves; the   *)
(* step lemma then goes through the actions.                               *)
(***************************************************************************)
EXTENDS TurnDispatch, FiniteSetTheorems, SequenceTheorems, TLAPS

\* There are finitely many messages from the bus, so their workers can be counted.
LEMMA InboundFinite ==
  ASSUME NEW S \in SUBSET Inbound
  PROVE  IsFiniteSet(S) /\ Cardinality(S) \in Nat
<1>1. IsFiniteSet(Inbound)
  BY FS_Interval, DispatchAssumption DEF Inbound
<1>2. IsFiniteSet(S)
  BY <1>1, FS_Subset
<1> QED
  BY <1>2, FS_CardinalityType

-------------------------------------------------------------------------------
(* The steering queue. *)

\* pushScope never overfills a queue.
LEMMA PushScopeBound ==
  ASSUME TypeOK, NEW s \in Scopes, NEW x \in Inbound \cup ApiMsgs,
         PushScope(s, x)
  PROVE  /\ queues' \in [Scopes -> Seq(Inbound \cup ApiMsgs)]
         /\ \A t \in Scopes : Len(queues'[t]) <= MaxQueueSize
         /\ dropped' \subseteq Inbound \cup ApiMsgs
<1>1. CASE Len(queues[s]) >= MaxQueueSize
  BY <1>1 DEF PushScope, TypeOK
<1>2. CASE ~(Len(queues[s]) >= MaxQueueSize)
  <2>1. queues' = [queues EXCEPT ![s] = Append(queues[s], x)] /\ dropped' = dropped
    BY <1>2 DEF PushScope
  <2>2. queues[s] \in Seq(Inbound \cup ApiMsgs)
    BY DEF TypeOK
  <2>3. /\ Append(queues[s], x) \in Seq(Inbound \cup ApiMsgs)
        /\ Len(Append(queues[s], x)) = Len(queues[s]) + 1
    BY <2>2, AppendProperties
  <2>4. Len(queues[s]) + 1 <= MaxQueueSize
    BY <1>2, <2>2, LenProperties, DispatchAssumption
  <2> QED
    BY <2>1, <2>3, <2>4 DEF TypeOK
<1> QED
  BY <1>1, <1>2

\* A dequeue, in either mode, leaves a suffix and logs the rest.
LEMMA DequeueScopeBound ==
  ASSUME TypeOK, NEW m \in Inbound, NEW s \in Scopes, DequeueScope(m, s)
  PROVE  /\ queues' \in [Scopes -> Seq(Inbound \cup ApiMsgs)]
         /\ \A t \in Scopes : Len(queues'[t]) <= MaxQueueSize
         /\ log' \in Seq([msg : Inbound \cup ApiMsgs, by : Inbound])
<1> DEFINE q == queues[s]
           n == BatchSize(s)
           R == [msg : Inbound \cup ApiMsgs, by : Inbound]
           batch == [i \in 1 .. n |-> [msg |-> q[i], by |-> m]]
<1>1. /\ q \in Seq(Inbound \cup ApiMsgs)
      /\ Len(q) \in Nat
      /\ Len(q) <= MaxQueueSize
      /\ \A i \in 1 .. Len(q) : q[i] \in Inbound \cup ApiMsgs
  BY LenProperties, ElementOfSeq DEF TypeOK
<1>2. n \in 0 .. Len(q)
  BY <1>1, EmptySeq DEF BatchSize
<1>3. /\ SubSeq(q, n + 1, Len(q)) \in Seq(Inbound \cup ApiMsgs)
      /\ Len(SubSeq(q, n + 1, Len(q))) <= MaxQueueSize
  <2>1. \A i \in n + 1 .. Len(q) : q[i] \in Inbound \cup ApiMsgs
    BY <1>1, <1>2
  <2>2. n + 1 \in Int /\ Len(q) \in Int
    BY <1>1, <1>2
  <2> HIDE DEF q, n
  <2>3. /\ SubSeq(q, n + 1, Len(q)) \in Seq(Inbound \cup ApiMsgs)
        /\ Len(SubSeq(q, n + 1, Len(q))) =
             (IF n + 1 <= Len(q) THEN Len(q) - (n + 1) + 1 ELSE 0)
    BY <2>1, <2>2, SubSeqProperties
  <2> QED
    BY <2>3, <1>1, <1>2, DispatchAssumption
<1>4. batch \in Seq(R)
  <2> HIDE DEF q, n
  <2>1. \A i \in 1 .. n : [msg |-> q[i], by |-> m] \in R
    BY <1>1, <1>2
  <2>2. batch \in [1 .. n -> R]
    BY <2>1
  <2> QED
    BY <2>2, <1>2, SeqDef
<1>5. log \o batch \in Seq(R)
  <2> HIDE DEF batch, R
  <2> QED BY <1>4, ConcatProperties DEF TypeOK, R
<1>6. /\ queues' = [queues EXCEPT ![s] = SubSeq(q, n + 1, Len(q))]
      /\ log' = log \o batch
  BY DEF DequeueScope
<1> QED
  BY <1>1, <1>3, <1>5, <1>6 DEF TypeOK

\* A turn falls back to a scope that has a queue.
LEMMA FallbackScopeType ==
  ASSUME NEW s \in Sessions
  PROVE  FallbackScope(s) \in Scopes
BY DEF FallbackScope, Scopes

-------------------------------------------------------------------------------
(* The slots of the worker pool. *)

\* A worker that moves without touching the semaphore, and neither enters nor
\* leaves the steps in which a slot is held, keeps the count of the slots.
LEMMA SlotsKept ==
  ASSUME IInv, NEW m \in Inbound, NEW step \in Steps, Goto(m, step),
         workerSem' = workerSem,
         IF m \in SystemMsgs
         THEN step \in {"unborn", "run", "turn", "clear", "done"}
         ELSE pc[m] \in SlotSteps <=> step \in SlotSteps
  PROVE  SlotInv'
<1>1. SlotHolders' = SlotHolders
  BY DEF SlotHolders, IInv, TypeOK, Goto
<1>2. \A i \in SystemMsgs : pc'[i] \in {"unborn", "run", "turn", "clear", "done"}
  BY DispatchAssumption DEF IInv, SlotInv, TypeOK, Goto
<1> QED
  BY <1>1, <1>2 DEF IInv, SlotInv

\* Taking a slot adds its worker to those that hold one.
LEMMA SlotTaken ==
  ASSUME IInv, NEW m \in Inbound, NEW step \in SlotSteps, Goto(m, step),
         m \notin SystemMsgs, pc[m] \notin SlotSteps,
         workerSem' = workerSem + 1
  PROVE  SlotInv'
<1>1. SlotHolders' = SlotHolders \cup {m} /\ m \notin SlotHolders
  BY DEF SlotHolders, IInv, TypeOK, Goto
<1>2. IsFiniteSet(SlotHolders)
  BY InboundFinite DEF SlotHolders
<1>3. Cardinality(SlotHolders') = Cardinality(SlotHolders) + 1
  BY <1>1, <1>2, FS_AddElement
<1>4. \A i \in SystemMsgs : pc'[i] = pc[i]
  BY DispatchAssumption DEF IInv, TypeOK, Goto
<1> QED
  BY <1>3, <1>4 DEF IInv, SlotInv

\* Releasing a slot takes its worker from those that hold one.
LEMMA SlotFreed ==
  ASSUME IInv, NEW m \in Inbound, NEW step \in Steps \ SlotSteps, Goto(m, step),
         m \notin SystemMsgs, pc[m] \in SlotSteps,
         workerSem' = workerSem - 1
  PROVE  SlotInv' /\ workerSem' \in 0 .. MaxParallelTurns
<1>1. SlotHolders' = SlotHolders \ {m} /\ m \in SlotHolders
  BY DEF SlotHolders, IInv, TypeOK, Goto
<1>2. IsFiniteSet(SlotHolders) /\ IsFiniteSet(SlotHolders')
  BY InboundFinite DEF SlotHolders
<1>3. Cardinality(SlotHolders') = Cardinality(SlotHolders) - 1
  BY <1>1, <1>2, FS_RemoveElement
<1>4. Cardinality(SlotHolders') \in Nat
  BY <1>2, FS_CardinalityType
<1>5. \A i \in SystemMsgs : pc'[i] = pc[i]
  BY DispatchAssumption DEF IInv, TypeOK, Goto
<1>6. SlotInv'
  BY <1>3, <1>5 DEF IInv, SlotInv
<1> QED
  BY <1>3, <1>4, <1>6, DispatchAssumption DEF IInv, SlotInv, TypeOK

-------------------------------------------------------------------------------
(* Claims and the inbound channel. *)

\* A worker outside its turn keeps the claims it may own.
LEMMA ClaimsKept ==
  ASSUME IInv, NEW m \in Inbound, NEW step \in Steps, Goto(m, step),
         activeTurnStates' = activeTurnStates,
         pc[m] \notin {"turn", "clear"},
         \/ step \notin {"unborn", "turn", "clear", "done"}
         \/ pc[m] = "unborn"
         \/ m \in SystemMsgs
  PROVE  ClaimInv'
BY DEF IInv, ClaimInv, TypeOK, Goto

\* A deletion leaves no claim of the session, so it frees any worker of it.
LEMMA ClaimsDeleted ==
  ASSUME IInv, NEW m \in Inbound, NEW step \in Steps, Goto(m, step),
         Delete(SessionOf[m])
  PROVE  /\ ClaimInv'
         /\ activeTurnStates' \in [Sessions -> Entry]
<1>1. SessionOf[m] \in Sessions
  BY DispatchAssumption
<1>2. NoEntry \in Entry
  BY DEF NoEntry, Entry
<1>3. activeTurnStates' \in [Sessions -> Entry]
  BY <1>1, <1>2 DEF IInv, TypeOK, Delete, Store
<1>4. activeTurnStates'[SessionOf[m]] = NoEntry
  BY <1>1 DEF IInv, TypeOK, Delete, Store
<1>5. ASSUME NEW s \in Sessions, activeTurnStates'[s] # NoEntry
      PROVE  /\ activeTurnStates'[s] = activeTurnStates[s]
             /\ activeTurnStates[s].owner \in Inbound
             /\ SessionOf[activeTurnStates[s].owner] = s
             /\ activeTurnStates[s].owner # m
  BY <1>1, <1>4, <1>5 DEF IInv, TypeOK, ClaimInv, Delete, Store
<1> QED
  BY <1>3, <1>5 DEF IInv, TypeOK, ClaimInv, Goto

\* A worker stores an entry that fits the step it goes to.
LEMMA ClaimStored ==
  ASSUME IInv, NEW m \in Inbound, NEW step \in Steps, Goto(m, step),
         NEW b \in BOOLEAN, Store(SessionOf[m], [pending |-> b, owner |-> m]),
         IF b THEN m \notin SystemMsgs /\ step \notin {"unborn", "turn", "clear", "done"}
              ELSE step \in {"turn", "clear"}
  PROVE  /\ ClaimInv'
         /\ activeTurnStates' \in [Sessions -> Entry]
<1> DEFINE e == [pending |-> b, owner |-> m]
<1>1. SessionOf[m] \in Sessions
  BY DispatchAssumption
<1>2. e \in Entry /\ e.pending = b /\ e.owner = m
  BY DEF Entry
<1>3. activeTurnStates' \in [Sessions -> Entry]
  BY <1>1, <1>2 DEF IInv, TypeOK, Store
<1>4. ASSUME NEW s \in Sessions, activeTurnStates'[s] # NoEntry
      PROVE  \/ s = SessionOf[m] /\ activeTurnStates'[s] = e
             \/ /\ activeTurnStates'[s] = activeTurnStates[s]
                /\ activeTurnStates[s].owner \in Inbound
                /\ SessionOf[activeTurnStates[s].owner] = s
                /\ activeTurnStates[s].owner # m
  BY <1>1, <1>4 DEF IInv, TypeOK, ClaimInv, Store
<1>5. pc'[m] = step
  BY DEF IInv, TypeOK, Goto
<1>6. \A i \in Inbound : i # m => pc'[i] = pc[i]
  BY DEF IInv, TypeOK, Goto
<1> HIDE DEF e
<1> QED
  BY <1>2, <1>3, <1>4, <1>5, <1>6 DEF IInv, ClaimInv

\* A worker that was born already moves without touching the channel.
LEMMA ChannelKept ==
  ASSUME IInv, NEW m \in Inbound, NEW step \in Steps, Goto(m, step),
         arrived' = arrived, inbound' = inbound, pc[m] # "unborn"
  PROVE  ChannelInv'
BY DEF IInv, ChannelInv, TypeOK, Goto

\* The dispatcher takes the first message of the channel, whose worker is unborn.
LEMMA MessageReceived ==
  ASSUME IInv, NEW m \in Inbound, Receiving(m), arrived' = arrived,
         NEW step \in Steps, \/ Goto(m, step)
                             \/ pc' = pc
  PROVE  /\ ChannelInv'
         /\ inbound' \in Seq(Inbound)
         /\ pc[m] = "unborn"
<1>1. /\ inbound \in Seq(Inbound) /\ inbound # <<>>
      /\ Len(inbound) \in Nat \ {0}
      /\ arrived \in Nat
  BY EmptySeq, DispatchAssumption DEF Receiving, IInv, TypeOK
<1>2. /\ inbound' = Tail(inbound)
      /\ inbound' \in Seq(Inbound)
      /\ Len(inbound') = Len(inbound) - 1
      /\ \A i \in 1 .. Len(inbound') : inbound'[i] = inbound[i + 1]
  BY <1>1, HeadTailProperties DEF Receiving
<1>3. m = arrived - Len(inbound) + 1
  BY <1>1 DEF Receiving, IInv, ChannelInv
<1>4. pc[m] = "unborn"
  BY <1>1, <1>3 DEF IInv, ChannelInv
<1>5. \A i \in Inbound : i # m => pc'[i] = pc[i]
  BY DEF Goto, IInv, TypeOK
<1>6. Len(inbound') <= arrived'
  BY <1>1, <1>2 DEF IInv, ChannelInv
<1>7. \A i \in 1 .. Len(inbound') : inbound'[i] = arrived' - Len(inbound') + i
  BY <1>1, <1>2 DEF IInv, ChannelInv
<1>8. ASSUME NEW i \in Inbound, i > arrived' - Len(inbound')
      PROVE  pc'[i] = "unborn"
  <2>1. i \in Nat
    BY DispatchAssumption DEF Inbound
  <2>2. i > arrived - Len(inbound) /\ i # m
    BY <1>1, <1>2, <1>3, <1>8, <2>1
  <2> QED
    BY <1>5, <2>2 DEF IInv, ChannelInv
<1> QED
  BY <1>2, <1>4, <1>6, <1>7, <1>8 DEF ChannelInv

-------------------------------------------------------------------------------
(* First claims and slots; then the order of messages.                     *)
(*                                                                         *)
(* IInv is inductive. *)

\* No claim, no slot and no message: IInv holds at the start.
LEMMA InitInvariant == Init => IInv
<1> SUFFICES ASSUME Init PROVE IInv
  OBVIOUS
<1>1. TypeOK
  <2>1. /\ arrived \in 0 .. NumInbound
        /\ workerSem \in 0 .. MaxParallelTurns
        /\ \A s \in Scopes : Len(queues[s]) <= MaxQueueSize
    BY DispatchAssumption DEF Init
  <2>2. /\ activeTurnStates \in [Sessions -> Entry]
        /\ pc \in [Inbound -> Steps]
    BY DEF Init, Entry, NoEntry, Steps
  <2>3. /\ dispatcher \in [at : {"receive", "enqueue", "sync", "exited"},
                           msg : Inbound \cup {0}]
        /\ running \in BOOLEAN /\ ctxDone \in BOOLEAN
        /\ fresh \in [Inbound -> BOOLEAN]
        /\ continued \in [Inbound -> BOOLEAN]
        /\ outcome \in [Inbound -> TurnOutcomes \cup {"ok"}]
        /\ steer \in [ApiMsgs -> Scopes \cup {"idle", "done"}]
    BY DEF Init
  <2>4. /\ inbound \in Seq(Inbound)
        /\ queues \in [Scopes -> Seq(Inbound \cup ApiMsgs)]
        /\ log \in Seq([msg : Inbound \cup ApiMsgs, by : Inbound])
        /\ dropped \subseteq Inbound \cup ApiMsgs
    BY EmptySeq DEF Init
  <2> QED
    BY <2>1, <2>2, <2>3, <2>4 DEF TypeOK
<1>2. ClaimInv
  BY DEF Init, ClaimInv
<1>3. SlotInv
  <2>1. SlotHolders = {}
    BY DEF Init, SlotHolders, SlotSteps
  <2> QED
    BY <2>1, FS_EmptySet, DispatchAssumption DEF Init, SlotInv
<1>4. ChannelInv
  BY EmptySeq DEF Init, ChannelInv
<1> QED
  BY <1>1, <1>2, <1>3, <1>4 DEF IInv

\* The environment publishes, cancels, stops and steers; it moves no worker.
LEMMA EnvironmentStep ==
  ASSUME IInv, Environment
  PROVE  IInv'
<1>1. CASE Arrive
  <2>1. arrived + 1 \in Inbound /\ arrived \in Nat /\ inbound \in Seq(Inbound)
    BY <1>1, DispatchAssumption DEF Arrive, Inbound, IInv, TypeOK
  <2>2. /\ inbound' \in Seq(Inbound)
        /\ Len(inbound') = Len(inbound) + 1
        /\ \A i \in 1 .. Len(inbound) : inbound'[i] = inbound[i]
        /\ inbound'[Len(inbound) + 1] = arrived + 1
        /\ Len(inbound) \in Nat
    BY <1>1, <2>1, AppendProperties, LenProperties DEF Arrive
  <2>3. TypeOK'
    BY <1>1, <2>1, <2>2, DispatchAssumption DEF Arrive, IInv, TypeOK
  <2>4. ChannelInv'
    BY <1>1, <2>1, <2>2 DEF Arrive, IInv, ChannelInv
  <2>5. ClaimInv' /\ SlotInv'
    BY <1>1 DEF Arrive, IInv, ClaimInv, SlotInv, SlotHolders
  <2> QED
    BY <2>3, <2>4, <2>5 DEF IInv
<1>2. CASE Cancel \/ Stop
  <2>1. TypeOK'
    BY <1>2 DEF Cancel, Stop, IInv, TypeOK
  <2>2. UNCHANGED <<arrived, inbound, activeTurnStates, workerSem, pc>>
    BY <1>2 DEF Cancel, Stop
  <2> QED
    BY <2>1, <2>2 DEF IInv, ClaimInv, SlotInv, SlotHolders, ChannelInv
<1>3. ASSUME NEW a \in ApiMsgs, SteerRead(a)
      PROVE  IInv'
  BY <1>3 DEF SteerRead, IInv, TypeOK, ClaimInv, SlotInv, SlotHolders, ChannelInv
<1>4. ASSUME NEW a \in ApiMsgs, SteerPush(a)
      PROVE  IInv'
  <2>1. /\ queues' \in [Scopes -> Seq(Inbound \cup ApiMsgs)]
        /\ \A t \in Scopes : Len(queues'[t]) <= MaxQueueSize
        /\ dropped' \subseteq Inbound \cup ApiMsgs
    BY <1>4, PushScopeBound DEF SteerPush, IInv
  <2>2. TypeOK'
    BY <1>4, <2>1 DEF SteerPush, IInv, TypeOK
  <2> QED
    BY <1>4, <2>2 DEF SteerPush, IInv, ClaimInv, SlotInv, SlotHolders, ChannelInv
<1> QED
  BY <1>1, <1>2, <1>3, <1>4 DEF Environment

\* The dispatcher starts workers only for messages that never had one.
LEMMA DispatchStep ==
  ASSUME IInv, Dispatch
  PROVE  IInv'
<1>1. CASE RunExit
  BY <1>1 DEF RunExit, IInv, TypeOK, ClaimInv, SlotInv, SlotHolders, ChannelInv
<1>2. ASSUME NEW m \in Inbound, ReceiveSystem(m)
      PROVE  IInv'
  <2>1. Receiving(m) /\ m \in SystemMsgs /\ Goto(m, "run") /\ arrived' = arrived
    BY <1>2 DEF ReceiveSystem
  <2>2. ChannelInv' /\ inbound' \in Seq(Inbound) /\ pc[m] = "unborn"
    BY <2>1, MessageReceived DEF Steps
  <2>3. TypeOK'
    BY <1>2, <2>2 DEF ReceiveSystem, Goto, Steps, IInv, TypeOK
  <2>4. ClaimInv'
    BY <1>2, <2>1, <2>2, ClaimsKept DEF ReceiveSystem, Steps
  <2>5. SlotInv'
    BY <1>2, <2>1, SlotsKept DEF ReceiveSystem, Steps
  <2> QED
    BY <2>2, <2>3, <2>4, <2>5 DEF IInv
<1>3. ASSUME NEW m \in Inbound, ReceiveBusy(m)
      PROVE  IInv'
  <2>1. ChannelInv' /\ inbound' \in Seq(Inbound)
    BY <1>3, MessageReceived DEF ReceiveBusy, Steps
  <2>2. TypeOK'
    BY <1>3, <2>1 DEF ReceiveBusy, IInv, TypeOK
  <2> QED
    BY <1>3, <2>1, <2>2 DEF ReceiveBusy, IInv, ClaimInv, SlotInv, SlotHolders
<1>4. ASSUME NEW m \in Inbound, ReceiveClaim(m)
      PROVE  IInv'
  <2>1. /\ Receiving(m) /\ m \notin SystemMsgs
        /\ Goto(m, "waitSem") /\ arrived' = arrived
        /\ Store(SessionOf[m], [pending |-> TRUE, owner |-> m])
    BY <1>4 DEF ReceiveClaim
  <2>2. ChannelInv' /\ inbound' \in Seq(Inbound) /\ pc[m] = "unborn"
    BY <2>1, MessageReceived DEF Steps
  <2>3. ClaimInv' /\ activeTurnStates' \in [Sessions -> Entry]
    BY <2>1, ClaimStored DEF Steps
  <2>4. TypeOK'
    BY <1>4, <2>2, <2>3 DEF ReceiveClaim, Goto, Steps, IInv, TypeOK
  <2>5. SlotInv'
    BY <1>4, <2>1, <2>2, SlotsKept DEF ReceiveClaim, Steps, SlotSteps
  <2> QED
    BY <2>2, <2>3, <2>4, <2>5 DEF IInv
<1>5. ASSUME NEW m \in Inbound, Enqueue(m)
      PROVE  IInv'
  <2>1. SessionOf[m] \in Scopes
    BY DispatchAssumption DEF Scopes
  <2>2. /\ queues' \in [Scopes -> Seq(Inbound \cup ApiMsgs)]
        /\ \A t \in Scopes : Len(queues'[t]) <= MaxQueueSize
        /\ dropped' \subseteq Inbound \cup ApiMsgs
    BY <1>5, <2>1, PushScopeBound DEF Enqueue, IInv
  <2>3. TypeOK'
    BY <1>5, <2>2 DEF Enqueue, IInv, TypeOK
  <2> QED
    BY <1>5, <2>3 DEF Enqueue, IInv, ClaimInv, SlotInv, SlotHolders, ChannelInv
<1>6. ASSUME NEW m \in Inbound, SyncReturn(m)
      PROVE  IInv'
  BY <1>6 DEF SyncReturn, IInv, TypeOK, ClaimInv, SlotInv, SlotHolders, ChannelInv
<1> QED
  BY <1>1, <1>2, <1>3, <1>4, <1>5, <1>6 DEF Dispatch

\* A worker moves alone, deletes only entries that are its session's, and holds
\* a slot exactly while it is in SlotSteps.
LEMMA WorkerStep ==
  ASSUME IInv, NEW m \in Inbound, Worker(m)
  PROVE  IInv'
<1>1. CASE AcquireSlot(m)
  <2>1. /\ Goto(m, "run") /\ pc[m] = "waitSem" /\ workerSem' = workerSem + 1
        /\ m \notin SystemMsgs
    BY <1>1 DEF AcquireSlot, IInv, SlotInv
  <2>2. TypeOK'
    BY <1>1, DispatchAssumption DEF AcquireSlot, Goto, Steps, IInv, TypeOK
  <2>3. SlotInv'
    BY <2>1, SlotTaken DEF SlotSteps
  <2>4. ClaimInv'
    BY <1>1, <2>1, ClaimsKept DEF AcquireSlot, Steps
  <2>5. ChannelInv'
    BY <1>1, <2>1, ChannelKept DEF AcquireSlot, Steps
  <2> QED
    BY <2>2, <2>3, <2>4, <2>5 DEF IInv
<1>2. CASE AbandonWait(m)
  <2>1. /\ Goto(m, "done") /\ pc[m] = "waitSem" /\ Delete(SessionOf[m])
        /\ m \notin SystemMsgs
    BY <1>2 DEF AbandonWait, IInv, SlotInv
  <2>2. ClaimInv' /\ activeTurnStates' \in [Sessions -> Entry]
    BY <2>1, ClaimsDeleted DEF Steps
  <2>3. TypeOK'
    BY <1>2, <2>2 DEF AbandonWait, Goto, Steps, IInv, TypeOK
  <2>4. SlotInv'
    BY <1>2, <2>1, SlotsKept DEF AbandonWait, Steps, SlotSteps
  <2>5. ChannelInv'
    BY <1>2, <2>1, ChannelKept DEF AbandonWait, Steps
  <2> QED
    BY <2>2, <2>3, <2>4, <2>5 DEF IInv
<1>3. ASSUME NEW exit \in EarlyExits, EarlyExit(m, exit)
      PROVE  IInv'
  <2>1. PICK step \in {"drain", "release", "done"} :
          /\ Goto(m, step)
          /\ step = "done" <=> m \in SystemMsgs
    BY <1>3 DEF EarlyExit
  <2>2. pc[m] = "run" /\ UNCHANGED <<arrived, inbound, activeTurnStates, workerSem>>
    BY <1>3 DEF EarlyExit
  <2>3. step \in Steps
    BY <2>1 DEF Steps
  <2>4. TypeOK'
    BY <1>3, <2>1, <2>3 DEF EarlyExit, Goto, IInv, TypeOK
  <2>5. ClaimInv'
    BY <2>1, <2>2, <2>3, ClaimsKept
  <2>6. SlotInv'
    BY <2>1, <2>2, <2>3, SlotsKept DEF SlotSteps
  <2>7. ChannelInv'
    BY <2>1, <2>2, <2>3, ChannelKept
  <2> QED
    BY <2>4, <2>5, <2>6, <2>7 DEF IInv
<1>4. CASE RegisterTurn(m)
  <2>1. /\ Goto(m, "turn") /\ pc[m] \in {"run", "resume"}
        /\ Store(SessionOf[m], [pending |-> FALSE, owner |-> m])
    BY <1>4 DEF RegisterTurn
  <2>2. ClaimInv' /\ activeTurnStates' \in [Sessions -> Entry]
    BY <2>1, ClaimStored DEF Steps
  <2>3. TypeOK'
    BY <1>4, <2>2 DEF RegisterTurn, Goto, Steps, IInv, TypeOK
  <2>4. SlotInv'
    BY <1>4, <2>1, SlotsKept DEF RegisterTurn, Steps, SlotSteps
  <2>5. ChannelInv'
    BY <1>4, <2>1, ChannelKept DEF RegisterTurn, Steps
  <2> QED
    BY <2>2, <2>3, <2>4, <2>5 DEF IInv
<1>5. CASE FirstPoll(m)
  <2>1. DequeueScope(m, FallbackScope(SessionOf[m])) /\ FallbackScope(SessionOf[m]) \in Scopes
    BY <1>5, FallbackScopeType, DispatchAssumption DEF FirstPoll, Scopes
  <2>2. /\ queues' \in [Scopes -> Seq(Inbound \cup ApiMsgs)]
        /\ \A t \in Scopes : Len(queues'[t]) <= MaxQueueSize
        /\ log' \in Seq([msg : Inbound \cup ApiMsgs, by : Inbound])
    BY <2>1, DequeueScopeBound DEF IInv
  <2>3. TypeOK'
    BY <1>5, <2>2 DEF FirstPoll, IInv, TypeOK
  <2>4. UNCHANGED <<arrived, inbound, activeTurnStates, workerSem, pc>>
    BY <1>5 DEF FirstPoll
  <2> QED
    BY <2>3, <2>4 DEF IInv, ClaimInv, SlotInv, SlotHolders, ChannelInv
<1>6. CASE Poll(m)
  <2>1. DequeueScope(m, SessionOf[m]) /\ SessionOf[m] \in Scopes
    BY <1>6, DispatchAssumption DEF Poll, Scopes
  <2>2. /\ queues' \in [Scopes -> Seq(Inbound \cup ApiMsgs)]
        /\ \A t \in Scopes : Len(queues'[t]) <= MaxQueueSize
        /\ log' \in Seq([msg : Inbound \cup ApiMsgs, by : Inbound])
    BY <2>1, DequeueScopeBound DEF IInv
  <2>3. TypeOK'
    BY <1>6, <2>2 DEF Poll, IInv, TypeOK
  <2>4. UNCHANGED <<arrived, inbound, activeTurnStates, workerSem, pc>>
    BY <1>6 DEF Poll
  <2> QED
    BY <2>3, <2>4 DEF IInv, ClaimInv, SlotInv, SlotHolders, ChannelInv
<1>7. ASSUME NEW out \in TurnOutcomes, EndTurn(m, out)
      PROVE  IInv'
  <2>1. Goto(m, "clear") /\ pc[m] = "turn"
    BY <1>7 DEF EndTurn
  <2>2. TypeOK'
    BY <1>7 DEF EndTurn, Goto, Steps, IInv, TypeOK
  <2>3. ClaimInv'
    BY <1>7, <2>1 DEF EndTurn, Goto, IInv, TypeOK, ClaimInv
  <2>4. SlotInv'
    BY <1>7, <2>1, SlotsKept DEF EndTurn, Steps, SlotSteps
  <2>5. ChannelInv'
    BY <1>7, <2>1, ChannelKept DEF EndTurn, Steps
  <2> QED
    BY <2>2, <2>3, <2>4, <2>5 DEF IInv
<1>8. CASE ClearTurn(m)
  <2>1. PICK step \in {"drain", "release", "done"} :
          /\ Goto(m, step)
          /\ step = "done" <=> m \in SystemMsgs
    BY <1>8 DEF ClearTurn
  <2>2. /\ pc[m] = "clear" /\ Delete(SessionOf[m])
        /\ UNCHANGED <<arrived, inbound, workerSem>>
    BY <1>8 DEF ClearTurn
  <2>3. step \in Steps
    BY <2>1 DEF Steps
  <2>4. ClaimInv' /\ activeTurnStates' \in [Sessions -> Entry]
    BY <2>1, <2>2, <2>3, ClaimsDeleted
  <2>5. TypeOK'
    BY <1>8, <2>1, <2>3, <2>4 DEF ClearTurn, Goto, IInv, TypeOK
  <2>6. SlotInv'
    BY <2>1, <2>2, <2>3, SlotsKept DEF SlotSteps
  <2>7. ChannelInv'
    BY <2>1, <2>2, <2>3, ChannelKept
  <2> QED
    BY <2>4, <2>5, <2>6, <2>7 DEF IInv
<1>9. CASE DrainCheck(m)
  <2>1. PICK step \in {"release", "continue"} : Goto(m, step)
    BY <1>9 DEF DrainCheck
  <2>2. /\ pc[m] = "drain" /\ m \notin SystemMsgs
        /\ UNCHANGED <<arrived, inbound, activeTurnStates, workerSem>>
    BY <1>9 DEF DrainCheck, IInv, SlotInv
  <2>3. step \in Steps /\ step \in SlotSteps
    BY <2>1 DEF Steps, SlotSteps
  <2>4. TypeOK'
    BY <1>9, <2>1, <2>3 DEF DrainCheck, Goto, IInv, TypeOK
  <2>5. ClaimInv'
    BY <2>1, <2>2, <2>3, ClaimsKept
  <2>6. SlotInv'
    BY <2>1, <2>2, <2>3, SlotsKept DEF SlotSteps
  <2>7. ChannelInv'
    BY <2>1, <2>2, <2>3, ChannelKept
  <2> QED
    BY <2>4, <2>5, <2>6, <2>7 DEF IInv
<1>10. CASE ContinueClaim(m)
  <2>1. /\ pc[m] = "continue" /\ m \notin SystemMsgs
        /\ UNCHANGED <<arrived, inbound, workerSem>>
    BY <1>10 DEF ContinueClaim, IInv, SlotInv
  <2>2. PICK step \in {"release", "claimed"} :
          /\ Goto(m, step)
          /\ step = "release" => activeTurnStates' = activeTurnStates
          /\ step = "claimed" =>
               Store(SessionOf[m], [pending |-> TRUE, owner |-> m])
    BY <1>10 DEF ContinueClaim
  <2>3. step \in Steps /\ step \in SlotSteps
    BY <2>2 DEF Steps, SlotSteps
  <2>4. ClaimInv' /\ activeTurnStates' \in [Sessions -> Entry]
    <3>1. CASE step = "release"
      BY <2>1, <2>2, <2>3, <3>1, ClaimsKept DEF IInv, TypeOK
    <3>2. CASE step = "claimed"
      BY <2>1, <2>2, <2>3, <3>2, ClaimStored
    <3> QED
      BY <3>1, <3>2
  <2>5. TypeOK'
    BY <1>10, <2>2, <2>3, <2>4 DEF ContinueClaim, Goto, IInv, TypeOK
  <2>6. SlotInv'
    BY <2>1, <2>2, <2>3, SlotsKept DEF SlotSteps
  <2>7. ChannelInv'
    BY <2>1, <2>2, <2>3, ChannelKept
  <2> QED
    BY <2>4, <2>5, <2>6, <2>7 DEF IInv
<1>11. CASE ContinueDequeue(m)
  <2> DEFINE scope == FallbackScope(SessionOf[m])
  <2>1. /\ pc[m] = "claimed" /\ m \notin SystemMsgs /\ scope \in Scopes
        /\ UNCHANGED <<arrived, inbound, workerSem>>
    BY <1>11, FallbackScopeType, DispatchAssumption
    DEF ContinueDequeue, IInv, SlotInv
  <2>2. CASE queues[scope] = <<>>
    <3>1. /\ Goto(m, "release") /\ Delete(SessionOf[m])
          /\ UNCHANGED <<queues, log>>
      BY <1>11, <2>2 DEF ContinueDequeue
    <3>2. ClaimInv' /\ activeTurnStates' \in [Sessions -> Entry]
      BY <3>1, ClaimsDeleted DEF Steps
    <3>3. TypeOK'
      BY <1>11, <3>1, <3>2 DEF ContinueDequeue, Goto, Steps, IInv, TypeOK
    <3>4. SlotInv'
      BY <2>1, <3>1, SlotsKept DEF Steps, SlotSteps
    <3>5. ChannelInv'
      BY <2>1, <3>1, ChannelKept DEF Steps
    <3> QED
      BY <3>2, <3>3, <3>4, <3>5 DEF IInv
  <2>3. CASE queues[scope] # <<>>
    <3>1. /\ Goto(m, "resume") /\ DequeueScope(m, scope)
          /\ UNCHANGED activeTurnStates
      BY <1>11, <2>3 DEF ContinueDequeue
    <3>2. /\ queues' \in [Scopes -> Seq(Inbound \cup ApiMsgs)]
          /\ \A t \in Scopes : Len(queues'[t]) <= MaxQueueSize
          /\ log' \in Seq([msg : Inbound \cup ApiMsgs, by : Inbound])
      BY <2>1, <3>1, DequeueScopeBound DEF IInv
    <3>3. TypeOK'
      BY <1>11, <3>1, <3>2 DEF ContinueDequeue, Goto, Steps, IInv, TypeOK
    <3>4. ClaimInv'
      BY <2>1, <3>1, ClaimsKept DEF Steps
    <3>5. SlotInv'
      BY <2>1, <3>1, SlotsKept DEF Steps, SlotSteps
    <3>6. ChannelInv'
      BY <2>1, <3>1, ChannelKept DEF Steps
    <3> QED
      BY <3>3, <3>4, <3>5, <3>6 DEF IInv
  <2> QED
    BY <2>2, <2>3
<1>12. CASE ContinueInitError(m)
  <2>1. /\ Goto(m, "release") /\ pc[m] = "claimed" /\ Delete(SessionOf[m])
        /\ m \notin SystemMsgs
    BY <1>12 DEF ContinueInitError, IInv, SlotInv
  <2>2. ClaimInv' /\ activeTurnStates' \in [Sessions -> Entry]
    BY <2>1, ClaimsDeleted DEF Steps
  <2>3. TypeOK'
    BY <1>12, <2>2 DEF ContinueInitError, Goto, Steps, IInv, TypeOK
  <2>4. SlotInv'
    BY <1>12, <2>1, SlotsKept DEF ContinueInitError, Steps, SlotSteps
  <2>5. ChannelInv'
    BY <1>12, <2>1, ChannelKept DEF ContinueInitError, Steps
  <2> QED
    BY <2>2, <2>3, <2>4, <2>5 DEF IInv
<1>13. CASE ReleaseSlot(m)
  <2>1. /\ Goto(m, "cleanup") /\ pc[m] = "release" /\ m \notin SystemMsgs
        /\ workerSem' = workerSem - 1
    BY <1>13 DEF ReleaseSlot, IInv, SlotInv
  <2>2. SlotInv' /\ workerSem' \in 0 .. MaxParallelTurns
    BY <2>1, SlotFreed DEF Steps, SlotSteps
  <2>3. TypeOK'
    BY <1>13, <2>2 DEF ReleaseSlot, Goto, Steps, IInv, TypeOK
  <2>4. ClaimInv'
    BY <1>13, <2>1, ClaimsKept DEF ReleaseSlot, Steps
  <2>5. ChannelInv'
    BY <1>13, <2>1, ChannelKept DEF ReleaseSlot, Steps
  <2> QED
    BY <2>2, <2>3, <2>4, <2>5 DEF IInv
<1>14. CASE Cleanup(m)
  <2>1. /\ Goto(m, "done") /\ pc[m] = "cleanup" /\ m \notin SystemMsgs
        /\ UNCHANGED <<arrived, inbound, workerSem>>
    BY <1>14 DEF Cleanup, IInv, SlotInv
  <2>2. ClaimInv' /\ activeTurnStates' \in [Sessions -> Entry]
    <3>1. CASE IsPlaceholder(activeTurnStates[SessionOf[m]])
      BY <1>14, <2>1, <3>1, ClaimsDeleted DEF Cleanup, Steps
    <3>2. CASE ~IsPlaceholder(activeTurnStates[SessionOf[m]])
      <4>1. activeTurnStates' = activeTurnStates
        BY <1>14, <3>2 DEF Cleanup
      <4>2. \A s \in Sessions :
              (/\ activeTurnStates[s] # NoEntry
               /\ activeTurnStates[s].pending) => activeTurnStates[s].owner # m
        BY <3>2 DEF IsPlaceholder, IInv, ClaimInv
      <4> QED
        BY <2>1, <4>1, <4>2 DEF Goto, IInv, TypeOK, ClaimInv
    <3> QED
      BY <3>1, <3>2
  <2>3. TypeOK'
    BY <1>14, <2>2 DEF Cleanup, Goto, Steps, IInv, TypeOK
  <2>4. SlotInv'
    BY <2>1, SlotsKept DEF Steps, SlotSteps
  <2>5. ChannelInv'
    BY <2>1, ChannelKept DEF Steps
  <2> QED
    BY <2>2, <2>3, <2>4, <2>5 DEF IInv
<1> QED
  BY <1>1, <1>2, <1>3, <1>4, <1>5, <1>6, <1>7, <1>8, <1>9, <1>10, <1>11, <1>12,
     <1>13, <1>14
  DEF Worker

\* Every step, of whichever goroutine, and every stutter keeps IInv.
LEMMA StepInvariant == IInv /\ [Next]_vars => IInv'
<1> SUFFICES ASSUME IInv, [Next]_vars PROVE IInv'
  OBVIOUS
<1>1. CASE Environment
  BY <1>1, EnvironmentStep
<1>2. CASE Dispatch
  BY <1>2, DispatchStep
<1>3. ASSUME NEW m \in Inbound, Worker(m)
      PROVE  IInv'
  BY <1>3, WorkerStep
<1>4. CASE UNCHANGED vars
  BY <1>4 DEF vars, IInv, TypeOK, ClaimInv, SlotInv, SlotHolders, ChannelInv
<1> QED
  BY <1>1, <1>2, <1>3, <1>4 DEF Next

-------------------------------------------------------------------------------
(* The theorems. *)

\* IInv holds in every reachable state of every instance.
THEOREM Invariance == Spec => []IInv
BY InitInvariant, StepInvariant, PTL DEF Spec

\* The variables keep their types: the steering queues and the worker pool
\* never exceed their capacity.
THEOREM TypeCorrect == Spec => []TypeOK
<1>1. IInv => TypeOK
  BY DEF IInv
<1> QED
  BY <1>1, Invariance, PTL

\* No session is wedged: an entry of activeTurnStates always has a goroutine
\* that is still on its way to deleting it, however workers interleave and
\* whoever else deleted or replaced entries of the session before.
THEOREM ClaimSafety == Spec => []ClaimHasLiveOwner
<1>1. IInv => ClaimHasLiveOwner
  BY DEF IInv, TypeOK, Entry, ClaimInv, ClaimHasLiveOwner
<1> QED
  BY <1>1, Invariance, PTL

\* The worker pool bounds the turns that run at once.
THEOREM PoolSafety == Spec => []TurnsWithinSlots
<1>1. ASSUME IInv PROVE TurnsWithinSlots
  <2> DEFINE T == {m \in Inbound \ SystemMsgs : pc[m] \in {"turn", "clear"}}
  <2>1. T \in SUBSET SlotHolders
    BY DEF SlotHolders, SlotSteps
  <2>2. IsFiniteSet(SlotHolders) /\ Cardinality(SlotHolders) \in Nat
    BY InboundFinite DEF SlotHolders
  <2>3. T \in SUBSET Inbound
    OBVIOUS
  <2>4. Cardinality(T) \in Nat
    BY <2>3, InboundFinite
  <2>5. Cardinality(T) <= Cardinality(SlotHolders)
    BY <2>1, <2>2, FS_Subset
  <2>6. Cardinality(SlotHolders) <= MaxParallelTurns
    BY <1>1, DispatchAssumption DEF IInv, SlotInv, TypeOK
  <2> HIDE DEF T
  <2>7. Cardinality(T) <= MaxParallelTurns
    BY <2>2, <2>4, <2>5, <2>6, DispatchAssumption
  <2> QED
    BY <2>7 DEF TurnsWithinSlots, T
<1> QED
  BY <1>1, Invariance, PTL

-------------------------------------------------------------------------------
(* Isolation, order and conservation of messages, in both steering modes.  The *)
(* first two are properties of the log.  They are inductive together with what *)
(* holds of the queues the log is fed from: a queue has messages of its        *)
(* session only, in order, all of them after what was logged, and before the   *)
(* one the dispatcher is about to push and those still in the channel.  Order  *)
(* makes the places in queues and log exclude each other, so that conservation *)
(* only has to say that there is one.                                          *)


\* The last message the dispatcher has received.
Received == arrived - Len(inbound)

\* The message came before the one the dispatcher holds.
Came(m) == m <= Received /\ (dispatcher.at = "enqueue" => m < dispatcher.msg)

\* The same after a step.
CameNext(m) == m <= arrived' - Len(inbound') /\ (dispatcher'.at = "enqueue" => m < dispatcher'.msg)

HeldInv == dispatcher.at = "enqueue" => dispatcher.msg = Received

QueueInv ==
  \A s \in Scopes : \A i \in 1 .. Len(queues[s]) :
    queues[s][i] \in Inbound =>
      /\ SessionOf[queues[s][i]] = s
      /\ Came(queues[s][i])
      /\ \A j \in 1 .. Len(queues[s]) :
           i < j /\ queues[s][j] \in Inbound => queues[s][i] < queues[s][j]

LogInv ==
  \A i \in 1 .. Len(log) :
    log[i].msg \in Inbound =>
      /\ SessionOf[log[i].by] = SessionOf[log[i].msg]
      /\ Came(log[i].msg)
      /\ \A j \in 1 .. Len(queues[SessionOf[log[i].msg]]) :
           LET m == queues[SessionOf[log[i].msg]][j]
           IN  m \in Inbound => log[i].msg < m
      /\ \A j \in 1 .. Len(log) :
           (i < j /\ log[j].msg \in Inbound /\ SessionOf[log[i].msg] = SessionOf[log[j].msg])
             => log[i].msg < log[j].msg

OrderInv == HeldInv /\ QueueInv /\ LogInv

----------------------------------------------------------------------------
\* What is in the queues and in the log.
LEMMA Contents ==
  ASSUME IInv
  PROVE  /\ \A s \in Scopes : /\ queues[s] \in Seq(Inbound \cup ApiMsgs)
                              /\ Len(queues[s]) \in Nat
                              /\ \A i \in 1 .. Len(queues[s]) : queues[s][i] \in Inbound \cup ApiMsgs
         /\ Len(log) \in Nat
         /\ log \in Seq([msg : Inbound \cup ApiMsgs, by : Inbound])
         /\ \A i \in 1 .. Len(log) : log[i].msg \in Inbound \cup ApiMsgs /\ log[i].by \in Inbound
         /\ Received \in Int /\ Len(inbound) \in Nat /\ arrived \in Nat
<1>1. /\ queues \in [Scopes -> Seq(Inbound \cup ApiMsgs)]
      /\ log \in Seq([msg : Inbound \cup ApiMsgs, by : Inbound])
      /\ inbound \in Seq(Inbound) /\ arrived \in Nat
  BY DispatchAssumption DEF IInv, TypeOK
<1>2. \A i \in 1 .. Len(log) : log[i] \in [msg : Inbound \cup ApiMsgs, by : Inbound]
  BY <1>1, ElementOfSeq
<1>3. \A s \in Scopes : queues[s] \in Seq(Inbound \cup ApiMsgs)
  BY <1>1
<1>4. \A s \in Scopes : \A i \in 1 .. Len(queues[s]) : queues[s][i] \in Inbound \cup ApiMsgs
  BY <1>3, ElementOfSeq
<1> QED
  BY <1>1, <1>2, <1>3, <1>4, LenProperties DEF Received

\* A session has a queue, which is not the fallback.
LEMMA OwnScope ==
  ASSUME NEW m \in Inbound
  PROVE  SessionOf[m] \in Sessions /\ SessionOf[m] \in Scopes /\ SessionOf[m] # Manual
BY DispatchAssumption DEF Scopes

\* A step that leaves the queues and the log alone.
LEMMA NothingMoved ==
  ASSUME IInv, OrderInv, HeldInv', queues' = queues, log' = log,
         \A m \in Inbound : Came(m) => CameNext(m)
  PROVE  OrderInv'
<1>1. QueueInv'
  BY DEF OrderInv, QueueInv, Came, CameNext, Received
<1>2. LogInv'
  BY DEF OrderInv, LogInv, Came, CameNext, Received
<1> QED
  BY <1>1, <1>2 DEF OrderInv

\* A push appends to one queue, or refuses.
LEMMA PushAppends ==
  ASSUME IInv, NEW s \in Scopes, NEW x \in Inbound \cup ApiMsgs, PushScope(s, x)
  PROVE  \/ queues' = queues /\ dropped' = dropped \cup {x}
         \/ /\ dropped' = dropped
            /\ \A t \in Scopes : t # s => queues'[t] = queues[t]
            /\ Len(queues'[s]) = Len(queues[s]) + 1
            /\ \A i \in 1 .. Len(queues[s]) : queues'[s][i] = queues[s][i]
            /\ queues'[s][Len(queues[s]) + 1] = x
<1>1. CASE queues' = [queues EXCEPT ![s] = Append(queues[s], x)] /\ dropped' = dropped
  <2>1. /\ queues'[s] = Append(queues[s], x)
        /\ \A t \in Scopes : t # s => queues'[t] = queues[t]
    BY <1>1 DEF IInv, TypeOK
  <2> QED
    BY <1>1, <2>1, Contents, AppendProperties
<1> QED
  BY <1>1 DEF PushScope

\* A message goes to the end of a queue: one of Steer, or one of the bus that came
\* after all others, to its own session.
LEMMA Pushed ==
  ASSUME IInv, OrderInv, HeldInv', log' = log,
         NEW s \in Scopes, NEW x \in Inbound \cup ApiMsgs, PushScope(s, x),
         \A m \in Inbound : Came(m) => CameNext(m),
         x \in Inbound => /\ SessionOf[x] = s
                          /\ CameNext(x)
                          /\ \A m \in Inbound : Came(m) => m < x
  PROVE  OrderInv'
<1>1. CASE queues' = queues
  BY <1>1, NothingMoved
<1>2. CASE queues' # queues
  <2> DEFINE q == queues[s]
             n == Len(q)
  <2>1. \A t \in Scopes : t # s => queues'[t] = queues[t]
    BY <1>2, PushAppends
  <2>2. /\ Len(queues'[s]) = n + 1 /\ n \in Nat
        /\ \A i \in 1 .. n : queues'[s][i] = q[i]
        /\ queues'[s][n + 1] = x
    BY <1>2, PushAppends, Contents
  <2> HIDE DEF q, n
  <2>3. \A i \in 1 .. n : q[i] \in Inbound =>
          SessionOf[q[i]] = s /\ Came(q[i]) /\ CameNext(q[i]) /\ (x \in Inbound => q[i] < x)
    BY DEF OrderInv, QueueInv, q, n
  <2>4. QueueInv'
    <3> SUFFICES ASSUME NEW t \in Scopes, NEW i \in 1 .. Len(queues'[t]), queues'[t][i] \in Inbound
                 PROVE  /\ SessionOf[queues'[t][i]] = t
                        /\ CameNext(queues'[t][i])
                        /\ \A j \in 1 .. Len(queues'[t]) :
                             i < j /\ queues'[t][j] \in Inbound => queues'[t][i] < queues'[t][j]
      BY DEF QueueInv, Came, CameNext, Received
    <3>1. CASE t # s
      BY <2>1, <3>1 DEF OrderInv, QueueInv
    <3>2. CASE t = s /\ i \in 1 .. n
      <4>1. \A j \in 1 .. n : i < j /\ q[j] \in Inbound => q[i] < q[j]
        BY <2>2, <3>2 DEF OrderInv, QueueInv, q, n
      <4>2. \A j \in 1 .. n + 1 : j \in 1 .. n \/ j = n + 1
        BY <2>2
      <4> QED
        BY <2>2, <2>3, <3>2, <4>1, <4>2
    <3>3. CASE t = s /\ i = n + 1
      <4>1. \A j \in 1 .. n + 1 : ~(i < j)
        BY <2>2, <3>3
      <4> QED
        BY <2>2, <3>3, <4>1
    <3> QED
      BY <2>2, <3>1, <3>2, <3>3
  <2>5. LogInv'
    <3> SUFFICES ASSUME NEW i \in 1 .. Len(log), log[i].msg \in Inbound
                 PROVE  /\ SessionOf[log[i].by] = SessionOf[log[i].msg]
                        /\ CameNext(log[i].msg)
                        /\ \A j \in 1 .. Len(queues'[SessionOf[log[i].msg]]) :
                             LET m == queues'[SessionOf[log[i].msg]][j]
                             IN  m \in Inbound => log[i].msg < m
                        /\ \A j \in 1 .. Len(log) :
                             (i < j /\ log[j].msg \in Inbound /\ SessionOf[log[i].msg] = SessionOf[log[j].msg])
                               => log[i].msg < log[j].msg
      BY DEF LogInv, Came, CameNext, Received
    <3> DEFINE t == SessionOf[log[i].msg]
    <3>1. /\ SessionOf[log[i].by] = t
          /\ Came(log[i].msg) /\ CameNext(log[i].msg)
          /\ \A j \in 1 .. Len(queues[t]) : queues[t][j] \in Inbound => log[i].msg < queues[t][j]
          /\ \A j \in 1 .. Len(log) :
               (i < j /\ log[j].msg \in Inbound /\ t = SessionOf[log[j].msg])
                 => log[i].msg < log[j].msg
      BY DEF OrderInv, LogInv
    <3>2. t \in Scopes
      BY OwnScope
    <3> HIDE DEF t
    <3>3. \A j \in 1 .. Len(queues'[t]) : queues'[t][j] \in Inbound => log[i].msg < queues'[t][j]
      <4>1. CASE t # s
        BY <2>1, <3>1, <3>2, <4>1
      <4>2. CASE t = s
        <5>1. \A j \in 1 .. n + 1 : j \in 1 .. n \/ j = n + 1
          BY <2>2
        <5>2. \A j \in 1 .. n : queues'[s][j] \in Inbound => log[i].msg < queues'[s][j]
          BY <2>2, <3>1, <4>2 DEF q, n
        <5> QED
          BY <2>2, <3>1, <4>2, <5>1, <5>2
      <4> QED
        BY <4>1, <4>2
    <3> QED
      BY <3>1, <3>3 DEF t
  <2> QED
    BY <2>4, <2>5 DEF OrderInv
<1> QED
  BY <1>1, <1>2

\* What a dequeue takes from the front of a queue goes to the end of the log.
LEMMA DequeueMoves ==
  ASSUME IInv, NEW w \in Inbound, NEW s \in Scopes, DequeueScope(w, s)
  PROVE  LET q == queues[s]
             n == BatchSize(s)
             l == Len(queues[s])
             k == Len(log)
         IN  /\ n \in 0 .. l
             /\ \A t \in Scopes : t # s => queues'[t] = queues[t]
             /\ Len(queues'[s]) = l - n
             /\ \A i \in 1 .. l - n : queues'[s][i] = q[n + i] /\ n + i \in 1 .. l
             /\ Len(log') = k + n
             /\ \A i \in 1 .. k : log'[i] = log[i]
             /\ \A i \in k + 1 .. k + n : i - k \in 1 .. n /\ i - k \in 1 .. l
                                          /\ log'[i].msg = q[i - k] /\ log'[i].by = w
<1> DEFINE q == queues[s]
           n == BatchSize(s)
           l == Len(q)
           k == Len(log)
           batch == [i \in 1 .. n |-> [msg |-> q[i], by |-> w]]
<1>1. /\ q \in Seq(Inbound \cup ApiMsgs) /\ l \in Nat /\ k \in Nat
      /\ \A i \in 1 .. l : q[i] \in Inbound \cup ApiMsgs
      /\ log \in Seq([msg : Inbound \cup ApiMsgs, by : Inbound])
  BY Contents
<1>2. n \in 0 .. l
  BY <1>1, EmptySeq DEF BatchSize
<1>3. /\ queues' = [queues EXCEPT ![s] = SubSeq(q, n + 1, l)]
      /\ log' = log \o batch
  BY DEF DequeueScope
<1>4. /\ \A t \in Scopes : t # s => queues'[t] = queues[t]
      /\ queues'[s] = SubSeq(q, n + 1, l)
  BY <1>3 DEF IInv, TypeOK
<1>5. /\ Len(queues'[s]) = l - n
      /\ \A i \in 1 .. l - n : queues'[s][i] = q[n + i] /\ n + i \in 1 .. l
  <2>1. n + 1 \in Int /\ l \in Int /\ \A i \in n + 1 .. l : q[i] \in Inbound \cup ApiMsgs
    BY <1>1, <1>2
  <2> HIDE DEF q, n, l
  <2>2. /\ Len(SubSeq(q, n + 1, l)) = (IF n + 1 <= l THEN l - (n + 1) + 1 ELSE 0)
        /\ \A i \in 1 .. l - (n + 1) + 1 : SubSeq(q, n + 1, l)[i] = q[n + 1 + i - 1]
    BY <2>1, SubSeqProperties
  <2> QED
    BY <1>1, <1>2, <1>4, <2>2
<1>6. /\ Len(log') = k + n
      /\ \A i \in 1 .. k : log'[i] = log[i]
      /\ \A i \in k + 1 .. k + n : i - k \in 1 .. n /\ i - k \in 1 .. l
                                   /\ log'[i].msg = q[i - k] /\ log'[i].by = w
  <2>1. batch \in Seq([msg : Inbound \cup ApiMsgs, by : Inbound]) /\ Len(batch) = n
    <3> HIDE DEF q, n, l
    <3>1. \A i \in 1 .. n : [msg |-> q[i], by |-> w] \in [msg : Inbound \cup ApiMsgs, by : Inbound]
      BY <1>1, <1>2
    <3>2. batch \in [1 .. n -> [msg : Inbound \cup ApiMsgs, by : Inbound]]
      BY <3>1
    <3> QED
      BY <3>2, <1>1, <1>2, SeqDef, LenProperties
  <2>2. \A i \in 1 .. n : batch[i].msg = q[i] /\ batch[i].by = w
    OBVIOUS
  <2> HIDE DEF batch, n, q, l
  <2>3. /\ Len(log \o batch) = Len(log) + Len(batch)
        /\ \A i \in 1 .. Len(log) + Len(batch) :
             (log \o batch)[i] = IF i <= Len(log) THEN log[i] ELSE batch[i - Len(log)]
    BY <1>1, <2>1, ConcatProperties
  <2>4. /\ Len(log') = k + n
        /\ \A i \in 1 .. k + n : log'[i] = IF i <= k THEN log[i] ELSE batch[i - k]
    BY <1>3, <2>1, <2>3
  <2> HIDE DEF k
  <2>5. \A i \in 1 .. k : i \in 1 .. k + n /\ i <= k
    BY <1>1, <1>2
  <2>6. \A i \in k + 1 .. k + n : i \in 1 .. k + n /\ ~(i <= k) /\ i - k \in 1 .. n /\ i - k \in 1 .. l
    BY <1>1, <1>2
  <2> QED
    BY <2>2, <2>4, <2>5, <2>6
<1> QED
  BY <1>2, <1>4, <1>5, <1>6

\* A worker takes a batch from its session's queue or from the fallback.
LEMMA Dequeued ==
  ASSUME IInv, OrderInv, HeldInv', NEW w \in Inbound, NEW s \in Scopes, DequeueScope(w, s),
         s = SessionOf[w] \/ s = Manual,
         \A m \in Inbound : Came(m) => CameNext(m)
  PROVE  OrderInv'
<1> DEFINE q == queues[s]
           n == BatchSize(s)
           l == Len(q)
           k == Len(log)
<1>1. l \in Nat /\ k \in Nat
  BY Contents
<1>2. n \in 0 .. l
  BY DequeueMoves
<1>3. \A t \in Scopes : t # s => queues'[t] = queues[t]
  BY DequeueMoves
<1>5. /\ Len(queues'[s]) = l - n
      /\ \A i \in 1 .. l - n : queues'[s][i] = q[n + i] /\ n + i \in 1 .. l
  BY DequeueMoves
<1>6. /\ Len(log') = k + n
      /\ \A i \in 1 .. k : log'[i] = log[i]
      /\ \A i \in k + 1 .. k + n : i - k \in 1 .. n /\ i - k \in 1 .. l
                                   /\ log'[i].msg = q[i - k] /\ log'[i].by = w
  BY DequeueMoves
<1>7. \A i \in 1 .. l : q[i] \in Inbound =>
        /\ SessionOf[q[i]] = s /\ s = SessionOf[w]
        /\ Came(q[i]) /\ CameNext(q[i])
        /\ \A j \in 1 .. l : i < j /\ q[j] \in Inbound => q[i] < q[j]
  BY OwnScope DEF OrderInv, QueueInv
<1>8. \A i \in 1 .. k : log[i].msg \in Inbound =>
        /\ SessionOf[log[i].by] = SessionOf[log[i].msg]
        /\ Came(log[i].msg) /\ CameNext(log[i].msg)
        /\ \A j \in 1 .. Len(queues[SessionOf[log[i].msg]]) :
             queues[SessionOf[log[i].msg]][j] \in Inbound => log[i].msg < queues[SessionOf[log[i].msg]][j]
        /\ \A j \in 1 .. k :
             (i < j /\ log[j].msg \in Inbound /\ SessionOf[log[i].msg] = SessionOf[log[j].msg])
               => log[i].msg < log[j].msg
  BY DEF OrderInv, LogInv
<1> HIDE DEF q, n, l, k
<1>9. QueueInv'
  <2> SUFFICES ASSUME NEW t \in Scopes, NEW i \in 1 .. Len(queues'[t]), queues'[t][i] \in Inbound
               PROVE  /\ SessionOf[queues'[t][i]] = t
                      /\ CameNext(queues'[t][i])
                      /\ \A j \in 1 .. Len(queues'[t]) :
                           i < j /\ queues'[t][j] \in Inbound => queues'[t][i] < queues'[t][j]
    BY DEF QueueInv, Came, CameNext, Received
  <2>1. CASE t # s
    BY <1>3, <2>1 DEF OrderInv, QueueInv
  <2>2. CASE t = s
    <3>1. n + i \in 1 .. l /\ queues'[t][i] = q[n + i]
      BY <1>5, <2>2
    <3>2. ASSUME NEW j \in 1 .. Len(queues'[t]), i < j, queues'[t][j] \in Inbound
          PROVE  queues'[t][i] < queues'[t][j]
      <4>1. n + j \in 1 .. l /\ queues'[t][j] = q[n + j] /\ n + i < n + j
        BY <1>1, <1>2, <1>5, <2>2, <3>2
      <4> QED
        BY <1>7, <3>1, <3>2, <4>1
    <3> QED
      BY <1>7, <2>2, <3>1, <3>2
  <2> QED
    BY <2>1, <2>2
<1>10. LogInv'
  <2> SUFFICES ASSUME NEW i \in 1 .. Len(log'), log'[i].msg \in Inbound
               PROVE  /\ SessionOf[log'[i].by] = SessionOf[log'[i].msg]
                      /\ CameNext(log'[i].msg)
                      /\ \A j \in 1 .. Len(queues'[SessionOf[log'[i].msg]]) :
                           LET m == queues'[SessionOf[log'[i].msg]][j]
                           IN  m \in Inbound => log'[i].msg < m
                      /\ \A j \in 1 .. Len(log') :
                           (i < j /\ log'[j].msg \in Inbound
                            /\ SessionOf[log'[i].msg] = SessionOf[log'[j].msg])
                             => log'[i].msg < log'[j].msg
    BY DEF LogInv, Came, CameNext, Received
  <2>1. \A j \in 1 .. Len(log') : j \in 1 .. k \/ j \in k + 1 .. k + n
    BY <1>1, <1>2, <1>6
  <2>2. CASE i \in 1 .. k
    <3> DEFINE m == log[i].msg
               t == SessionOf[m]
    <3>1. /\ log'[i] = log[i] /\ m \in Inbound /\ t \in Scopes
          /\ SessionOf[log[i].by] = t
          /\ CameNext(m)
      BY <1>6, <1>8, <2>2, OwnScope
    <3>2. /\ \A j \in 1 .. Len(queues[t]) : queues[t][j] \in Inbound => m < queues[t][j]
          /\ \A j \in 1 .. k : (i < j /\ log[j].msg \in Inbound /\ t = SessionOf[log[j].msg])
                                 => m < log[j].msg
      BY <1>8, <2>2, <3>1
    <3> HIDE DEF m, t
    <3>3. ASSUME NEW j \in 1 .. Len(queues'[t]), queues'[t][j] \in Inbound
          PROVE  m < queues'[t][j]
      <4>1. CASE t # s
        BY <1>3, <3>1, <3>2, <3>3, <4>1
      <4>2. CASE t = s
        BY <1>5, <3>2, <3>3, <4>2 DEF q, l
      <4> QED
        BY <4>1, <4>2
    <3>4. ASSUME NEW j \in 1 .. Len(log'), i < j, log'[j].msg \in Inbound, t = SessionOf[log'[j].msg]
          PROVE  m < log'[j].msg
      <4>1. CASE j \in 1 .. k
        BY <1>6, <3>2, <3>4, <4>1
      <4>2. CASE j \in k + 1 .. k + n
        <5>1. j - k \in 1 .. l /\ log'[j].msg = q[j - k]
          BY <1>6, <4>2
        <5>2. t = s
          BY <1>7, <3>4, <5>1
        <5> QED
          BY <3>2, <3>4, <5>1, <5>2 DEF q, l
      <4> QED
        BY <2>1, <4>1, <4>2
    <3> QED
      BY <3>1, <3>3, <3>4 DEF m, t
  <2>3. CASE i \in k + 1 .. k + n
    <3>1. /\ i - k \in 1 .. n /\ i - k \in 1 .. l
          /\ log'[i].msg = q[i - k] /\ log'[i].by = w
      BY <1>6, <2>3
    <3>2. /\ SessionOf[q[i - k]] = s /\ s = SessionOf[w] /\ CameNext(q[i - k])
          /\ \A j \in 1 .. l : i - k < j /\ q[j] \in Inbound => q[i - k] < q[j]
      BY <1>7, <3>1
    <3>3. ASSUME NEW j \in 1 .. Len(queues'[s]), queues'[s][j] \in Inbound
          PROVE  q[i - k] < queues'[s][j]
      <4>1. n + j \in 1 .. l /\ queues'[s][j] = q[n + j] /\ i - k < n + j
        BY <1>1, <1>2, <1>5, <3>1, <3>3
      <4> QED
        BY <3>2, <3>3, <4>1
    <3>4. ASSUME NEW j \in 1 .. Len(log'), i < j, log'[j].msg \in Inbound
          PROVE  q[i - k] < log'[j].msg
      <4>1. j \in k + 1 .. k + n
        BY <1>1, <1>2, <1>6, <2>3, <3>4
      <4>2. j - k \in 1 .. l /\ log'[j].msg = q[j - k] /\ i - k < j - k
        BY <1>1, <1>6, <2>3, <3>4, <4>1
      <4> QED
        BY <3>2, <3>4, <4>2
    <3> QED
      BY <3>1, <3>2, <3>3, <3>4
  <2> QED
    BY <2>1, <2>2, <2>3
<1> QED
  BY <1>9, <1>10 DEF OrderInv

----------------------------------------------------------------------------
\* The step of a goroutine that is away from the queues, the log, the channel and the
\* dispatcher.
LEMMA StepsAway ==
  ASSUME UNCHANGED <<arrived, inbound, dispatcher>>
  PROVE  /\ OrderInv => HeldInv'
         /\ \A m \in Inbound : Came(m) => CameNext(m)
BY DEF OrderInv, HeldInv, Came, CameNext, Received

\* The environment pushes only what Steer was given.
LEMMA EnvironmentOrder ==
  ASSUME IInv, OrderInv, Environment
  PROVE  OrderInv'
<1>1. CASE Arrive
  <2>1. /\ Len(inbound') = Len(inbound) + 1 /\ arrived' = arrived + 1
        /\ Len(inbound) \in Nat /\ arrived \in Nat
        /\ UNCHANGED <<queues, log, dispatcher>>
    <3>1. inbound \in Seq(Inbound) /\ arrived + 1 \in Inbound
      BY <1>1, DispatchAssumption DEF Arrive, IInv, TypeOK, Inbound
    <3> QED
      BY <1>1, <3>1, Contents, AppendProperties DEF Arrive
  <2>2. HeldInv' /\ \A m \in Inbound : Came(m) => CameNext(m)
    BY <2>1 DEF OrderInv, HeldInv, Came, CameNext, Received
  <2> QED
    BY <2>1, <2>2, NothingMoved
<1>2. CASE Cancel \/ Stop
  <2>1. UNCHANGED <<arrived, inbound, dispatcher, queues, log>>
    BY <1>2 DEF Cancel, Stop
  <2> QED
    BY <2>1, StepsAway, NothingMoved
<1>3. ASSUME NEW a \in ApiMsgs, SteerRead(a)
      PROVE  OrderInv'
  <2>1. UNCHANGED <<arrived, inbound, dispatcher, queues, log>>
    BY <1>3 DEF SteerRead
  <2> QED
    BY <2>1, StepsAway, NothingMoved
<1>4. ASSUME NEW a \in ApiMsgs, SteerPush(a)
      PROVE  OrderInv'
  <2>1. /\ steer[a] \in Scopes /\ PushScope(steer[a], a) /\ log' = log
        /\ UNCHANGED <<arrived, inbound, dispatcher>>
    BY <1>4 DEF SteerPush
  <2>2. a \in Inbound \cup ApiMsgs /\ a \notin Inbound
    BY DispatchAssumption
  <2> QED
    BY <2>1, <2>2, StepsAway, Pushed
<1> QED
  BY <1>1, <1>2, <1>3, <1>4 DEF Environment

\* The dispatcher pushes what it received last.
LEMMA DispatchOrder ==
  ASSUME IInv, OrderInv, Dispatch
  PROVE  OrderInv'
<1>1. CASE RunExit
  <2>1. UNCHANGED <<arrived, inbound, queues, log>> /\ dispatcher'.at = "exited"
    BY <1>1 DEF RunExit
  <2>2. HeldInv' /\ \A m \in Inbound : Came(m) => CameNext(m)
    BY <2>1 DEF HeldInv, Came, CameNext, Received
  <2> QED
    BY <2>1, <2>2, NothingMoved
<1>2. ASSUME NEW m \in Inbound, ReceiveSystem(m) \/ ReceiveBusy(m) \/ ReceiveClaim(m)
      PROVE  OrderInv'
  <2>1. /\ Receiving(m) /\ arrived' = arrived /\ UNCHANGED <<queues, log>>
        /\ dispatcher' \in {[at |-> "sync", msg |-> m], [at |-> "enqueue", msg |-> m], dispatcher}
    BY <1>2 DEF ReceiveSystem, ReceiveBusy, ReceiveClaim
  <2>2. /\ inbound \in Seq(Inbound) /\ inbound # <<>> /\ inbound' = Tail(inbound)
        /\ m = inbound[1] /\ dispatcher.at = "receive"
    BY <2>1 DEF Receiving, IInv, TypeOK
  <2>3. /\ Len(inbound) \in Nat \ {0} /\ arrived \in Nat
        /\ Len(inbound') = Len(inbound) - 1
    BY <2>2, Contents, EmptySeq, HeadTailProperties
  <2>4. m = arrived - Len(inbound) + 1
    BY <2>2, <2>3 DEF IInv, ChannelInv
  <2>5. HeldInv' /\ \A x \in Inbound : Came(x) => CameNext(x)
    BY <2>1, <2>2, <2>3, <2>4 DEF HeldInv, Came, CameNext, Received, Inbound
  <2> QED
    BY <2>1, <2>5, NothingMoved
<1>3. ASSUME NEW m \in Inbound, Enqueue(m)
      PROVE  OrderInv'
  <2>1. /\ dispatcher.at = "enqueue" /\ dispatcher.msg = m /\ dispatcher'.at = "receive"
        /\ PushScope(SessionOf[m], m)
        /\ UNCHANGED <<arrived, inbound, log>>
    BY <1>3 DEF Enqueue
  <2>2. /\ HeldInv'
        /\ \A x \in Inbound : Came(x) => x < m /\ CameNext(x)
        /\ CameNext(m)
    <3>1. m = Received /\ m \in Int
      BY <2>1, DispatchAssumption DEF OrderInv, HeldInv, Inbound
    <3> QED
      BY <2>1, <3>1 DEF HeldInv, Came, CameNext, Received
  <2>3. SessionOf[m] \in Scopes /\ m \in Inbound \cup ApiMsgs
    BY OwnScope
  <2> QED
    BY <2>1, <2>2, <2>3, Pushed
<1>4. ASSUME NEW m \in Inbound, SyncReturn(m)
      PROVE  OrderInv'
  <2>1. UNCHANGED <<arrived, inbound, queues, log>> /\ dispatcher'.at = "receive"
    BY <1>4 DEF SyncReturn
  <2>2. HeldInv' /\ \A x \in Inbound : Came(x) => CameNext(x)
    BY <2>1 DEF HeldInv, Came, CameNext, Received
  <2> QED
    BY <2>1, <2>2, NothingMoved
<1> QED
  BY <1>1, <1>2, <1>3, <1>4 DEF Dispatch

\* A worker takes from its own session's queue, or from the fallback when that is empty.
LEMMA WorkerOrder ==
  ASSUME IInv, OrderInv, NEW m \in Inbound, Worker(m)
  PROVE  OrderInv'
<1>1. UNCHANGED <<arrived, inbound, dispatcher>>
  BY DEF Worker, AcquireSlot, AbandonWait, EarlyExit, RegisterTurn, FirstPoll, Poll, EndTurn,
         ClearTurn, DrainCheck, ContinueClaim, ContinueDequeue, ContinueInitError,
         ReleaseSlot, Cleanup
<1>2. \/ UNCHANGED <<queues, log>>
      \/ \E s \in {SessionOf[m], Manual} : DequeueScope(m, s)
  BY DEF Worker, AcquireSlot, AbandonWait, EarlyExit, RegisterTurn, FirstPoll, Poll, EndTurn,
         ClearTurn, DrainCheck, ContinueClaim, ContinueDequeue, ContinueInitError,
         ReleaseSlot, Cleanup, FallbackScope
<1>3. SessionOf[m] \in Scopes /\ Manual \in Scopes
  BY OwnScope DEF Scopes
<1> QED
  BY <1>1, <1>2, <1>3, StepsAway, NothingMoved, Dequeued

\* Every step keeps the order.
LEMMA StepOrder == IInv /\ OrderInv /\ [Next]_vars => OrderInv'
<1> SUFFICES ASSUME IInv, OrderInv, [Next]_vars PROVE OrderInv'
  OBVIOUS
<1>1. CASE UNCHANGED vars
  BY <1>1, StepsAway, NothingMoved DEF vars
<1> QED
  BY <1>1, EnvironmentOrder, DispatchOrder, WorkerOrder DEF Next

LEMMA InitOrder == Init => OrderInv
BY EmptySeq DEF Init, OrderInv, HeldInv, QueueInv, LogInv

\* The log and the queues are in order in every reachable state.
THEOREM Order == Spec => []OrderInv
BY InitOrder, StepOrder, Invariance, PTL DEF Spec

\* A message of the bus is injected into turns of its own session only, for any number
\* of sessions and whatever the fallback scope of Steer holds.
THEOREM Isolation == Spec => []ScopeIsolation
<1>1. IInv /\ OrderInv => ScopeIsolation
  BY Contents, LenProperties DEF OrderInv, LogInv, ScopeIsolation
<1> QED
  BY <1>1, Invariance, Order, PTL

\* The steered messages of a session are injected in the order they arrived, whichever
\* workers poll and however many are taken at once.
THEOREM SteeringOrder == Spec => []SteeredInOrder
<1>1. IInv /\ OrderInv => SteeredInOrder
  BY Contents, LenProperties DEF OrderInv, LogInv, SteeredInOrder
<1> QED
  BY <1>1, Invariance, Order, PTL

----------------------------------------------------------------------------
(* No message is lost and none is given to two turns: where a message can be. *)

Queued(m)  == \E i \in 1 .. Len(queues[SessionOf[m]]) : queues[SessionOf[m]][i] = m
Logged(m)  == \E i \in 1 .. Len(log) : log[i].msg = m
InHand(m)  == Queued(m) \/ Logged(m)
Held(m)    == dispatcher = [at |-> "enqueue", msg |-> m]
Started(m) == pc[m] # "unborn"
Refused(m) == m \in dropped

\* A received message is somewhere, and one that has a worker or was refused is nowhere
\* else.  That the other places exclude each other is in OrderInv.
Conserved ==
  \A m \in Inbound :
    /\ m <= Received => Held(m) \/ InHand(m) \/ Started(m) \/ Refused(m)
    /\ Started(m) \/ Refused(m) => m <= Received /\ ~Held(m) /\ ~InHand(m)
    /\ ~(Started(m) /\ Refused(m))

\* A dequeue moves messages from the queue to the log.
LEMMA DequeueKeeps ==
  ASSUME IInv, OrderInv, NEW w \in Inbound, NEW s \in Scopes, DequeueScope(w, s),
         NEW x \in Inbound
  PROVE  InHand(x)' <=> InHand(x)
<1> DEFINE q == queues[s]
           n == BatchSize(s)
           l == Len(queues[s])
           k == Len(log)
           r == SessionOf[x]
<1>1. l \in Nat /\ k \in Nat /\ r \in Scopes
  BY Contents, OwnScope
<1>2. /\ n \in 0 .. l
      /\ \A t \in Scopes : t # s => queues'[t] = queues[t]
      /\ Len(queues'[s]) = l - n
      /\ \A i \in 1 .. l - n : queues'[s][i] = q[n + i] /\ n + i \in 1 .. l
      /\ Len(log') = k + n
      /\ \A i \in 1 .. k : log'[i] = log[i]
      /\ \A i \in k + 1 .. k + n : i - k \in 1 .. n /\ i - k \in 1 .. l
                                   /\ log'[i].msg = q[i - k] /\ log'[i].by = w
  BY DequeueMoves
<1>3. \A i \in 1 .. l : q[i] = x => r = s
  BY DEF OrderInv, QueueInv
<1> HIDE DEF n, l, k, r
<1>4. ASSUME InHand(x) PROVE InHand(x)'
  <2>1. CASE Logged(x)
    <3>1. PICK i \in 1 .. k : log[i].msg = x
      BY <2>1 DEF Logged, k
    <3>2. i \in 1 .. Len(log') /\ log'[i].msg = x
      BY <1>1, <1>2, <3>1
    <3> QED
      BY <3>2 DEF InHand, Logged
  <2>2. CASE Queued(x) /\ r # s
    <3>1. Queued(x)'
      BY <1>1, <1>2, <2>2 DEF Queued, r
    <3> QED
      BY <3>1 DEF InHand
  <2>3. CASE Queued(x) /\ r = s
    <3>1. PICK i \in 1 .. l : q[i] = x
      BY <2>3 DEF Queued, r, l
    <3>2. CASE i <= n
      <4>1. k + i \in k + 1 .. k + n /\ k + i \in 1 .. k + n /\ (k + i) - k = i
        BY <1>1, <1>2, <3>1, <3>2
      <4>2. k + i \in 1 .. Len(log') /\ log'[k + i].msg = q[i]
        BY <1>2, <4>1
      <4> QED
        BY <3>1, <4>2 DEF InHand, Logged
    <3>3. CASE ~(i <= n)
      <4>1. i - n \in 1 .. l - n /\ n + (i - n) = i
        BY <1>1, <1>2, <3>1, <3>3
      <4>2. i - n \in 1 .. Len(queues'[s]) /\ queues'[s][i - n] = x
        BY <1>2, <3>1, <4>1
      <4>3. Queued(x)'
        BY <2>3, <4>2 DEF Queued, r
      <4> QED
        BY <4>3 DEF InHand
    <3> QED
      BY <3>2, <3>3
  <2> QED
    BY <1>4, <2>1, <2>2, <2>3 DEF InHand
<1>5. ASSUME InHand(x)' PROVE InHand(x)
  <2>1. CASE Logged(x)'
    <3>1. PICK i \in 1 .. k + n : log'[i].msg = x
      BY <1>2, <2>1 DEF Logged
    <3>2. CASE i \in 1 .. k
      <4>1. Logged(x)
        BY <1>2, <3>1, <3>2 DEF Logged, k
      <4> QED
        BY <4>1 DEF InHand
    <3>3. CASE i \in k + 1 .. k + n
      <4>1. i - k \in 1 .. l /\ q[i - k] = x /\ r = s
        BY <1>2, <1>3, <3>1, <3>3
      <4>2. Queued(x)
        BY <4>1 DEF Queued, r, l
      <4> QED
        BY <4>2 DEF InHand
    <3> QED
      BY <1>1, <1>2, <3>1, <3>2, <3>3
  <2>2. CASE Queued(x)' /\ r # s
    <3>1. Queued(x)
      BY <1>1, <1>2, <2>2 DEF Queued, r
    <3> QED
      BY <3>1 DEF InHand
  <2>3. CASE Queued(x)' /\ r = s
    <3>1. PICK i \in 1 .. l - n : queues'[s][i] = x
      BY <1>2, <2>3 DEF Queued, r
    <3>2. n + i \in 1 .. l /\ q[n + i] = x
      BY <1>2, <3>1
    <3>3. Queued(x)
      BY <2>3, <3>2 DEF Queued, r, l
    <3> QED
      BY <3>3 DEF InHand
  <2> QED
    BY <1>5, <2>1, <2>2, <2>3 DEF InHand
<1> QED
  BY <1>4, <1>5

\* A push adds its message to the queue or to the refused ones.
LEMMA PushAdds ==
  ASSUME IInv, NEW s \in Scopes, NEW x \in Inbound \cup ApiMsgs, PushScope(s, x),
         log' = log, x \in Inbound => SessionOf[x] = s
  PROVE  \/ /\ dropped' = dropped \cup {x}
            /\ \A y \in Inbound : InHand(y)' <=> InHand(y)
         \/ /\ dropped' = dropped
            /\ \A y \in Inbound : InHand(y)' <=> InHand(y) \/ y = x
<1>1. \A y \in Inbound : SessionOf[y] \in Scopes
  BY OwnScope
<1>2. CASE queues' = queues /\ dropped' = dropped \cup {x}
  BY <1>2 DEF InHand, Queued, Logged
<1>3. CASE /\ dropped' = dropped
           /\ \A t \in Scopes : t # s => queues'[t] = queues[t]
           /\ Len(queues'[s]) = Len(queues[s]) + 1
           /\ \A i \in 1 .. Len(queues[s]) : queues'[s][i] = queues[s][i]
           /\ queues'[s][Len(queues[s]) + 1] = x
  <2>1. Len(queues[s]) \in Nat
    BY Contents
  <2>2. \A y \in Inbound : Logged(y)' <=> Logged(y)
    BY DEF Logged
  <2>3. ASSUME NEW y \in Inbound, SessionOf[y] # s
        PROVE  y # x /\ (Queued(y)' <=> Queued(y))
    BY <1>1, <1>3, <2>3 DEF Queued
  <2>4. ASSUME NEW y \in Inbound, SessionOf[y] = s
        PROVE  Queued(y)' <=> Queued(y) \/ y = x
    <3>1. ASSUME Queued(y)' PROVE Queued(y) \/ y = x
      <4>1. PICK i \in 1 .. Len(queues[s]) + 1 : queues'[s][i] = y
        BY <1>3, <2>4, <3>1 DEF Queued
      <4>2. i \in 1 .. Len(queues[s]) \/ i = Len(queues[s]) + 1
        BY <2>1, <4>1
      <4> QED
        BY <1>3, <2>4, <4>1, <4>2 DEF Queued
    <3>2. ASSUME Queued(y) PROVE Queued(y)'
      <4>1. PICK i \in 1 .. Len(queues[s]) : queues[s][i] = y
        BY <2>4, <3>2 DEF Queued
      <4>2. i \in 1 .. Len(queues'[s]) /\ queues'[s][i] = y
        BY <1>3, <2>1, <4>1
      <4> QED
        BY <2>4, <4>2 DEF Queued
    <3>3. ASSUME y = x PROVE Queued(y)'
      <4>1. Len(queues[s]) + 1 \in 1 .. Len(queues'[s])
        BY <1>3, <2>1
      <4> QED
        BY <1>3, <2>4, <3>3, <4>1 DEF Queued
    <3> QED
      BY <3>1, <3>2, <3>3
  <2> QED
    BY <1>3, <2>2, <2>3, <2>4 DEF InHand
<1> QED
  BY <1>2, <1>3, PushAppends

\* The places exclude each other.
LEMMA Exclusive ==
  ASSUME IInv, OrderInv, Conserved, NEW m \in Inbound
  PROVE  /\ InHand(m) => m <= Received /\ ~Held(m) /\ ~Started(m) /\ ~Refused(m)
         /\ Held(m) => m = Received /\ ~Started(m) /\ ~Refused(m)
         /\ Started(m) => m <= Received /\ ~Refused(m)
         /\ Refused(m) => m <= Received
         /\ ~(Queued(m) /\ Logged(m))
<1>1. m \in Int /\ Received \in Int
  BY Contents DEF Inbound
<1>2. Queued(m) => Came(m)
  BY OwnScope DEF Queued, OrderInv, QueueInv
<1>3. Logged(m) => Came(m)
  BY DEF Logged, OrderInv, LogInv
<1>4. ~(Queued(m) /\ Logged(m))
  <2> SUFFICES ASSUME Queued(m), Logged(m) PROVE FALSE
    OBVIOUS
  <2>1. PICK i \in 1 .. Len(log) : log[i].msg = m
    BY DEF Logged
  <2>2. PICK j \in 1 .. Len(queues[SessionOf[m]]) : queues[SessionOf[m]][j] = m
    BY DEF Queued
  <2>3. m < m
    BY <2>1, <2>2 DEF OrderInv, LogInv
  <2> QED
    BY <1>1, <2>3
<1>5. Came(m) => m <= Received /\ ~Held(m)
  BY <1>1 DEF Came, Held
<1>6. Held(m) => m = Received
  BY DEF Held, OrderInv, HeldInv
<1> QED
  BY <1>2, <1>3, <1>4, <1>5, <1>6 DEF InHand, Conserved

\* A step that leaves every message of the bus where it is.
LEMMA NobodyMoved ==
  ASSUME Conserved, Received' = Received,
         \A x \in Inbound : /\ Held(x)' <=> Held(x)
                            /\ InHand(x)' <=> InHand(x)
                            /\ Started(x)' <=> Started(x)
                            /\ Refused(x)' <=> Refused(x)
  PROVE  Conserved'
BY DEF Conserved

LEMMA EnvironmentConserves ==
  ASSUME IInv, OrderInv, Conserved, Environment
  PROVE  Conserved'
<1>1. CASE Arrive
  <2>1. /\ Len(inbound') = Len(inbound) + 1 /\ arrived' = arrived + 1
        /\ Len(inbound) \in Nat /\ arrived \in Nat
    <3>1. inbound \in Seq(Inbound) /\ arrived + 1 \in Inbound
      BY <1>1, DispatchAssumption DEF Arrive, IInv, TypeOK, Inbound
    <3> QED
      BY <1>1, <3>1, Contents, AppendProperties DEF Arrive
  <2>2. Received' = Received
    BY <2>1 DEF Received
  <2>3. UNCHANGED <<dispatcher, queues, log, pc, dropped>>
    BY <1>1 DEF Arrive
  <2> QED
    BY <2>2, <2>3, NobodyMoved DEF Held, InHand, Queued, Logged, Started, Refused
<1>2. CASE Cancel \/ Stop \/ \E a \in ApiMsgs : SteerRead(a)
  <2>1. UNCHANGED <<arrived, inbound, dispatcher, queues, log, pc, dropped>>
    BY <1>2 DEF Cancel, Stop, SteerRead
  <2> QED
    BY <2>1, NobodyMoved DEF Received, Held, InHand, Queued, Logged, Started, Refused
<1>3. ASSUME NEW a \in ApiMsgs, SteerPush(a)
      PROVE  Conserved'
  <2>1. /\ steer[a] \in Scopes /\ PushScope(steer[a], a) /\ log' = log
        /\ UNCHANGED <<arrived, inbound, dispatcher, pc>>
    BY <1>3 DEF SteerPush
  <2>2. a \in Inbound \cup ApiMsgs /\ a \notin Inbound
    BY DispatchAssumption
  <2>3. \A x \in Inbound : InHand(x)' <=> InHand(x)
    BY <2>1, <2>2, PushAdds
  <2>4. \A x \in Inbound : Refused(x)' <=> Refused(x)
    BY <2>1, <2>2, PushAdds DEF Refused
  <2> QED
    BY <2>1, <2>3, <2>4, NobodyMoved DEF Received, Held, Started
<1> QED
  BY <1>1, <1>2, <1>3 DEF Environment

LEMMA DispatchConserves ==
  ASSUME IInv, OrderInv, Conserved, Dispatch
  PROVE  Conserved'
<1>1. CASE RunExit \/ \E m \in Inbound : SyncReturn(m)
  <2>1. /\ UNCHANGED <<arrived, inbound, queues, log, pc, dropped>>
        /\ dispatcher.at # "enqueue" /\ dispatcher'.at # "enqueue"
    BY <1>1 DEF RunExit, SyncReturn
  <2>2. \A x \in Inbound : ~Held(x) /\ ~Held(x)'
    BY <2>1 DEF Held
  <2> QED
    BY <2>1, <2>2, NobodyMoved DEF Received, InHand, Queued, Logged, Started, Refused
<1>2. ASSUME NEW m \in Inbound, ReceiveSystem(m) \/ ReceiveBusy(m) \/ ReceiveClaim(m)
      PROVE  Conserved'
  <2>1. /\ Receiving(m) /\ arrived' = arrived /\ UNCHANGED <<queues, log, dropped>>
        /\ \/ /\ dispatcher' = [at |-> "enqueue", msg |-> m] /\ pc' = pc
           \/ /\ dispatcher'.at # "enqueue"
              /\ \E step \in {"run", "waitSem"} : Goto(m, step)
    BY <1>2 DEF ReceiveSystem, ReceiveBusy, ReceiveClaim, Receiving
  <2>2. /\ inbound \in Seq(Inbound) /\ inbound # <<>> /\ inbound' = Tail(inbound)
        /\ m = inbound[1] /\ dispatcher.at = "receive"
    BY <2>1 DEF Receiving, IInv, TypeOK
  <2>3. /\ Len(inbound) \in Nat \ {0} /\ arrived \in Nat
        /\ Len(inbound') = Len(inbound) - 1
    BY <2>2, Contents, EmptySeq, HeadTailProperties
  <2>4. /\ m = Received + 1 /\ Received' = m /\ Received \in Int
    BY <2>1, <2>2, <2>3 DEF IInv, ChannelInv, Received
  <2>5. /\ ~InHand(m) /\ ~Started(m) /\ ~Refused(m)
        /\ \A x \in Inbound : ~Held(x)
    BY <2>2, <2>4, Exclusive DEF Held
  <2>6. \A x \in Inbound : /\ InHand(x)' <=> InHand(x)
                           /\ Refused(x)' <=> Refused(x)
    BY <2>1 DEF InHand, Queued, Logged, Refused
  <2>7. \A x \in Inbound : x # m => (Started(x)' <=> Started(x)) /\ ~Held(x)'
    BY <2>1 DEF Started, Held, Goto, IInv, TypeOK
  <2>8. \/ Held(m)' /\ ~Started(m)'
        \/ ~Held(m)' /\ Started(m)'
    BY <2>1, <2>5 DEF Started, Held, Goto, IInv, TypeOK
  <2>9. \A x \in Inbound : x # m => (x <= Received' <=> x <= Received)
    BY <2>4 DEF Inbound
  <2>10. m <= Received'
    BY <2>4
  <2> SUFFICES ASSUME NEW x \in Inbound
               PROVE  /\ x <= Received' => Held(x)' \/ InHand(x)' \/ Started(x)' \/ Refused(x)'
                      /\ Started(x)' \/ Refused(x)' => x <= Received' /\ ~Held(x)' /\ ~InHand(x)'
                      /\ ~(Started(x)' /\ Refused(x)')
    BY DEF Conserved
  <2>11. CASE x = m
    BY <2>5, <2>6, <2>8, <2>10, <2>11
  <2>12. CASE x # m
    BY <2>5, <2>6, <2>7, <2>9, <2>12 DEF Conserved
  <2> QED
    BY <2>11, <2>12
<1>3. ASSUME NEW m \in Inbound, Enqueue(m)
      PROVE  Conserved'
  <2>1. /\ dispatcher = [at |-> "enqueue", msg |-> m] /\ dispatcher'.at = "receive"
        /\ PushScope(SessionOf[m], m)
        /\ UNCHANGED <<arrived, inbound, log, pc>>
    BY <1>3 DEF Enqueue
  <2>2. /\ \A x \in Inbound : (Held(x) <=> x = m) /\ ~Held(x)'
        /\ Received' = Received
        /\ \A x \in Inbound : Started(x)' <=> Started(x)
    BY <2>1 DEF Held, Received, Started
  <2>3. SessionOf[m] \in Scopes /\ m \in Inbound \cup ApiMsgs
    BY OwnScope
  <2>4. ~Started(m) /\ ~Refused(m) /\ ~InHand(m) /\ m <= Received
    <3>1. m \in Int /\ Received \in Int
      BY Contents DEF Inbound
    <3> QED
      BY <2>2, <3>1, Exclusive
  <2>5. \/ \A x \in Inbound : /\ InHand(x)' <=> InHand(x)
                              /\ Refused(x)' <=> Refused(x) \/ x = m
        \/ \A x \in Inbound : /\ InHand(x)' <=> InHand(x) \/ x = m
                              /\ Refused(x)' <=> Refused(x)
    BY <2>1, <2>3, PushAdds DEF Refused
  <2> QED
    BY <2>2, <2>4, <2>5 DEF Conserved
<1> QED
  BY <1>1, <1>2, <1>3 DEF Dispatch

\* A worker that moves has been started before.
LEMMA WorkerConserves ==
  ASSUME IInv, OrderInv, Conserved, NEW m \in Inbound, Worker(m)
  PROVE  Conserved'
<1>1. UNCHANGED <<arrived, inbound, dispatcher, dropped>>
  BY DEF Worker, AcquireSlot, AbandonWait, EarlyExit, RegisterTurn, FirstPoll, Poll, EndTurn,
         ClearTurn, DrainCheck, ContinueClaim, ContinueDequeue, ContinueInitError,
         ReleaseSlot, Cleanup
<1>2. \/ UNCHANGED <<queues, log>>
      \/ \E s \in {SessionOf[m], Manual} : DequeueScope(m, s)
  BY DEF Worker, AcquireSlot, AbandonWait, EarlyExit, RegisterTurn, FirstPoll, Poll, EndTurn,
         ClearTurn, DrainCheck, ContinueClaim, ContinueDequeue, ContinueInitError,
         ReleaseSlot, Cleanup, FallbackScope
<1>3. \/ pc' = pc
      \/ /\ pc[m] # "unborn"
         /\ \E step \in Steps \ {"unborn"} : Goto(m, step)
  BY DEF Worker, AcquireSlot, AbandonWait, EarlyExit, RegisterTurn, FirstPoll, Poll, EndTurn,
         ClearTurn, DrainCheck, ContinueClaim, ContinueDequeue, ContinueInitError,
         ReleaseSlot, Cleanup, Steps
<1>4. \A x \in Inbound : InHand(x)' <=> InHand(x)
  <2>1. SessionOf[m] \in Scopes /\ Manual \in Scopes
    BY OwnScope DEF Scopes
  <2>2. CASE UNCHANGED <<queues, log>>
    BY <2>2 DEF InHand, Queued, Logged
  <2> QED
    BY <1>2, <2>1, <2>2, DequeueKeeps
<1>5. \A x \in Inbound : Started(x)' <=> Started(x)
  BY <1>3 DEF Started, Goto, IInv, TypeOK
<1> QED
  BY <1>1, <1>4, <1>5, NobodyMoved DEF Received, Held, Refused

LEMMA StepConserves == IInv /\ OrderInv /\ Conserved /\ [Next]_vars => Conserved'
<1> SUFFICES ASSUME IInv, OrderInv, Conserved, [Next]_vars PROVE Conserved'
  OBVIOUS
<1>1. CASE UNCHANGED vars
  BY <1>1, NobodyMoved DEF vars, Received, Held, InHand, Queued, Logged, Started, Refused
<1> QED
  BY <1>1, EnvironmentConserves, DispatchConserves, WorkerConserves DEF Next

LEMMA InitConserved == Init => Conserved
<1> SUFFICES ASSUME Init, NEW m \in Inbound
             PROVE  ~(m <= Received) /\ ~Started(m) /\ ~Refused(m)
  BY DEF Conserved
<1> QED
  BY EmptySeq DEF Init, Received, Started, Refused, Inbound

\* Where a received message can be, with the places of Places.
LEMMA PlacesOfMessage ==
  ASSUME IInv, OrderInv, NEW m \in Inbound
  PROVE  LET A == {<<"inbound", i>> : i \in {j \in DOMAIN inbound : inbound[j] = m}}
             B == {p \in Scopes \X (1 .. MaxQueueSize) :
                     p[2] <= Len(queues[p[1]]) /\ queues[p[1]][p[2]] = m}
             C == {<<"steered", i>> : i \in {j \in DOMAIN log : log[j].msg = m}}
         IN  /\ IF Received < m /\ m <= arrived THEN \E p : A = {p} ELSE A = {}
             /\ IF Queued(m) THEN \E p : B = {p} ELSE B = {}
             /\ IF Logged(m) THEN \E p : C = {p} ELSE C = {}
<1> DEFINE A == {<<"inbound", i>> : i \in {j \in DOMAIN inbound : inbound[j] = m}}
           B == {p \in Scopes \X (1 .. MaxQueueSize) :
                   p[2] <= Len(queues[p[1]]) /\ queues[p[1]][p[2]] = m}
           C == {<<"steered", i>> : i \in {j \in DOMAIN log : log[j].msg = m}}
           s == SessionOf[m]
<1>1. m \in Int /\ Received \in Int /\ arrived \in Nat /\ Len(inbound) \in Nat
  BY Contents DEF Inbound
<1>2. IF Received < m /\ m <= arrived THEN \E p : A = {p} ELSE A = {}
  <2>1. /\ DOMAIN inbound = 1 .. Len(inbound)
        /\ \A i \in 1 .. Len(inbound) : inbound[i] = Received + i
    BY LenProperties DEF IInv, TypeOK, ChannelInv, Received
  <2>2. CASE Received < m /\ m <= arrived
    <3>1. m - Received \in 1 .. Len(inbound) /\ inbound[m - Received] = m
      BY <1>1, <2>1, <2>2 DEF Received
    <3>2. \A i \in 1 .. Len(inbound) : inbound[i] = m => i = m - Received
      BY <1>1, <2>1
    <3>3. {j \in DOMAIN inbound : inbound[j] = m} = {m - Received}
      BY <2>1, <3>1, <3>2
    <3>4. A = {<<"inbound", m - Received>>}
      BY <3>3
    <3> QED
      BY <2>2, <3>4
  <2>3. CASE ~(Received < m /\ m <= arrived)
    <3>1. \A i \in 1 .. Len(inbound) : inbound[i] # m
      BY <1>1, <2>1, <2>3 DEF Received
    <3> QED
      BY <2>1, <2>3, <3>1
  <2> QED
    BY <2>2, <2>3
<1>3. IF Queued(m) THEN \E p : B = {p} ELSE B = {}
  <2>1. /\ s \in Scopes
        /\ \A t \in Scopes : Len(queues[t]) \in Nat /\ Len(queues[t]) <= MaxQueueSize
        /\ MaxQueueSize \in Nat
    BY OwnScope, Contents, DispatchAssumption DEF IInv, TypeOK
  <2>2. \A p \in B : /\ p[1] \in Scopes /\ p[2] \in 1 .. Len(queues[p[1]])
                     /\ queues[p[1]][p[2]] = m /\ p = <<p[1], p[2]>>
    BY <2>1
  <2>3. \A p \in B : p[1] = s
    BY <2>2 DEF OrderInv, QueueInv
  <2>4. \A p \in B : p[2] \in 1 .. Len(queues[s]) /\ queues[s][p[2]] = m /\ p = <<s, p[2]>>
    BY <2>2, <2>3
  <2> HIDE DEF B
  <2>5. CASE ~Queued(m)
    BY <2>4, <2>5 DEF Queued
  <2>6. CASE Queued(m)
    <3>1. PICK i \in 1 .. Len(queues[s]) : queues[s][i] = m
      BY <2>6 DEF Queued
    <3>2. <<s, i>> \in B
      BY <2>1, <3>1 DEF B
    <3>3. ASSUME NEW j \in 1 .. Len(queues[s]), queues[s][j] = m
          PROVE  j = i
      <4>1. ~(i < j) /\ ~(j < i)
        BY <1>1, <2>1, <3>1, <3>3 DEF OrderInv, QueueInv
      <4> QED
        BY <2>1, <4>1
    <3>4. \A p \in B : p = <<s, i>>
      BY <2>4, <3>3
    <3>5. B = {<<s, i>>}
      BY <3>2, <3>4
    <3> QED
      BY <2>6, <3>5
  <2> QED
    BY <2>5, <2>6 DEF B
<1>4. IF Logged(m) THEN \E p : C = {p} ELSE C = {}
  <2>1. DOMAIN log = 1 .. Len(log) /\ Len(log) \in Nat
    BY Contents, LenProperties
  <2>2. CASE ~Logged(m)
    BY <2>1, <2>2 DEF Logged
  <2>3. CASE Logged(m)
    <3>1. PICK i \in 1 .. Len(log) : log[i].msg = m
      BY <2>3 DEF Logged
    <3>2. ASSUME NEW j \in 1 .. Len(log), log[j].msg = m
          PROVE  j = i
      <4>1. ~(i < j) /\ ~(j < i)
        BY <1>1, <3>1, <3>2 DEF OrderInv, LogInv
      <4> QED
        BY <2>1, <4>1
    <3>3. {j \in DOMAIN log : log[j].msg = m} = {i}
      BY <2>1, <3>1, <3>2
    <3>4. C = {<<"steered", i>>}
      BY <3>3
    <3> QED
      BY <2>3, <3>4
  <2> QED
    BY <2>2, <2>3
<1> QED
  BY <1>2, <1>3, <1>4

\* The count of MessageConservation.
LEMMA OnePlaceEach ==
  ASSUME IInv, OrderInv, Conserved
  PROVE  MessageConservation
<1> SUFFICES ASSUME NEW m \in Inbound
             PROVE  Cardinality(Places(m)) = (IF m <= arrived THEN 1 ELSE 0)
  BY DEF MessageConservation
<1> DEFINE A == {<<"inbound", i>> : i \in {j \in DOMAIN inbound : inbound[j] = m}}
           B == {p \in Scopes \X (1 .. MaxQueueSize) :
                   p[2] <= Len(queues[p[1]]) /\ queues[p[1]][p[2]] = m}
           C == {<<"steered", i>> : i \in {j \in DOMAIN log : log[j].msg = m}}
           D == {p \in {<<"held", 0>>, <<"turn", 0>>, <<"dropped", 0>>} :
                   \/ p[1] = "held" /\ dispatcher = [at |-> "enqueue", msg |-> m]
                   \/ p[1] = "turn" /\ pc[m] # "unborn"
                   \/ p[1] = "dropped" /\ m \in dropped}
<1>1. Places(m) = A \cup B \cup C \cup D
  BY DEF Places
<1>2. /\ IF Received < m /\ m <= arrived THEN \E p : A = {p} ELSE A = {}
      /\ IF Queued(m) THEN \E p : B = {p} ELSE B = {}
      /\ IF Logged(m) THEN \E p : C = {p} ELSE C = {}
  BY PlacesOfMessage
<1>3. D = (IF Held(m) THEN {<<"held", 0>>} ELSE {})
            \cup (IF Started(m) THEN {<<"turn", 0>>} ELSE {})
            \cup (IF Refused(m) THEN {<<"dropped", 0>>} ELSE {})
  BY DEF Held, Started, Refused
<1> HIDE DEF A, B, C, D
<1>4. /\ m \in Int /\ Received \in Int /\ arrived \in Nat /\ Received <= arrived
  <2>1. Len(inbound) \in Nat /\ arrived \in Nat /\ m \in Int
    BY Contents DEF Inbound
  <2> QED
    BY <2>1 DEF Received
<1>5. CASE ~(m <= Received)
  <2>1. B = {} /\ C = {} /\ D = {}
    BY <1>2, <1>3, <1>4, <1>5, Exclusive DEF InHand
  <2>2. CASE m <= arrived
    <3>1. \E p : Places(m) = {p}
      BY <1>1, <1>2, <1>4, <1>5, <2>1, <2>2
    <3> QED
      BY <2>2, <3>1, FS_Singleton
  <2>3. CASE ~(m <= arrived)
    <3>1. Places(m) = {}
      BY <1>1, <1>2, <2>1, <2>3
    <3> QED
      BY <2>3, <3>1, FS_EmptySet
  <2> QED
    BY <2>2, <2>3
<1>6. CASE m <= Received
  <2>1. A = {} /\ m <= arrived
    BY <1>2, <1>4, <1>6
  <2>2. Held(m) \/ Queued(m) \/ Logged(m) \/ Started(m) \/ Refused(m)
    BY <1>6 DEF Conserved, InHand
  <2>3. \E p : Places(m) = {p}
    <3>1. CASE Held(m)
      <4>1. ~Queued(m) /\ ~Logged(m) /\ ~Started(m) /\ ~Refused(m)
        BY <3>1, Exclusive DEF InHand
      <4> QED
        BY <1>1, <1>2, <1>3, <2>1, <3>1, <4>1
    <3>2. CASE Queued(m)
      <4>1. ~Held(m) /\ ~Logged(m) /\ ~Started(m) /\ ~Refused(m)
        BY <3>2, Exclusive DEF InHand
      <4> QED
        BY <1>1, <1>2, <1>3, <2>1, <3>2, <4>1
    <3>3. CASE Logged(m)
      <4>1. ~Held(m) /\ ~Queued(m) /\ ~Started(m) /\ ~Refused(m)
        BY <3>3, Exclusive DEF InHand
      <4> QED
        BY <1>1, <1>2, <1>3, <2>1, <3>3, <4>1
    <3>4. CASE Started(m)
      <4>1. ~Held(m) /\ ~Queued(m) /\ ~Logged(m) /\ ~Refused(m)
        BY <3>4, Exclusive DEF InHand
      <4> QED
        BY <1>1, <1>2, <1>3, <2>1, <3>4, <4>1
    <3>5. CASE Refused(m)
      <4>1. ~Held(m) /\ ~Queued(m) /\ ~Logged(m) /\ ~Started(m)
        BY <3>5, Exclusive DEF InHand
      <4> QED
        BY <1>1, <1>2, <1>3, <2>1, <3>5, <4>1
    <3> QED
      BY <2>2, <3>1, <3>2, <3>3, <3>4, <3>5
  <2> QED
    BY <2>1, <2>3, FS_Singleton
<1> QED
  BY <1>5, <1>6

\* Every message that was published is in exactly one place, in any number of sessions and
\* whatever their workers, the dispatcher, Steer and the cancellation do: none is lost but
\* for those a full queue refused, and none is given to two turns.
THEOREM Conservation == Spec => []MessageConservation
<1>1. Spec => []Conserved
  BY InitConserved, StepConserves, Invariance, Order, PTL DEF Spec
<1> QED
  BY <1>1, OnePlaceEach, Invariance, Order, PTL
===============================================================================
