# HomeClaw in TLA+

TLA+ models of the Go program in this repository (HomeClaw, a home assistant
built on the PicoClaw agent framework), the TLC runs that check them and the
proofs about them. Source paths are relative to the repository; a definition's
source lines are in `PROJECT.json` under `map`.

## The system

HomeClaw connects chat services (`pkg/channels`) to agents (`pkg/agent`) that
answer with the help of language models (`pkg/providers`) and tools
(`pkg/tools`, `pkg/mcp`), and to a home (`pkg/homeclaw`: devices, events,
workflows). One process, the gateway (`pkg/gateway`), holds all of it.

| Part | State it keeps | Operations | Interacts with | What makes it correct |
|---|---|---|---|---|
| Turn dispatch (`agent.go`, `agent_steering.go`) | `activeTurnStates` (session -> placeholder or turn), `workerSem` | receive, claim, enqueue, run, drain, clean up | bus, steering queues, turn loop | a session is never wedged, pool bound, messages conserved and in order, sessions serialised |
| Steering (`steering.go`) | queues by scope, at most 10 messages each | Steer, Continue, polls, InterruptGraceful/Hard, HardAbort | dispatcher and turns, under the queue's mutex | nothing lost or duplicated, isolation of scopes |
| Turn loop (`turn_coord.go`, `pipeline_*.go`, `turn_state.go`) | history of the session, restore point, pending messages, interrupt flags | SetupTurn, CallLLM, ExecuteTools, Finalize, abortTurn | provider, tools, hooks, session store | every tool call has a result, rollback is complete, steering injected once, termination |
| Subturns (`subturn.go`) | `childTurnIDs`, `pendingResults` (16), `concurrencySem` (5) | spawnSubTurn, deliver, Finish | parent and child turns | limits, each result delivered once or reported as orphan |
| Legacy context manager (`context_legacy.go`) | summary of a session | Assemble, Compact, summarise in the background | session store, provider | no message disappears unsummarised |
| Seahorse context manager (`pkg/seahorse`, `context_seahorse.go`) | a database: rows, context items, summaries | Ingest, Compact, condense in the background, Bootstrap, Clear | turns, session store, provider | the context tells of every message once and in order, no dangling item |
| Session storage (`pkg/memory`, `pkg/session`) | a `.jsonl` and a `.meta.json` file per session | append, truncate, rewrite, compact, promote aliases | file system | acknowledged messages survive a crash, truncated ones do not return |
| Message bus (`pkg/bus`) | bounded channels | publish, close, drain | channels, dispatcher | no send on a closed channel, closing ends |
| Provider chain (`pkg/providers`) | cooldown counters, token buckets | execute with fallback, mark failure or success | turn loop | the rate is kept, a cooldown is respected, backoff does not shrink |
| Channel manager (`pkg/channels/manager.go`) | worker queues, placeholders, channels | dispatch, retry, rate limit, split, reload, stop | bus, adapters | order within a chat, no silent loss, everything comes to rest |
| Cron service (`pkg/cron`) | jobs in memory and in a file, a loop | add, update, remove, enable, run due jobs | cron tool, gateway, command line | a one-shot job runs at most once, recurring jobs go on, a removed job stays removed |
| HomeClaw devices (`pkg/homeclaw`) | two files: devices, operations of their types | sync, save, delete, enrich | tools, web server | nothing saved is lost, copies of operations are right |
| HomeClaw event centre and workflows | events, workflow runs | publish, execute steps | devices, agent | order, conditions |
| Heartbeat, state, media, pid file | small persisted stores and timers | save, sweep, acquire | agent loop, files | no file in use is swept |
| Gateway, web console, command line | processes and configuration | start, reload, stop | all | order of shutdown |

The hard behaviours: the interleaving of the dispatcher, the workers and calls
from outside on three structures with a lock each and no common one; turns that
end in five ways with deferred functions that must undo exactly what was done;
interrupts that race a turn's end; trees of turns that wait for each other's
slots and channels; workers that are replaced while their queues hold messages;
checks made before a wait or a provider's call and used after it; background
condensation that races new turns; services and processes that write the same
file; crashes between two writes of a store. The hazards are listed, each at its
line, in `PROJECT.json`.

## Modules

| Module | Models | Uses |
|---|---|---|
| `TurnDispatch` | `AgentLoop.Run`, workers, steering queues, `Continue`, `Steer` | |
| `TurnDispatchProofs` | theorems about its claims and slots, the order and conservation of its messages | `TurnDispatch` |
| `ContextBudget` | pure functions: sanitising, turn boundaries, safe cuts, compression | |
| `LegacyContext` | the legacy context manager on a session: compression, clearing, the summariser | `ContextBudget` |
| `TurnLoop` | one turn: provider calls, tools, steering, interrupts, rollback | `ContextBudget` |
| `TurnLoopProofs` | theorems about it, about `ContextBudget` and about `LegacyContext` | `TurnLoop`, `LegacyContext` |
| `SubTurn` | `spawnSubTurn`, delivery of results, `Finish`, `HardAbort` | |
| `SubTurnProofs` | theorems about it | `SubTurn` |
| `SessionHistory` | abstract: what the session store promises | |
| `SessionStore` | the two files of a session, with failures between writes | instance of `SessionHistory` |
| `SessionMemory` | the seahorse database of a session, compaction, restart | |
| `SessionProofs` | theorems about both, and that the files implement `SessionHistory` | `SessionStore`, `SessionMemory` |
| `FallbackChain` | `FallbackChain.Execute`, cooldowns, token buckets, time | |
| `FallbackChainProofs` | theorems about it | `FallbackChain` |
| `ChannelManager` | outbound bus, dispatchers, workers, `SendMessage`, `Reload`, `StopAll` | |
| `ChannelManagerProofs` | theorems about it | `ChannelManager` |
| `CronService` | the service, its file, its tool, reloads, the command line | |
| `CronServiceProofs` | theorems about it | `CronService` |
| `DeviceStore` | HomeClaw's device and operation files and their requests | |
| `DeviceStoreProofs` | theorems about it | `DeviceStore` |
| `MC...` | small instances for TLC | |

The modules meet where the program's parts meet. `TurnDispatch` sees a turn as
polls of its steering queue and an end; `TurnLoop` sees everything around the
turn as pushes, interrupts and `HardAbort`; `SubTurn` sees a turn as what it does
to other turns; `FallbackChain` is the call of the provider inside `TurnLoop`.
`TurnLoop` takes the session store for a list of messages, which is what
`SessionHistory` promises and `SessionStore` implements; so does `SessionMemory`.
`ChannelManager` begins where a turn publishes its answer.

### TurnDispatch

- Messages are numbers in the order in which they are published, and a worker
  is named by the message it was started for. `SessionOf` is the result of
  routing. `pc[m]` is the step of worker `m`, from `waitSem` to `done`.
- `activeTurnStates[s]` is the entry of session `s`: absent, a placeholder
  (`pending`, stored by the dispatcher or by `Continue`) or a turn. Its `owner`
  is known only to the invariants: the code deletes by key and tests only the
  prefix of the turn's id, and so do `ClearTurn`, `AbandonWait` and `Cleanup`.
- One action is one atomic operation of the code: a `LoadOrStore`, a push or a
  dequeue under the queue's mutex, a channel operation. In particular the
  dispatcher's `LoadOrStore` and its push (`ReceiveBusy`, `Enqueue`) are two
  actions, and so are the worker's last look at its queue, the release of its
  slot and its safety net.
- The inside of a turn is abstracted to its polls of the steering queue
  (`FirstPoll` with the fallback to the manual scope, `Poll` without) and its
  end (`EndTurn`): completed, which needs a poll that found nothing; failed;
  aborted; canceled; panicked.
- A system message is a turn of the dispatcher itself, in the main session,
  without a claim (`ReceiveSystem`, `SyncReturn`).

### ContextBudget

Operators only, on sequences of messages that keep their role, their kind, the
batch of calls they belong to and the number of calls or of the call answered:
`Sanitize` (`sanitizeHistoryForProvider`), `TurnBoundaries`, `SafeBoundary`
(`findSafeBoundary`), `ForceCompression` (the legacy manager's emergency
compression). `MCLegacyContext` grows every history up to its bound.

### LegacyContext

`stored` and `told` are what the session's files hold: the messages, each with
its number, and which of them the summary tells of. `turn` is the place of the
turn that runs, with what `forceCompression` holds between its calls of the
store; `asks` is the summariser: started by `EndTurn`, it reads the session
(`ReadSession`), waits for the provider (`WriteSummary`, `NoSummary`) and truncates to
the length it computed before it asked (`Truncate`). A turn, `RestoreHistory` and
`RestoreSummary` (an abort with its two writes) and `Clear` with its two go on
meanwhile, and the process may end at any step. `gone`, `lapsed` and `displaced`
are known only to the property. The text of a summary is the set of messages it
tells of: one batch is summarised with the summary there was; a batch that is too
large, and the excerpt that stands in for a provider's answer, are without it.
What a turn stores is free within the order of its messages; thresholds and
budgets are free. `LegacyInit`, `LegacyNext` and `LegacySpec` have names of their
own because `TurnLoopProofs` extends this module and `TurnLoop`.

### TurnLoop

The state is that of `turnState` and `turnExecution`, with the session's store
and its steering queue; `pc` is the place in `runTurn`. A step runs from one
point to the next at which something from outside can show: another goroutine's
push or interrupt, a hook's decision, the provider, a tool. Three lists hold
steering messages on their way, as in the code: the queue, the loop's local
`pendingMessages` (`pending`) and `exec.pendingMessages` (`execPending`), whose
copies are where a message may be injected twice.

Abstracted: the turn is a root turn, so that its polls of subturn results find
nothing; it keeps history (`NoHistory` is false); the context manager is the
legacy one; one steering queue without its fallback scope, which is in
`TurnDispatch`; the summarisation that starts after a turn is in `LegacyContext`. Which
tools are called, what models answer and what hooks decide is free.

### SessionStore and SessionHistory

`lines` and `ended` are the `.jsonl` file, `skip`, `count` and `summary` the
`.meta.json` file, and `op` is the operation between its two writes: the store
keeps nothing in memory, so that a crash and a failed write that the caller
only logs leave the same state (`Fail`). Replacing a file is atomic (write to a
temporary file, rename); an append may leave a part of a line
(`AddMessageTorn`), which cannot be decoded, and the next append continues that
line. `held`, `stale` and `cleared` are what the callers know; no guard reads
them. `SessionHistory` is a list of messages, the truncated messages that may
still be on disk, and a summary; each operation happens as a whole or not at
all, and a failure may bring truncated messages back and nothing else.

Abstracted: one session and one alias whose content does not change; a line
torn exactly before its newline; `TruncateHistory` on a history without visible
messages, which no caller asks for.

### SubTurn

Turns are numbered in the order they are spawned, 0 is the turn of a user's
message. `pc` is the step of each turn's goroutine in `spawnSubTurn`: waiting
for a slot, checks, linking itself to the parent (stored in `activeTurnStates`
by `Register`, appended to `childTurnIDs` by `Link`: two steps, as in the code),
running, delivering its result, done. A synchronous child holds its parent in
the tool call (`InTool`). `sem` and `holds` are the semaphore and `semAcquired`,
`chan` is `pendingResults`, `fin` and `todo` are the progress of one `Finish`.
What `runTurn` does besides spawning, polling and ending is in `TurnLoop`; a
turn may return or panic at any time it is not in a tool.

The root's `pendingResults` is nil and its semaphore too, as in
`newTurnState`: results of its children become orphans, and it has no limit
of concurrency. `HardAbort` has no caller outside tests, and `Finish` none but
`HardAbort`; both are modelled as the exported operations they are. The cap of
50 messages of an ephemeral session, a child's history and its events other
than those of delivery are left out.

### SessionMemory

`history` is the file of the session as the turn sees it, `rows`, `items` and
`summaries` the three tables of the database. A statement or a transaction is
a step, so that a row written without its item (`AddRow`, `AppendContext`)
and a summary written without its range replaced (`Summarize`, `ReplaceLeaf`)
are states. What a turn stores with `AddFullMessage` alone (results of tools denied or
skipped, `pipeline_execute.go:254`, and of sub-turns, `:646`) is `StoreOnly`: the file
has it, the database does not. `items` is a function on its ordinals, which is what the database's
sorted rows are. `ReplaceRange`, `ReplaceItems` and `Insert` with `Resequence` keep
the arithmetic of ordinals: the middle of a gap, and renumbering when there is
none. A turn's own compaction (leaf, then retries until under budget) and
`runCondensedLoop`, a goroutine that outlives the turn, run the same selection
of candidates on stale reads. Failures come at any step (the database is busy, a
context canceled, the provider failed); `Crash` ends the process, `Bootstrap`
compares the rows with the file and records what is missing.

The ghosts name what an excuse of a property must name: `missed` (row not
written, because the message was not given to `Ingest` or that was cut short), `cut` (row without item), `redone`, `wiped`, `tainted`. Tokens are
small numbers, and a comparison of sums with a budget may go either way. Its
specification is `MemorySpec`, because `SessionProofs` extends `SessionStore` too.
Searching the memory, the text of summaries and their expansion are left out.

### FallbackChain

The state is that of `CooldownTracker` and of `RateLimiterRegistry`, shared by
every execution; `now` is the clock, `Minute` units to the minute, and a bucket
holds parts of a token so that refilling is exact. Each table operation is a
step under its mutex, and a call of a provider lies between two steps. `Check`
reads the cooldown, `Acquire` takes a token or waits or gives up, and
`CallSucceeds`, `CallEnds` (context over, or an error that does not retry) and
`CallFails` mark the candidate. `checkedAt` and `granted` are known only to the
properties. The classification of errors is free: any reason may come.
The keys of the candidates are taken to be distinct.

### ChannelManager

One message goes from `Publish` to a dispatcher (`Dispatch`, `Enqueue`), to a
worker's queue (`Take`), and chunk by chunk through the limiter, `PreSend` (which
may turn the chat's placeholder into the chunk), the adapter and its retries
(`SendOk`, `SendFails`, `Retry`). A `Send` or an edit that reports an error may have
shown the chunk (`MayHaveShown`, for the messages in `Doubtful`): the Telegram adapter
splits a chunk further and reports an error after earlier parts were shown
(`telegram.go:295-304`), and an answer may be lost. `SendMessage` does the last part in its caller's
goroutine. The administration is modelled with the lock it holds and the steps
it takes without it: `Reload` (names added and removed, one that starts or one
that does not, and the deferred functions that unregister and register), and
`StopAll` (cancel, close text queues, close media queues, stop channels). A
worker has the number of the channel instance made with it, so that one that
outlives its replacement shows.

A panic (a send on a closed queue, a nil channel) ends the process: `crashed`.
Left out: streams, the animated feedback messages, the HTTP server, typing and
reactions (which go with the placeholder), `SendToChannel`; each is unused or
has no effect on what the properties speak of. The direct `SendMedia` is left out
too: it is to media what `SendMessage` is to text, with the retries of a media worker.
An adapter's nil counts as shown; Telegram's `EditMessage` also answers it when the
outcome of an edit is unknown (`telegram.go:451-462`).

### CronService

Services are numbered: a reload stops one and makes the next on the same file,
and the old one's running job still saves afterwards. The loop is `Plan` (timer
to the next job, or an hour), `Wakes`, `CheckJobs` (collects the due jobs and
clears their next runs, under the lock), `Execute` and `Executed` (outside the
lock; the result is merged and saved). The tool's `Add`, `Update`, `Remove` and
`Enable` notify the loop through an unbuffered channel without waiting
(`Notify`), so that a notification may be lost. The command line loads the file,
changes it and saves it (`CliLoad`, then `CliSave` or, for `cron add`, `CliAdd`) in a
process of its own. `Crash` and
`Start` are the restart. Time counts down, so that it needs no bound. A failed save
and cron expressions as such (a recurring job has a period) are left out.

### DeviceStore

`devices` and `ops` are the two files, `mem` what each process's operation store
holds in memory. A request reads, loads under its mutex, changes and writes
(`Load`, `Save`, `OpLoad`, `OpSave`, `OpDelete`), and where the program then enriches
every device with the operations of its type, `ReadMap` and `Enrich` follow,
without the mutex as in the code. `Sync`, `Change`, `Clear`, `Remove` are the
requests that save devices they read before. The web server is a process of its
own with its own mutexes, and may end at any step (`Crash`), as may the gateway.
One brand of devices, every device with a URN, and reads and writes that succeed: the
code ignores an error of a read (`_ = s.load()`, `device.go:52`) and goes on with what
it then holds, which is not modelled.

## Runs

| Run | Question | Instance |
|---|---|---|
| `dispatch_core` | are sessions never wedged, messages conserved, in order and in their session; does the dispatcher drain although all workers hang | 4 messages, 2 chats, 2 slots, queues of 2, a `Steer` call, commands, panics |
| `dispatch_liveness` | is every claim given back | 3 messages, one of them a system message, 1 slot, all ways to end |
| `legacy_context` | are calls and results kept together by sanitising, cutting and compressing; does no message leave before a summary told of it | every history of 6 messages over 8 kinds; from those in order 3 turns, up to 8 messages, 2 kept, batches of 2 |
| `loop_core` | are context and store equal, steering kept and never overtaken by a tool, iterations bounded, aborts rolled back to exactly the old history; does a turn end | batches of 3 tools, 2 steering messages, 2 iterations, all hook decisions, both interrupts, timeouts and errors |
| `loop_recovery` | are calls paired in all that is sent and stored | a continued turn over budget, context-length and vision errors, `HardAbort` |
| `store_crash` | is no stored message lost; do the files implement `SessionHistory` | 4 messages, 2 failures, a stored thought in the file, an alias |
| `memory` | does the context tell of every message, once and in order; is no item dangling; does a cleared session stay cleared | 5 messages, the second possibly in the file alone, fanout 2, fresh tail 1, 3 summaries, 1 clearing, 1 failure or crash |
| `subturn` | are slots counted and limits kept; does a result go to one place; does an abort reach every child and free every delivery | 4 children, depth 3, 2 slots of each turn, channels of 1, 1 abort; one asynchronous child of the root, and a last child, synchronous, that waits for a slot or is too deep |
| `providers` | is the rate kept; is a cooldown respected; is backoff never shortened | 3 executions, 2 candidates (the last with 1 request a minute), the clock to 4 |
| `delivery` | are chunks shown in order, and repeated only after a reported error; is no message lost silently or in two places; does everything come to rest | 4 messages (two texts, one of two chunks and doubtful; media; direct), 2 channels, buffers of 1, 2 attempts, 1 reload, 1 placeholder |
| `cron` | does a one-shot job run at most once, does a recurring one go on, does a removed one stay away | 2 jobs, both updated by the tool, 2 services, 1 edit or command of the command line, reloads, crash |
| `home` | do requests that do not overlap lose nothing; does a lone change repair what overlapping ones left | 2 devices, 2 types, 2 operations, 2 requests of the gateway and 1 of the web server at once, 4 in all |

Every run passes. Deadlock is checked in `cron`, whose clock always goes on, and
not elsewhere: those systems may stop, when no message or request is left, when a
turn has ended or at a bound.

### Bounds and why they are enough

`TurnDispatch`: the races of the dispatcher need two messages of a session
(push against last look), three for the overlap (a worker leaving, the next one
starting, a third message that claims), and a second session for isolation and
the pool; a fourth message leaves room for what follows. Queues of two messages
are filled by three, so refusals happen.

`ContextBudget`: a cut that separates a call from its results needs a user's
message, a call of two tools, its results and an answer; six messages hold this
and one message around it. Calls of one and of two tools and a stray result of
each give every pairing error. The summariser keeps four messages and summarises
ten at once in the code; with two and two, sessions of three to eight messages
have summaries of one batch and of a batch too large, and room for messages that
come while one is made.

`TurnLoop`: a batch of three has a first, a middle and a last call, so that a
skip of the rest is a skip of several; two steering messages tell the modes
"all" and "one-at-a-time" apart; two iterations are one within the limit and
one at it, and steering carries the turn past it. `MaxRetries` is the code's 2.
`loop_core` and `loop_recovery` differ because `ContextIsStored`, `SteeringKept` and
`RollbackComplete` do not hold under context and vision errors or `HardAbort`
(see below), and `CallsPaired` must hold there too.

`SessionStore`: two failures are enough for a failure during the repair of
another; four messages are enough for a truncation, a torn line between
messages, and an append after each. The state is small because the store
remembers nothing between operations.

`SessionMemory`: two leaves of two messages and one condensation of both need
four messages, the fresh tail one more; three summaries are those three. The
second message may be in the file alone, so that a restart finds it between others
that are recorded, summarised or not. One failure, at any step and of any kind, is enough for a row without an item before
a restart; one clearing may meet a summary under way. A session is claimed by one
turn at a time, so there is one process that runs turns; with two, which
`OneTurnPerSession` below says the code does not quite exclude, TLC breaks all four
properties. The proofs have no bound but that one (`OneTurn`).

`SubTurn`: below the child of the root there are two live children of one turn, or a
chain of live turns down to the limit of depth, so that a cascade goes over several
children and over three levels; the fourth finds the slots taken and waits, or is
too deep. One result fills a channel of one, so that the next delivery blocks; one
abort may come at any point. `SpawnsWithin`, an ACTION_CONSTRAINT, bounds who
spawns: the root has one child, asynchronous (its children share neither slots nor a
channel), and the last child is synchronous and spawned only as one too many. The
theorems have no such bounds; that an abort reaches every linked child is liveness
and is checked on this instance only.

`FallbackChain`: two executions race for a token and a third marks meanwhile;
four units are two minutes, in which the bucket refills and cooldowns of one,
two and three units begin and end. The proofs have no such bounds.

`ChannelManager`: buffers and queues of one are full with one message, and two
text messages of a chat with three chunks give every order; the channel of the
second, of two chunks, may show what it reports as an error. Media and the direct
message meet in the other chat, so that a worker of text, one of media and a second
sender run side by side. One reload replaces, removes or adds.

`CronService`: a one-shot job that is collected, a second job in the same list,
two services on one file. The tool may update either job, a recurring one by
`Commands`. Periods of one unit make every unit due.

`DeviceStore`: three requests at once, one in the other process, are every pair
of requests with a third that reads between them; the fourth is the one that
runs alone and repairs.

Every bound is a CONSTANT, named as one in its module (`Num...`, `Max...`).
`MaxParallelTurns`, `MaxQueueSize`, `MaxIterations`, `MaxDepth`, `MaxConcurrent`,
`Capacity`, the fanouts and the cooldown's bases and caps are parameters of the
program. Symmetry is used in `providers` and `home`, which check no liveness
property: executions, devices, types and operations are sets of model values
that nothing orders or singles out.

### Fairness

`TurnDispatch!FairSpec` assumes that the dispatcher and each worker are
scheduled (goroutines) and that a turn ends, which is what `loop_core` shows of
`TurnLoop`. Nothing is assumed of the environment. `DispatcherOnlySpec` assumes
fairness of the dispatcher alone, so that workers may hang for ever.
`TurnLoop!FairSpec` assumes weak fairness of the turn's own steps: calls of
providers have timeouts, tools and hooks are assumed to return. Pushes and
interrupts are not assumed to happen.
`SubTurn!FairSpec` assumes that as long as the steps around some turn, or some
`Finish`, can go on, one of them does; not that a turn ends, spawns or polls. That is
less than the scheduler gives each goroutine, and enough because these steps are
finitely many.
`ChannelManager!FairSpec` assumes that as long as some goroutine of the manager
can run one of them does: all have a finite amount of work, since messages,
attempts and reloads are finite, so that this one condition brings the manager
to rest. The sends of the adapters are assumed to return. Publishing,
placeholders, reloads and the beginning of `StopAll` are not assumed.
`CronService!FairSpec` assumes that each service's loop and executions go on
(handlers are assumed to return) and that time passes.
The other modules state safety only.

## Proofs

Each of the eight proof modules proves its theorems for every value of the
constants, from the module's named assumption, and from what else is named with
it below.

`TurnDispatchProofs` (any number of messages, sessions and slots, any queue
capacity, `DispatchAssumption`): `Invariance` (`Spec => []IInv`), `TypeCorrect`,
`ClaimSafety` and `PoolSafety`. `IInv` adds to the types: `ClaimInv`, which says of
every stored entry which goroutine stored it and where that goroutine may be;
`SlotInv`, which equates the semaphore with the number of workers between
acquiring and releasing it; `ChannelInv`, which says that a message still in the
channel has no worker. `ClaimHasLiveOwner` alone is not inductive: an entry may
be deleted by another goroutine than the one that stored it, and only the kind
of the entry together with the step of its owner says that a deletion leaves no
owner behind. The pool bound needs the equation of `SlotInv`, because a bound on
the number alone says nothing of a release. One lemma for the environment, one
for the dispatcher and one for the workers, each with a step for each action.

The second part of `TurnDispatchProofs` (both modes of steering): `Isolation`,
`SteeringOrder` and `Conservation`, that is `ScopeIsolation`, `SteeredInOrder` and
`MessageConservation`. The first two are properties of the log of what was
injected; `OrderInv` extends them to where the log is fed from: each queue has
messages of its session only, in order, all later than what was logged, and
earlier than the one the dispatcher is about to push and those still in the
channel. That order keeps a message from being twice in queues and log, so that
`Conserved` need only say that a received message is somewhere, and nowhere else
once it has a worker or was refused; the count of places follows as the
cardinality of a set with one element. Lemmas say what a dequeue moves, what a
push adds and that actions of the environment, the dispatcher and the workers
keep each part.

`TurnLoopProofs` (any history, any numbers of steering messages, iterations and
calls, any sets of failures, hook decisions and interrupts,
`TurnLoopAssumption`): `Invariance`, `TypeCorrect`, `CheckpointSafety` (no tool
starts while a message the turn has taken waits) and `IterationSafety` (past
`max_tool_iterations` a turn goes on by at most one iteration for each steering
message and one for the interrupt). `IterationsBounded` is not inductive: it says
nothing of why another iteration may begin. `IInv` charges each iteration past
the limit to a message that was injected or to the interrupt, by counting the
messages in the queue and in `execPending` against those pushed; hence a lemma for
what a dequeue takes and leaves. `NoToolAfterSteering` needs the same of every
step between the injection and the next checkpoint of the batch.

The second part of `TurnLoopProofs` is about histories. `SanitizePaired` proves of
the sanitizer itself that whatever it is given, of whatever length, what it returns
has every call followed by exactly its results. Its passes are recursive functions;
the module derives the induction it needs, over the places of a sequence, from the
least place where a claim fails. Four properties rest on it, each on an invariant
of its own next to `IInv`:

- `ShownIsPaired` (`CallsPaired`) holds without exception, with compressions, the
  retry without media, interrupts and denied or skipped calls. While tools run
  the messages are not in order: `ShownInv` says that they are what was in order
  before the batch, and then its call and the results of the tools behind it.
- `SteeringSafety` (`SteeringKept`, with `KeptInv`) assumes that nothing shortens
  the store on purpose: no compression after a context error, no retry without
  media (which sets the store to the history as it was assembled), no `HardAbort`.
- `RollbackSafety` (`RollbackComplete`, with `RollbackInv`) assumes the default agent,
  since another agent's restore point is empty (below), and that nothing is
  compressed. The restore point is taken again whenever messages are assembled;
  that it is still the old history is because the turn knows what it recorded from
  what was there before, and takes off only the former.
- `StoredIsShown` (`ContextIsStored`, with `StoredInv`) assumes the default agent and
  none of the steps that set the store to something else. That what is appended to
  both is shown behind the rest depends on what the rest ends with: a call behind
  an assistant's answer would be dropped. `Ready` is that a call may follow;
  `Continue` may begin at a history that is not, and then with a message to inject.

The assumptions of the last three are conditions on the constants that say which
failures and interrupts occur; `loop_core` has all of them, and no state is excluded
beyond those these steps lead to.

The third part of `TurnLoopProofs` is about the legacy context manager
(`LegacyAssumption`: any number of kept messages above zero, any batch, any bounds,
any messages too large to be summarised). `CutsArePaired` (`CutsKeepPairs`) and
`SanitizedOnce` (`SanitizedIsPaired`) are facts about the operators of
`ContextBudget` for whatever is stored, of whatever length, in order or not: where a
cut falls, no call is separated from its results, and sanitizing twice is sanitizing
once. `SanitizedOnce` assumes that a message with calls has at least one (`Proper`).
`LegacyHistories` applies both to every history the manager stores.

`ResumedSafety` and `LegacySafety` are `LeavesTold` with type correctness, from any
session of an earlier process (`Resumed`: some of its messages stored in order, the
rest told of) and from an empty one. `LeavesTold` is not inductive: `Truncate` drops
all but a number of messages that the summariser computed before it asked, and the
property says nothing of that number. `LegacyInv` adds why it suffices:

- `Counted`: of the messages that can still be in the history (`Reach`: stored, or
  brought back by the abort of the turn), those that the summariser did not take are
  at most as many as it keeps and as were stored since it read, and all of them are
  younger than those it took. So what a truncation drops was taken, and told of by
  the summary that was just written, or is one of those that came since
  (`displaced`).
- `Returns`: an abort drops nothing but the turn's own messages, whatever a
  compression or a truncation did to the history in between.
- `displaced` never counts more than what was stored, and histories are `Rising`:
  places in a history and the order of numbers agree, which is how a length counted
  from the end becomes a statement about messages.

`SubTurnProofs` (any number of children, limits, capacity and aborts,
`SubTurnAssumption`): `FullInvariance` (`Spec => []FullInv`), `SlotSafety`,
`ResultSafety` and `SlotDuringDelivery` (a child that waits for its parent's channel
holds a slot of the parent only if it panicked: on every other way out the slot
was given back before; a child that panicked delivers from the first deferred
function and gives the slot back in the last, so that it may wait with it). `FullInv` adds to `IInv` the tree (a child
is one deeper than its parent, which is what bounds the depth when the check
reads the parent's), that a slot was given back before the delivery, and where a
result is at each step (`Places`). A semaphore is equated with the set of its
owners, so that the lemmas are about cardinalities of sets that gain or lose one
element.

`FallbackChainProofs` (any executions, candidates, rates, bases, caps and
windows, `FallbackAssumption`): `Invariant`, `RateBounded`, `CooldownIsRespected`
and `FailuresNeverShorten`. `RateBound` is not inductive because the rate says
nothing of what is left in a bucket: `Buckets` counts what was taken and what is
left together against what flowed in up to the last refill. `NeverShortened`
rests on `Clocks`: an end lies no further ahead of the last failure than the count
gives, so that a count reset after the failure window cannot shorten it,
which is where the assumption that the caps do not exceed the window is used
(an hour and a day against 24 hours in the code). `CooldownRespected` rests on
`Checked`.

`CronServiceProofs` (any jobs, services, periods and edits, `CronAssumption`):
`Invariance` (`Spec => []CronInv`), `TypeCorrect`, `OnceOnly` (`AtMostOnce`),
`NoneForgotten` (`NeverForgotten`) and `RemovalIsFinal` (`RemovedStays`). That a
one-shot job runs once is not inductive: a job is executed when a service has
collected it, and services that were stopped go on executing what they collected.
Every next run of a one-shot job, in a store or in the tool's copy, is the time
the job still is ahead, or none (`InStep`), so that a service that comes after the
job fell due computes none; the way back to a next run in the past is the tool's
copy (`CopyInv`), which belongs to the service the job was added to. `DueInv` says
that a job due somewhere is due nowhere else and will not be found due by the
running service, `RunInv` the same of a job that was executed.

`ChannelManagerProofs` (any messages, chunks, channels, capacities, attempts and
reloads, `ChannelAssumption`): `TypeCorrect`, `InOrder` (`ShownInOrder`),
`NothingSilent` (`NoSilentLoss`) and `Kept` (`OnePlace`). None of the three is
inductive: what is shown says nothing of what a sender is about to show. `IInv`
orders everything between the chat and the publisher: along the way of a lane --
shown, with the sender, in its queue, with the dispatcher, on the bus, not yet
published -- messages only get younger (`ShownBefore`, `InLine`, `NewLast`), and no
message is with two workers (`Apart`). A reload may run a channel's old and new
worker side by side; they cannot meet in a message, since each took its own from
the one dispatcher. Then a message has one place because two places of a lane
would put it before itself; a chunk is reported as shown once because it was the
first that was not, and an attempt that reported an error can repeat only the chunk
its sender is at (`MayHaveShown`). The steps of reloads, unregistering, `StopAll`, placeholders and
attempts leave all of that as it is, and what they need is only that the workers
they make have no message yet (`RunOK`).

The first part of `SessionProofs` (any file an older version or an alias may have left, any
messages and failures, `SessionStoreAssumption`): `TypeCorrect`, `NothingIsLost`
(`NothingLost`), `ExactIsExact` (`ExactUnlessStale`) and the refinement `Implements`
(`Spec => KeepsPromise`). The assumption gives each message a line of its own, since
a message stands for one line here, and keeps thoughts out of what is appended
(`jsonl.go:556`) and of what was read from an alias (`jsonl.go:484`). What a file
shows is `Only`, a recursive function, about which the prover has no induction
rule to offer; the module derives one, from the least number outside a set, and
proves by it that selecting distributes over concatenation, that it may be done
twice, and that the offset a truncation looks for exists and shows the last
messages. Neither property is inductive, because a failure shows what the file
holds at that moment: `Files` says for each operation between its writes what is
on disk and what was (the offset is 0 before a file is replaced; a session that
promotes an alias is empty, and so has nothing hidden), `Unique` that no message
has two lines, so that what reappears is none of what was told, and `Told` what the
history keeps of it. `Current` and `Dropped` are the refinement mapping: during a
rewrite the history is the one before it. The lemma of each action says what the
action does to them; `Step` names the step of `SessionHistory` that is, or none.

The second part of `SessionProofs` (any fanouts, chunks, targets and fresh tail, any
distance of ordinals, any messages, summaries, clearings and failures,
`MemoryAssumption`, and `OneTurn`: no two turns of the session run at once, while the
goroutine that condenses overlaps them all): `MemoryInvariance`, `ReadableMemory`
(`Resolvable`), `NothingLeftOut` (`NothingForgotten`), `ToldInOrder` (`OnceInOrder`) and
`ClearedIsGone` (`ClearedStaysCleared`). None of the four is inductive, because each
speaks of the context and the steps that rewrite it go by what an actor read before
the provider was asked. `MemoryInv` says of every actor what still holds of it:

- A message being recorded is of the end of the history, its row is the last, and
  no item, no summary and nothing an actor holds tells of it yet (`Ordered`,
  `Recording`). So what a turn appends comes after everything, and what a clearing or
  a crash cuts short is known.
- A summary that is made and not yet in the context is nobody else's (`Pending`), so
  that it stands once and comes with the messages it was made from.
- A leaf stands ready for the first messages behind the summaries (`LeafReady`): what
  the goroutine does meanwhile is before it. The candidates of a condensation whose
  selection is fresh stand together, deeper summaries before them and shallower ones
  or messages behind (`BlockReady`): what the turn replaces meanwhile is behind
  them. That the context begins with the summaries, the deeper first (`Shape`), is
  why. `BlockReplaced` is the lemma that counts: a summary that takes the place of
  such a block tells of what the block told of, in its order.
- After two condensations overlapped none of this holds (`tainted`); `Resolvable` and
  `ClearedStaysCleared` do not need it. The latter rests on `Clean`: a condensation that
  was under way at a clearing has nothing left to use, either the summary it made is
  gone or all of its candidates are (`Unused`), whichever it looks for.
- A restart removes rows from the first one on that differs from the file.
  `DeltaIs` is about the comparison: what is removed and is in the file is recorded
  again, and nothing that stays comes after it. An item that is a summary has no row
  (`Apart`), and so none is removed with the rows.

Half of the lemmas are about sets of numbers, because the code finds its way by
least, greatest and middle ordinals and by counting (`MinIs`, `MaxIs`, `RankTaken`,
`ResequenceIs`, `OldestAre`, `ShallowestAre`).

`DeviceStoreProofs` (any devices, types, operations and requests,
`DeviceAssumption`): `TypeCorrect`, `NothingIsLost` (`NothingLost`) and
`AloneRepairs` (`RepairedAlone`). The mutexes play no part: they belong to one
process, and there are two. The invariant follows the one request that has been
alone since it began (`AloneFirst`); at each of its steps `Sound` says what its
copy still has in common with the files: what it loaded is what the file of
operations holds, and the devices it is about to save, together with those it
leaves, have the operations of their types. An overlap ends `alone` and with it
every obligation; only a later lone change takes them up again.

Only model-checked: liveness, which is out of the prover's reach
(`LoopKeepsDraining`, `SessionsReleased`, `TurnEnds`, `AbortFreesDelivery`,
`AbortReachesChildren`, `ComesToRest` and `RecurringRuns`). Every safety property of
the runs is the subject of a theorem. Of a turn outside the assumptions above,
`SteeringKept`, `RollbackComplete` and `ContextIsStored` say nothing, nor do the
theorems about `SessionMemory` of two turns of one session: the steps that are
excluded break them.

## What does not hold

Properties a reader would expect and TLC refutes. They stand in their modules
with a comment that says so and are in no run; a cfg with one of them as its
INVARIANT or PROPERTY shows the trace.

| Property | What happens |
|---|---|
| `TurnDispatch!OneTurnPerSession` | a worker that has left deletes any entry of its session whose turn id starts with `pending-` (`agent.go:213`), also the placeholder the dispatcher stored for the next worker; the message after that claims the session again, and two turns of it run at once |
| `TurnDispatch!SteeringHasDrainer` | the dispatcher's `LoadOrStore` and its push are two steps (`agent.go:175`); a worker that takes its last look at the queue between them leaves, and the message waits for the next one of its session |
| `TurnDispatch!OwnClaimNeverBlocksContinue` | a command answered without a turn leaves the dispatcher's placeholder in place, and the worker's drain loop is refused by it (`steering.go:360`) |
| `TurnLoop!SteeringInjectedOnce` | a message that arrives during a direct answer is put on `exec.pendingMessages`, which the loop copies and appends once more (`pipeline_llm.go:459`, `turn_coord.go:82`, `:175`) |
| `TurnLoop!RollbackComplete` with `DefaultAgent = FALSE` | the legacy context manager assembles from the default agent's store (`context_legacy.go:25`); another agent's turn captures an empty restore point, and its abort sets the session to it |
| `LegacyContext!ClearedIsForgotten` | `/clear` does not stop the summariser (`context_legacy.go:64`): the summary of what was cleared is written to the empty session, and the next turn is told of it |
| `SessionStore!ClearedStaysEmpty` | each turn calls `EnsureSessionMetadata`, which promotes an alias's history whenever the canonical session is empty, also after it was cleared (`jsonl.go:358`) |
| `SessionMemory!EverythingTold` | messages stored in the file alone (results of tools denied or skipped, of sub-turns) are not in the context before the next restart |
| `SessionMemory!CondensedTogether` | the goroutine's condensation and `CompactUntilUnder` overlap, which `condensing` does not prevent: messages are forgotten or told twice |
| `SessionMemory!NothingForgotten`, `Resolvable`, `OnceInOrder` and `ClearedStaysCleared` with two `Turns` | one turn clears or replaces between two steps of the other that record or compact; the mutex of `Ingest` (`short_engine.go:241`) covers neither |
| `SessionMemory!Reconciled` | when all rows are there `Bootstrap` does not look at the items (`short_engine.go:395`), so that a message whose item was not written stays out of the context |
| `ChannelManager!StopDrains` | `StopAll` cancels the workers' context before it closes their queues, and a worker that sees it leaves with messages in its queue (comment at `manager.go:858`) |
| `ChannelManager!ReloadKeepsWorkers` | a changed channel is added and removed by the same reload, and the deferred removal deletes the new worker |
| `DeviceStore!MarkKept` | an enrichment replaces the mark of a device that supports no operation (`llm_tool.go:654`) by nothing |

Seen while modelling, part of the models where they are in their scope:

- After a compression inside the turn (`turn_state.go:514`) the tail of the
  store need not match what the turn recorded, because messages read back have
  lost fields that are not stored; an abort then leaves messages of the turn.
  `HardAbort` rolls a session back under a running root turn without stopping
  it (`steering.go:517`). A hard abort noticed during the wait before a retry
  ends the turn as completed (`pipeline_llm.go:265`). The retry without media
  drops the messages the turn has stored so far from what it shows the provider
  (`pipeline_llm.go:220`).
- A summary of more than ten messages, and the excerpt used when the provider
  fails, replace the summary there was without its content
  (`context_legacy.go:222`, `:354`): what only the old one told of is lost, as it is
  when a compression or an abort writes back a summary it read before. `LeavesTold`
  excepts these (`lapsed`), and as many messages as were stored while the summary
  was made.
- A root turn has no `pendingResults` (`subturn.go:541`), where
  `docs/architecture/subturn.md:60-64` promises delivery; a result delivered to
  a turn that has ended normally stays in its channel, and once that is full
  the next delivery blocks for ever. A child is stored before it is appended to
  `childTurnIDs`, so that a cascade may miss it. A child that panics keeps its
  slot through the delivery.
- A torn line swallows the next message although the caller is told that it is
  stored (`jsonl.go:579`): `NothingLost` excepts it. A failed `Compact` is not
  corrected by the next one (`jsonl.go:758`; the comment at 769-773 says so); a
  complete `SetHistory` does. The promotion of an alias is not atomic
  (`jsonl.go:397`). A line of more than 10 MB makes its session unreadable
  (`jsonl.go:490`).
- Results of tools denied or skipped and of sub-turns are stored in the session's
  file with no `ingestMessage` (`pipeline_execute.go:253-257`, `:300-304`, `:339-343`,
  `:629-633`, `:270`, `:646`): the seahorse context does not tell of them until a
  restart has recorded them, and `NothingForgotten` excepts them. An aborted turn is
  rolled back in the session's file and not in the seahorse database.
  Few long messages at the front that reach `LeafChunkTokens` with fewer than
  `LeafMinFanout` block leaf compaction.
- The cooldown check is stale after the wait for a token (`fallback.go:136`), and
  a late success clears the cooldown of a newer failure; `CooldownRespected`
  says what remains. A turn with one candidate calls its provider without the
  fallback chain (`pipeline_llm.go:158`, `:183`), and so with neither rate limit nor
  cooldown, where `docs/reference/rate-limiting.md:3` says that the rate is enforced
  before each request; `RateBound` and `CooldownRespected` speak of the chain. A reload makes a new tracker and new limiters.
- A dispatcher that looked its worker up sends to a queue that `StopAll` or an
  unregistration has closed meanwhile, and the process panics. `Reload` replaces
  `dispatchTask` without cancelling the old context, so that `StopAll` later
  cancels the wrong one. `SendMessage` returns nil although sending failed.
  A chunk is repeated as a whole when its `Send` showed a part of it and reported an
  error (`telegram.go:304`, `manager.go:1011-1043`): `ShownInOrder` excepts that.
- A crash or restart past the time of a one-shot job leaves it enabled without a
  next run for ever; enabling a one-shot job that is due and not yet collected
  clears its next run; a lost notification delays a new job by up to an hour; a
  disabled job that was collected is still executed; `Update` overwrites the
  result of an execution with what the tool read before. A service that was
  stopped by a reload, or the command line, writes its stale jobs over the file:
  `RemovedStays` excepts both.
- Overlapping requests on devices save stale whole records over each other
  (`device_ops.go:153`), also ones that were deleted: `NothingLost` excepts them.
- `Steer` chooses a scope from any active turn (`steering.go:175`): its message may
  reach another session, or wait in the manual scope. `ScopeIsolation` excepts it.

## Plan

1. Seahorse's assembly of the context within a budget, and its search.
2. The media store, whose `ReleaseAll` removes files after it has unlocked
   (`pkg/media/store.go:178-215`).
3. HomeClaw's workflow store and engine.

## Not modelled

Adapters of chat services, providers' HTTP clients, tools, configuration,
credentials, migration, web console and command line (but for its `cron`
commands): I/O, text and data translation without a protocol of their own, and
most of the program's lines. In `pkg/homeclaw`: the workflow engine (an interpreter whose
state does not survive a run), the event centre (nothing subscribes to it),
intents and the clients of other vendors. `PROJECT.json` lists each part with the
reason, and which operations of a partly modelled part are missing.
