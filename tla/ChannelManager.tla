---------------------------- MODULE ChannelManager ----------------------------
(***************************************************************************)
(* The way of an outbound message: a publisher puts it on the bus, the     *)
(* dispatcher of its lane (text or media) moves it to the queue of its     *)
(* channel's worker, and the worker sends it chunk by chunk with retries,  *)
(* after turning the chat's placeholder into the first chunk when there is *)
(* one.  SendMessage goes straight through the worker's retry logic in the *)
(* goroutine of its caller.  Reload stops, replaces and adds channels while*)
(* messages flow; StopAll ends everything.                                 *)
(*                                                                         *)
(* A worker has the number of the channel made with it, and 0 is none; a   *)
(* worker made for an older channel keeps that one in serves.  A panic in  *)
(* a goroutine ends the process: crashed, and nothing moves any more.      *)
(* Left out: streams (nothing calls GetStreamer), the animated feedback    *)
(* messages, the HTTP server, typing and reactions, which go with the      *)
(* placeholder, and SendToChannel, which nothing calls.                    *)
(***************************************************************************)
EXTENDS Integers, Sequences, FiniteSets

CONSTANTS
  NumMsgs,        \* the messages are 1..NumMsgs
  ChannelOf,      \* the name of the channel of each message
  Media,          \* the messages of the media lane
  Direct,         \* the messages given to SendMessage
  Chunks,         \* how many chunks splitOutboundMessageContent makes of each
  Names,          \* the names of channels
  Started,        \* the channels of the configuration at the start
  Changes,        \* what a reload may find: records of added and removed names
  BusCapacity,    \* buffer of the outbound channels of the bus
  QueueCapacity,  \* defaultChannelQueueSize
  MaxAttempts,    \* maxRetries + 1
  MaxInstances,   \* bound on the channels made
  MaxReloads,     \* bound on the reloads of the configuration
  MaxPlaceholders,\* bound on the placeholders recorded
  Doubtful        \* the messages whose channel may show a chunk and report an error

Msgs  == 1 .. NumMsgs
Lanes == {"text", "media"}
Lane(m) == IF m \in Media THEN "media" ELSE "text"

Instances == 1 .. MaxInstances

ASSUME ChannelAssumption ==
  /\ NumMsgs \in Nat
  /\ ChannelOf \in [Msgs -> Names]
  /\ Media \subseteq Msgs /\ Direct \subseteq Msgs \ Media
  /\ Chunks \in [Msgs -> Nat \ {0}]
  /\ \A m \in Media : Chunks[m] = 1
  /\ Started \subseteq Names /\ IsFiniteSet(Names)
  /\ \A c \in Changes : c.added \subseteq Names /\ c.removed \subseteq Names
  /\ {BusCapacity, QueueCapacity, MaxAttempts} \subseteq Nat \ {0}
  /\ MaxInstances \in Nat /\ Cardinality(Started) <= MaxInstances
  /\ MaxReloads \in Nat /\ MaxPlaceholders \in Nat
  /\ Doubtful \subseteq Msgs

VARIABLES
  bus,          \* the outbound channel of each lane
  fate,         \* what became of each message
  disp,         \* the dispatcher of each lane: its step, message and worker
  channels,     \* m.channels: name -> instance
  workers,      \* m.workers: name -> instance
  made,         \* how many instances were made
  up,           \* the instances that are started and not stopped
  serves,       \* the instance each worker sends through
  queue,        \* the queues of each worker
  shut,         \* the queues that are closed
  run,          \* the goroutines of each worker
  job,          \* what each sender is sending: message, chunk, attempt
  ctxOf,        \* the dispatch context each worker runs under
  canceled,     \* the contexts that are canceled
  task,         \* the context of dispatchTask, 0 if nil
  lock,         \* the holder of m.mu for writing
  stop,         \* the progress of StopAll
  cleanups,     \* the deferred functions of the reloads, in order
  reloads,      \* reloads so far
  placeholder,  \* the chats (one for each channel) with a recorded placeholder
  recorded,     \* placeholders so far
  sent,         \* what each chat shows: sender, message, chunk and what was reported
  crashed       \* a goroutine panicked

busVars    == <<bus, disp>>
tableVars  == <<channels, workers, made, up, serves>>
workerVars == <<queue, shut, run, ctxOf>>
adminVars  == <<canceled, task, lock, stop, cleanups, reloads>>
showVars   == <<placeholder, recorded, sent>>
vars == <<busVars, fate, tableVars, workerVars, job, adminVars, showVars, crashed>>

NoJob == [msg |-> 0, chunk |-> 0, attempt |-> 0, inst |-> 0]
Idle  == [at |-> "recv", msg |-> 0, worker |-> 0]
Free  == [by |-> "none", arg |-> 0]

WorkerSenders == Instances \X Lanes
Senders == WorkerSenders \cup {<<m, "direct">> : m \in Direct}

\* The channels that start, numbered; StartAll makes a worker for each.
First == CHOOSE f \in [Started -> 1 .. Cardinality(Started)] :
           \A a, b \in Started : f[a] = f[b] => a = b
Table == [n \in Names |-> IF n \in Started THEN First[n] ELSE 0]

Init ==
  /\ bus = [l \in Lanes |-> <<>>]
  /\ fate = [m \in Msgs |-> "new"]
  /\ disp = [l \in Lanes |-> Idle]
  /\ channels = Table
  /\ workers = Table
  /\ made = Cardinality(Started)
  /\ up = 1 .. made
  /\ serves = [i \in Instances |-> i]
  /\ queue = [s \in WorkerSenders |-> <<>>]
  /\ shut = {}
  /\ run = [s \in WorkerSenders |-> IF s[1] <= made THEN "idle" ELSE "none"]
  /\ job = [s \in Senders |-> NoJob]
  /\ ctxOf = [i \in Instances |-> 1]
  /\ canceled = {}
  /\ task = 1
  /\ lock = Free
  /\ stop = "no"
  /\ cleanups = <<>>
  /\ reloads = 0
  /\ placeholder = {}
  /\ recorded = 0
  /\ sent = [n \in Names |-> <<>>]
  /\ crashed = FALSE

----------------------------------------------------------------------------
\* The bus and the dispatchers

\* PublishOutbound and PublishOutboundMedia: messages come in order.
Publish(m) ==
  /\ fate[m] = "new" /\ m \notin Direct
  /\ \A k \in Msgs \ Direct : k < m => fate[k] # "new"
  /\ \/ /\ Len(bus[Lane(m)]) < BusCapacity
        /\ bus' = [bus EXCEPT ![Lane(m)] = Append(@, m)]
        /\ fate' = [fate EXCEPT ![m] = "accepted"]
     \/ \* the publisher's context ends while the buffer is full
        /\ Len(bus[Lane(m)]) = BusCapacity
        /\ fate' = [fate EXCEPT ![m] = "refused"]
        /\ UNCHANGED bus
  /\ UNCHANGED <<disp, tableVars, workerVars, job, adminVars, showVars, crashed>>

\* Takes a message and looks its channel and worker up under the read lock.
\* An unknown channel or one without a worker: the message is dropped.
Dispatch(l) ==
  LET m == Head(bus[l])
      w == workers[ChannelOf[m]]
  IN  /\ disp[l].at = "recv" /\ bus[l] # <<>>
      /\ lock = Free
      /\ bus' = [bus EXCEPT ![l] = Tail(@)]
      /\ IF channels[ChannelOf[m]] # 0 /\ w # 0
         THEN /\ disp' = [disp EXCEPT ![l] = [at |-> "enqueue", msg |-> m, worker |-> w]]
              /\ UNCHANGED fate
         ELSE /\ fate' = [fate EXCEPT ![m] = "dropped"]
              /\ UNCHANGED disp
      /\ UNCHANGED <<tableVars, workerVars, job, adminVars, showVars, crashed>>

\* (mutant of Enqueue) A full queue makes the dispatcher drop the message.
EnqueueOrDrop(l) ==
  LET s == <<disp[l].worker, l>>
  IN  /\ disp[l].at = "enqueue"
      /\ queue' = IF Len(queue[s]) < QueueCapacity
                  THEN [queue EXCEPT ![s] = Append(@, disp[l].msg)] ELSE queue
      /\ disp' = [disp EXCEPT ![l] = Idle]
      /\ UNCHANGED <<bus, fate, tableVars, shut, run, ctxOf, job, adminVars, showVars, crashed>>

\* The lock is released by now: a queue closed meanwhile makes the send panic.
Enqueue(l) ==
  LET s == <<disp[l].worker, l>>
  IN  /\ disp[l].at = "enqueue"
      /\ \/ /\ s \in shut
            /\ crashed' = TRUE
            /\ UNCHANGED <<queue, disp>>
         \/ /\ s \notin shut
            /\ Len(queue[s]) < QueueCapacity
            /\ queue' = [queue EXCEPT ![s] = Append(@, disp[l].msg)]
            /\ disp' = [disp EXCEPT ![l] = Idle]
            /\ UNCHANGED crashed
      /\ UNCHANGED <<bus, fate, tableVars, shut, run, ctxOf, job, adminVars, showVars>>

\* The dispatchers run under the context of StartAll.
DispatcherStops(l) ==
  /\ disp[l].at # "off" /\ 1 \in canceled
  /\ disp' = [disp EXCEPT ![l] = [@ EXCEPT !.at = "off"]]
  /\ UNCHANGED <<bus, fate, tableVars, workerVars, job, adminVars, showVars, crashed>>

----------------------------------------------------------------------------
\* Senders: the two goroutines of a worker, and the callers of SendMessage

ContextDone(s) == s[2] # "direct" /\ ctxOf[s[1]] \in canceled

\* The worker takes the next message of its queue.
Take(s) ==
  /\ run[s] = "idle" /\ queue[s] # <<>>
  /\ job' = [job EXCEPT ![s] = [msg |-> Head(queue[s]), chunk |-> 1,
                                attempt |-> 0, inst |-> serves[s[1]]]]
  /\ queue' = [queue EXCEPT ![s] = Tail(@)]
  /\ run' = [run EXCEPT ![s] = "sending"]
  /\ UNCHANGED <<busVars, fate, tableVars, shut, ctxOf, adminVars, showVars, crashed>>

\* (mutant of WorkerExits) Only the context ends a worker.
WorkerExitsOnContext(s) ==
  /\ run[s] = "idle" /\ ContextDone(s)
  /\ run' = [run EXCEPT ![s] = "exited"]
  /\ UNCHANGED <<busVars, fate, tableVars, queue, shut, ctxOf, job, adminVars,
                 showVars, crashed>>

\* A closed queue is drained first; a canceled context may win over the queue.
WorkerExits(s) ==
  /\ run[s] = "idle"
  /\ ContextDone(s) \/ (s \in shut /\ queue[s] = <<>>)
  /\ run' = [run EXCEPT ![s] = "exited"]
  /\ UNCHANGED <<busVars, fate, tableVars, queue, shut, ctxOf, job, adminVars,
                 showVars, crashed>>

\* SendMessage looks the worker up and sends in its caller's goroutine.
SendMessage(m) ==
  LET n == ChannelOf[m]
  IN  /\ fate[m] = "new"
      /\ lock = Free
      /\ IF channels[n] # 0 /\ workers[n] # 0
         THEN /\ job' = [job EXCEPT ![<<m, "direct">>] =
                           [msg |-> m, chunk |-> 1, attempt |-> 0, inst |-> serves[workers[n]]]]
              /\ fate' = [fate EXCEPT ![m] = "accepted"]
         ELSE /\ fate' = [fate EXCEPT ![m] = "refused"]
              /\ UNCHANGED job
      /\ UNCHANGED <<busVars, tableVars, workerVars, adminVars, showVars, crashed>>

\* The chunk is over, sent or not: the next one, or the message is done.
AfterChunk(s, ok) ==
  LET j == job[s]
      last == j.chunk = Chunks[j.msg]
      failed == ~ok \/ fate[j.msg] = "failing"
  IN  /\ job' = [job EXCEPT ![s] = IF last THEN NoJob
                                   ELSE [j EXCEPT !.chunk = j.chunk + 1, !.attempt = 0]]
      /\ fate' = [fate EXCEPT ![j.msg] =
                    IF last THEN (IF failed THEN "failed" ELSE "sent")
                    ELSE IF failed THEN "failing" ELSE fate[j.msg]]
      /\ run' = IF last /\ s \in WorkerSenders THEN [run EXCEPT ![s] = "idle"] ELSE run

Sending(s) == job[s].msg # 0

\* The chat shows the chunk, and the channel reports that it does, or an error.
Shows(s, reported) ==
  [sent EXCEPT ![ChannelOf[job[s].msg]] =
     Append(@, [by |-> s, msg |-> job[s].msg, chunk |-> job[s].chunk,
                reported |-> reported])]

\* A call that reports an error may have shown the chunk or a part of it: the
\* answer was lost, or Telegram refused a later part of what its adapter made of
\* the chunk.
MayHaveShown(s) ==
  \/ UNCHANGED sent
  \/ job[s].msg \in Doubtful /\ sent' = Shows(s, FALSE)

\* The limiter refuses: the context is done.
LimiterRefuses(s) ==
  /\ Sending(s) /\ job[s].attempt = 0
  /\ ContextDone(s)
  /\ AfterChunk(s, FALSE)
  /\ UNCHANGED <<busVars, tableVars, queue, shut, ctxOf, adminVars, showVars, crashed>>

\* (mutant of PreSend) The edited chunk is sent as well.
PreSendAndSend(s) ==
  LET n == ChannelOf[job[s].msg]
  IN  /\ Sending(s) /\ job[s].attempt = 0
      /\ ~ContextDone(s)
      /\ placeholder' = placeholder \ {n}
      /\ sent' = IF n \in placeholder THEN Shows(s, TRUE) ELSE sent
      /\ job' = [job EXCEPT ![s].attempt = 1]
      /\ UNCHANGED <<busVars, fate, tableVars, workerVars, adminVars, recorded, crashed>>

\* (mutant of PreSend) A placeholder that was only deleted counts as delivered.
PreSendSwallows(s) ==
  LET n == ChannelOf[job[s].msg]
  IN  /\ Sending(s) /\ job[s].attempt = 0
      /\ ~ContextDone(s)
      /\ placeholder' = placeholder \ {n}
      /\ IF n \in placeholder
         THEN AfterChunk(s, TRUE)
         ELSE /\ job' = [job EXCEPT ![s].attempt = 1]
              /\ UNCHANGED <<fate, run>>
      /\ UNCHANGED <<busVars, tableVars, queue, shut, ctxOf, adminVars, recorded, sent, crashed>>

\* preSend consumes the placeholder of the chat.  Text is edited into it, and
\* if that works (Telegram says so too of an edit whose answer was lost) the
\* chunk is delivered; if not it is sent.  Media only deletes the placeholder.
PreSend(s) ==
  LET n == ChannelOf[job[s].msg]
  IN  /\ Sending(s) /\ job[s].attempt = 0
      /\ ~ContextDone(s)
      /\ placeholder' = placeholder \ {n}
      /\ \/ /\ n \in placeholder /\ job[s].msg \notin Media
            /\ sent' = Shows(s, TRUE)
            /\ AfterChunk(s, TRUE)
         \/ /\ job' = [job EXCEPT ![s].attempt = 1]
            /\ IF n \in placeholder /\ job[s].msg \notin Media
               THEN MayHaveShown(s) ELSE UNCHANGED sent
            /\ UNCHANGED <<fate, run>>
      /\ UNCHANGED <<busVars, tableVars, queue, shut, ctxOf, adminVars, recorded, crashed>>

\* One call of the channel's Send succeeds.
SendOk(s) ==
  /\ Sending(s) /\ job[s].attempt > 0
  /\ job[s].inst \in up
  /\ sent' = Shows(s, TRUE)
  /\ AfterChunk(s, TRUE)
  /\ UNCHANGED <<busVars, tableVars, queue, shut, ctxOf, adminVars, placeholder,
                 recorded, crashed>>

\* It fails for good: a permanent error (a stopped channel answers
\* ErrNotRunning), the last attempt, or the context ends during the delay.
SendFails(s) ==
  /\ Sending(s) /\ job[s].attempt > 0
  /\ AfterChunk(s, FALSE)
  /\ MayHaveShown(s)
  /\ UNCHANGED <<busVars, tableVars, queue, shut, ctxOf, adminVars, placeholder,
                 recorded, crashed>>

\* It fails for now, and the whole chunk is tried again after a delay.
Retry(s) ==
  /\ Sending(s) /\ job[s].attempt \in 1 .. MaxAttempts - 1
  /\ job[s].inst \in up
  /\ job' = [job EXCEPT ![s].attempt = @ + 1]
  /\ MayHaveShown(s)
  /\ UNCHANGED <<busVars, fate, tableVars, workerVars, adminVars, placeholder, recorded,
                 crashed>>

\* A message from the chat arrives, and a placeholder is sent and recorded.
RecordPlaceholder(n) ==
  /\ recorded < MaxPlaceholders
  /\ channels[n] \in up
  /\ placeholder' = placeholder \cup {n}
  /\ recorded' = recorded + 1
  /\ UNCHANGED <<busVars, fate, tableVars, workerVars, job, adminVars, sent, crashed>>

\* The janitor forgets a placeholder after ten minutes.
Janitor(n) ==
  /\ n \in placeholder /\ 1 \notin canceled
  /\ placeholder' = placeholder \ {n}
  /\ UNCHANGED <<busVars, fate, tableVars, workerVars, job, adminVars, recorded, sent,
                 crashed>>

----------------------------------------------------------------------------
\* Reload

\* The whole of Reload holds the lock.  Removed channels are stopped.  A new
\* dispatchTask replaces the old one, whose context stays alive.  initChannels
\* makes those of the added channels whose settings are fit; one that is not
\* keeps its old channel, and if there is none the nil channel panics.  Those
\* that start (ok) get a worker.  The rest is left to a goroutine.
Reload(c, fit, ok) ==
  LET id  == CHOOSE f \in [c.added -> made + 1 .. made + Cardinality(c.added)] :
               \A a, b \in c.added : f[a] = f[b] => a = b
      now == [n \in Names |-> IF n \in fit THEN id[n] ELSE channels[n]]
  IN  /\ fit \subseteq c.added /\ ok \subseteq c.added
      /\ reloads < MaxReloads /\ made + Cardinality(c.added) <= MaxInstances
      /\ lock = Free /\ stop = "no"
      /\ reloads' = reloads + 1
      /\ IF (\E n \in c.removed : channels[n] = 0) \/ (\E n \in c.added : now[n] = 0)
         THEN /\ crashed' = TRUE
              /\ UNCHANGED <<tableVars, workerVars, task, cleanups>>
         ELSE /\ up' = (up \ {channels[n] : n \in c.removed}) \cup {now[n] : n \in ok}
              /\ task' = reloads + 2
              /\ channels' = now
              /\ workers' = [n \in Names |-> IF n \in ok THEN id[n] ELSE workers[n]]
              /\ made' = made + Cardinality(c.added)
              /\ serves' = [i \in Instances |->
                    IF \E n \in ok : id[n] = i
                    THEN now[CHOOSE n \in ok : id[n] = i] ELSE serves[i]]
              /\ run' = [s \in WorkerSenders |->
                    IF \E n \in ok : id[n] = s[1] THEN "idle" ELSE run[s]]
              /\ ctxOf' = [i \in Instances |-> IF i > made THEN task' ELSE ctxOf[i]]
              /\ cleanups' = Append(cleanups,
                   [unregister |-> c.removed, register |-> [n \in ok |-> now[n]]])
              /\ UNCHANGED <<queue, shut, crashed>>
      /\ UNCHANGED <<busVars, fate, job, canceled, lock, stop, showVars>>

\* UnregisterChannel takes the lock and closes the queue of whatever worker the
\* name has by now; closing it twice panics.
Unregister(k, n) ==
  LET w == workers[n]
  IN  /\ k \in DOMAIN cleanups /\ n \in cleanups[k].unregister
      /\ lock = Free
      /\ cleanups' = [cleanups EXCEPT ![k].unregister = @ \ {n}]
      /\ IF w # 0 /\ <<w, "text">> \in shut
         THEN /\ crashed' = TRUE
              /\ UNCHANGED <<shut, lock, workers, channels>>
         ELSE IF w # 0
         THEN /\ shut' = shut \cup {<<w, "text">>}
              /\ lock' = [by |-> "unregister", arg |-> n]
              /\ UNCHANGED <<workers, channels, crashed>>
         ELSE /\ channels' = [channels EXCEPT ![n] = 0]
              /\ UNCHANGED <<shut, lock, workers, crashed>>
      /\ UNCHANGED <<busVars, fate, made, up, serves, queue, run, job, ctxOf, canceled, task,
                     stop, reloads, showVars>>

\* It waits for the text goroutine, closes the other queue, waits for that one,
\* and deletes the worker and the channel.
UnregisterMedia ==
  LET w == workers[lock.arg]
  IN  /\ lock.by = "unregister"
      /\ run[<<w, "text">>] = "exited" /\ <<w, "media">> \notin shut
      /\ shut' = shut \cup {<<w, "media">>}
      /\ UNCHANGED <<busVars, fate, tableVars, queue, run, ctxOf, job, adminVars,
                     showVars, crashed>>

UnregisterEnds ==
  /\ lock.by = "unregister"
  /\ \A l \in Lanes : LET s == <<workers[lock.arg], l>>
                      IN  s \in shut /\ run[s] = "exited"
  /\ workers' = [workers EXCEPT ![lock.arg] = 0]
  /\ channels' = [channels EXCEPT ![lock.arg] = 0]
  /\ lock' = Free
  /\ UNCHANGED <<busVars, fate, made, up, serves, workerVars, job, canceled, task, stop,
                 cleanups, reloads, showVars, crashed>>

\* RegisterChannel puts the channel back, and no worker.
Register(k, n) ==
  /\ k \in DOMAIN cleanups /\ cleanups[k].unregister = {}
  /\ n \in DOMAIN cleanups[k].register
  /\ lock = Free
  /\ channels' = [channels EXCEPT ![n] = cleanups[k].register[n]]
  /\ cleanups' = [cleanups EXCEPT ![k].register =
                    [x \in DOMAIN @ \ {n} |-> @[x]]]
  /\ UNCHANGED <<busVars, fate, workers, made, up, serves, workerVars, job, canceled, task,
                 lock, stop, reloads, showVars, crashed>>

----------------------------------------------------------------------------
\* StopAll

Current == {workers[n] : n \in Names} \ {0}
AllExited(l) == \A w \in Current : run[<<w, l>>] = "exited"

\* Takes the lock and cancels what dispatchTask points to.
StopCancel ==
  /\ stop = "no" /\ lock = Free
  /\ lock' = [by |-> "stop", arg |-> 0]
  /\ canceled' = canceled \cup {task}
  /\ task' = 0
  /\ stop' = "text"
  /\ UNCHANGED <<busVars, fate, tableVars, workerVars, job, cleanups, reloads, showVars,
                 crashed>>

\* Closes the text queues, and once their goroutines are gone the media queues.
StopClose(l, next) ==
  /\ stop = l
  /\ l = "media" => AllExited("text")
  /\ shut' = shut \cup {<<w, l>> : w \in Current}
  /\ stop' = next
  /\ UNCHANGED <<busVars, fate, tableVars, queue, run, ctxOf, job, canceled, task, lock,
                 cleanups, reloads, showVars, crashed>>

\* Once they are gone too it stops the channels and returns.
StopChannels ==
  /\ stop = "channels"
  /\ AllExited("media")
  /\ up' = up \ {channels[n] : n \in Names}
  /\ stop' = "done"
  /\ lock' = Free
  /\ UNCHANGED <<busVars, fate, channels, workers, made, serves, workerVars, job, canceled, task,
                 cleanups, reloads, showVars, crashed>>

----------------------------------------------------------------------------
Send(s) == LimiterRefuses(s) \/ PreSend(s) \/ SendOk(s) \/ SendFails(s) \/ Retry(s)
Work(s) == Take(s) \/ WorkerExits(s)
Route(l) == Dispatch(l) \/ Enqueue(l) \/ DispatcherStops(l)
Tidy ==
  \/ \E k \in DOMAIN cleanups, n \in Names : Unregister(k, n) \/ Register(k, n)
  \/ UnregisterMedia \/ UnregisterEnds
StopAll == StopCancel \/ StopClose("text", "media") \/ StopClose("media", "channels")
           \/ StopChannels

Next ==
  /\ ~crashed
  /\ \/ \E m \in Msgs : Publish(m)
     \/ \E m \in Direct : SendMessage(m)
     \/ \E l \in Lanes : Route(l)
     \/ \E s \in WorkerSenders : Work(s)
     \/ \E s \in Senders : Send(s)
     \/ \E n \in Names : RecordPlaceholder(n) \/ Janitor(n)
     \/ \E c \in Changes, fit \in SUBSET Names, ok \in SUBSET Names :
          Reload(c, fit, ok)
     \/ Tidy
     \/ StopAll

Spec == Init /\ [][Next]_vars

\* As long as a goroutine of the manager can run, one does.  All of them have a finite
\* amount of work, so this is all that rest asks for.
Progress ==
  \/ \E l \in Lanes : Route(l)
  \/ \E s \in WorkerSenders : Work(s)
  \/ \E s \in Senders : Send(s)
  \/ Tidy
  \/ stop # "no" /\ StopAll

FairSpec == Spec /\ WF_vars(~crashed /\ Progress)

----------------------------------------------------------------------------
\* Properties

Fates == {"new", "accepted", "refused", "dropped", "failing", "sent", "failed"}
Jobs  == [msg : 0 .. NumMsgs, chunk : Nat, attempt : 0 .. MaxAttempts,
          inst : Instances \cup {0}]

TypeOK ==
  /\ bus \in [Lanes -> Seq(Msgs)]
  /\ fate \in [Msgs -> Fates]
  /\ \A l \in Lanes : disp[l].at \in {"recv", "enqueue", "off"}
  /\ channels \in [Names -> Instances \cup {0}]
  /\ workers \in [Names -> Instances \cup {0}]
  /\ up \subseteq Instances
  /\ serves \in [Instances -> Instances]
  /\ queue \in [WorkerSenders -> Seq(Msgs)]
  /\ shut \subseteq WorkerSenders
  /\ run \in [WorkerSenders -> {"none", "idle", "sending", "exited"}]
  /\ job \in [Senders -> Jobs]
  /\ placeholder \subseteq Names
  /\ \A l \in Lanes : Len(bus[l]) <= BusCapacity
  /\ \A s \in WorkerSenders : Len(queue[s]) <= QueueCapacity

SameChunk(x, y) == x.msg = y.msg /\ x.chunk = y.chunk

\* x may come before y: in the order of messages and chunks, or as an attempt that
\* reported an error and was made again.
Before(x, y) ==
  \/ x.msg < y.msg
  \/ x.msg = y.msg /\ x.chunk < y.chunk
  \/ SameChunk(x, y) /\ ~x.reported

\* What a worker shows of one lane is in the order it was published, chunk after
\* chunk, and a chunk the channel reported as shown is never shown again, by any
\* sender, across retries, placeholders, reloads of the channel and the shutdown.
\* Only a chunk whose attempts reported an error although they had shown it is
\* repeated, and only by the sender that is trying it.
ShownInOrder ==
  \A n \in Names : \A i, j \in DOMAIN sent[n] :
    LET x == sent[n][i]
        y == sent[n][j]
    IN  i < j => /\ x.by = y.by => Before(x, y)
                 /\ SameChunk(x, y) => x.by = y.by

\* The places where a message is on its way.
Places(m) ==
  (UNION {{<<"bus", l, i>> : i \in {k \in DOMAIN bus[l] : bus[l][k] = m}} : l \in Lanes})
  \cup {<<"dispatcher", l, 1>> : l \in {x \in Lanes : disp[x].msg = m}}
  \cup (UNION {{<<"queue", s, i>> : i \in {k \in DOMAIN queue[s] : queue[s][k] = m}} :
                 s \in WorkerSenders})
  \cup {<<"sender", s, 1>> : s \in {x \in Senders : job[x].msg = m}}

\* An accepted message is in one place until it is settled, and in none after
\* that: none is lost or duplicated between bus, dispatcher, queue and worker,
\* when channels are replaced and when everything stops either.  The queue of a
\* worker that has left is a place, too, though nothing leaves it any more.
OnePlace ==
  \A m \in Msgs :
    Cardinality(Places(m)) = IF fate[m] \in {"accepted", "failing"} THEN 1 ELSE 0

\* Silent loss: a message no chunk of which failed is shown with every chunk,
\* whether a placeholder became a chunk, was only deleted, or went away.
NoSilentLoss ==
  \A m \in Msgs :
    LET shown == {c \in 1 .. Chunks[m] :
                    \E i \in DOMAIN sent[ChannelOf[m]] :
                      LET x == sent[ChannelOf[m]][i] IN x.msg = m /\ x.chunk = c}
    IN  /\ fate[m] = "sent" => shown = 1 .. Chunks[m]
        /\ fate[m] \in {"refused", "dropped"} => shown = {}

\* Everything comes to rest: every message the bus accepted is sent, given up after
\* its attempts, or dropped for want of a worker (a slow or stopped channel delays the
\* others, and blocks none of them for good), and once StopAll has begun it returns,
\* whatever the workers are sending.
Settled == \A m \in Msgs : fate[m] \notin {"accepted", "failing"}
ComesToRest == []<>(crashed \/ stop = "done" \/ (stop = "no" /\ Settled))

\* StopAll waits for the workers to drain: "Close all worker queues and wait
\* for them to drain" (pkg/channels/manager.go).
StopDrains ==
  stop = "done" => \A s \in WorkerSenders : queue[s] = <<>>

\* A channel that a reload restarted has a worker once the reload is over.
ReloadKeepsWorkers ==
  \A n \in Names :
    (channels[n] \in up /\ stop = "no" /\ lock = Free
     /\ \A k \in DOMAIN cleanups : n \notin cleanups[k].unregister)
      => workers[n] # 0
=============================================================================
