-------------------------- MODULE ChannelManagerProofs -------------------------
(***************************************************************************)
(* What is proved of ChannelManager, for any number of messages, channels, *)
(* workers, reloads and attempts, and any capacity: an accepted message is *)
(* in one place until it is settled (OnePlace), what a worker shows of one *)
(* lane is in the order it was published, and a chunk is repeated only by  *)
(* a sender whose attempts at it reported errors (ShownInOrder), and a     *)
(* message no chunk of which failed is shown with every chunk              *)
(* (NoSilentLoss).                                                         *)
(*                                                                         *)
(* One order carries the argument.  Along the way of a lane -- shown,      *)
(* being sent, in the queue of a worker, with the dispatcher, on the bus,  *)
(* not yet published -- the messages only get younger (InLine, NewLast),   *)
(* and no two workers have the same one (Apart).  So the message a sender  *)
(* is at is younger than all it has shown, its chunk is the first that was *)
(* not reported as shown (ShownBefore), and neither reloads, which replace *)
(* workers while their goroutines run, nor StopAll can disturb that: what  *)
(* they do to the tables moves no message.                                 *)
(***************************************************************************)
EXTENDS ChannelManager, FiniteSetTheorems, FunctionTheorems, TLAPS

----------------------------------------------------------------------------
\* Types

Dispatchers == [at : {"recv", "enqueue", "off"}, msg : Msgs \cup {0},
                worker : Instances \cup {0}]

\* A dispatcher has a message and its worker from the lookup until the queue has it;
\* one that stopped may keep its last one.
DispOK ==
  /\ disp \in [Lanes -> Dispatchers]
  /\ \A l \in Lanes : /\ disp[l].at = "recv" => disp[l].msg = 0
                      /\ disp[l].at = "enqueue" => disp[l].msg # 0 /\ disp[l].worker # 0

Cleanups == [unregister : SUBSET Names, register : UNION {[N -> Instances] : N \in SUBSET Names}]

TablesOK ==
  /\ channels \in [Names -> Instances \cup {0}]
  /\ workers \in [Names -> Instances \cup {0}]
  /\ made \in 0 .. MaxInstances
  /\ up \subseteq Instances
  /\ serves \in [Instances -> Instances]
  /\ shut \subseteq WorkerSenders
  /\ cleanups \in Seq(Cleanups)
  /\ lock.by = "unregister" => lock.arg \in Names /\ workers[lock.arg] # 0
  /\ placeholder \subseteq Names

\* A goroutine that is not sending has no message, and one not made yet is none.
RunOK ==
  /\ run \in [WorkerSenders -> {"none", "idle", "sending", "exited"}]
  /\ \A s \in WorkerSenders : /\ run[s] # "sending" => job[s].msg = 0
                              /\ s[1] > made => run[s] = "none"

Shown == [by : Senders, msg : Msgs, chunk : Nat, reported : BOOLEAN]

FlowOK ==
  /\ bus \in [Lanes -> Seq(Msgs)]
  /\ fate \in [Msgs -> Fates]
  /\ queue \in [WorkerSenders -> Seq(Msgs)]
  /\ job \in [Senders -> Jobs]
  /\ sent \in [Names -> Seq(Shown)]
  /\ \A s \in Senders : job[s].msg # 0 => job[s].chunk \in 1 .. Chunks[job[s].msg]
  /\ \A l \in Lanes : Len(bus[l]) <= BusCapacity
  /\ \A s \in WorkerSenders : Len(queue[s]) <= QueueCapacity

Typed == DispOK /\ TablesOK /\ RunOK /\ FlowOK

----------------------------------------------------------------------------
\* The inductive invariant

InBus(m, l)   == \E i \in DOMAIN bus[l] : bus[l][i] = m
InDisp(m, l)  == disp[l].msg = m
InQueue(m, s) == \E i \in DOMAIN queue[s] : queue[s][i] = m
InJob(m, s)   == job[s].msg = m

Increasing ==
  /\ \A l \in Lanes : \A i, j \in DOMAIN bus[l] : i < j => bus[l][i] < bus[l][j]
  /\ \A s \in WorkerSenders : \A i, j \in DOMAIN queue[s] : i < j => queue[s][i] < queue[s][j]

\* Every message keeps to its lane, those given to SendMessage to their caller.
OnLane ==
  \A m \in Msgs :
    /\ \A l \in Lanes : InBus(m, l) \/ InDisp(m, l) => l = Lane(m) /\ m \notin Direct
    /\ \A s \in WorkerSenders : InQueue(m, s) \/ InJob(m, s) => s[2] = Lane(m) /\ m \notin Direct
    /\ \A s \in Senders : InJob(m, s) /\ s \notin WorkerSenders => s = <<m, "direct">>

\* Along its way a lane has older messages first.
InLine ==
  \A m, k \in Msgs :
    /\ \A l \in Lanes : InDisp(m, l) /\ InBus(k, l) => m < k
    /\ \A s \in WorkerSenders :
         /\ InQueue(m, s) /\ (InDisp(k, s[2]) \/ InBus(k, s[2])) => m < k
         /\ InJob(m, s) /\ (InQueue(k, s) \/ InDisp(k, s[2]) \/ InBus(k, s[2])) => m < k

NewLast ==
  \A m, k \in Msgs \ Direct : k < m /\ fate[k] = "new" => fate[m] = "new"

\* No message is with two workers.
Apart ==
  \A m \in Msgs :
    /\ \A s, t \in WorkerSenders : InQueue(m, s) /\ InQueue(m, t) => s = t
    /\ \A s, t \in Senders : InJob(m, s) /\ InJob(m, t) => s = t
    /\ \A s \in WorkerSenders, t \in Senders : ~(InQueue(m, s) /\ InJob(m, t))

Live(m) == fate[m] \in {"accepted", "failing"}

Somewhere(m) ==
  \/ \E l \in Lanes : InBus(m, l) \/ InDisp(m, l)
  \/ \E s \in WorkerSenders : InQueue(m, s)
  \/ \E s \in Senders : InJob(m, s)

OnItsWay == \A m \in Msgs : Live(m) <=> Somewhere(m)

Entries(n) == {sent[n][i] : i \in DOMAIN sent[n]}

\* What is shown is of a message that is settled or being sent by the sender that
\* showed it, in a chat of its channel, and older than all the sender has before it;
\* the chunk the sender is at may be shown by attempts that reported an error.
ShownOK(x, n) ==
  /\ ChannelOf[x.msg] = n
  /\ fate[x.msg] \in {"accepted", "failing", "sent", "failed"}
  /\ Live(x.msg) =>
       /\ InJob(x.msg, x.by)
       /\ x.chunk < job[x.by].chunk \/ (x.chunk = job[x.by].chunk /\ ~x.reported)
  /\ x.by \in WorkerSenders =>
       /\ x.by[2] = Lane(x.msg) /\ x.msg \notin Direct
       /\ \A k \in Msgs : /\ InJob(k, x.by) => x.msg <= k
                          /\ InQueue(k, x.by) \/ InDisp(k, x.by[2]) \/ InBus(k, x.by[2])
                               => x.msg < k
  /\ x.by \notin WorkerSenders => x.by = <<x.msg, "direct">>

ShownBefore == \A n \in Names : \A x \in Entries(n) : ShownOK(x, n)

ChunkShown(m, c) == \E x \in Entries(ChannelOf[m]) : x.msg = m /\ x.chunk = c

\* As long as no chunk of a message failed, those before the one in work are shown.
AllShownSoFar ==
  \A m \in Msgs :
    /\ \A s \in Senders : fate[m] = "accepted" /\ InJob(m, s) =>
         \A c \in 1 .. job[s].chunk - 1 : ChunkShown(m, c)
    /\ fate[m] = "sent" => \A c \in 1 .. Chunks[m] : ChunkShown(m, c)

IInv ==
  /\ Increasing /\ OnLane /\ InLine /\ NewLast /\ Apart /\ OnItsWay
  /\ ShownBefore /\ ShownInOrder /\ AllShownSoFar

----------------------------------------------------------------------------
\* Sequences, senders and numbers

LEMMA ReplaceTyped ==
  ASSUME NEW S, NEW s \in Seq(S), NEW k \in DOMAIN s, NEW e \in S
  PROVE  [s EXCEPT ![k] = e] \in Seq(S)
OBVIOUS

LEMMA AppendIs ==
  ASSUME NEW S, NEW s \in Seq(S), NEW e \in S
  PROVE  /\ Append(s, e) \in Seq(S)
         /\ Len(Append(s, e)) = Len(s) + 1
         /\ DOMAIN Append(s, e) = DOMAIN s \cup {Len(s) + 1}
         /\ DOMAIN s = 1 .. Len(s)
         /\ \A i \in DOMAIN s : Append(s, e)[i] = s[i]
         /\ Append(s, e)[Len(s) + 1] = e
OBVIOUS

LEMMA TailIs ==
  ASSUME NEW S, NEW s \in Seq(S), s # <<>>
  PROVE  /\ Head(s) \in S /\ Tail(s) \in Seq(S)
         /\ Len(Tail(s)) = Len(s) - 1 /\ Len(s) \in Nat /\ Len(s) > 0
         /\ Head(s) = s[1]
         /\ DOMAIN s = 1 .. Len(s)
         /\ DOMAIN Tail(s) = 1 .. Len(s) - 1
         /\ \A i \in DOMAIN Tail(s) : Tail(s)[i] = s[i + 1]
OBVIOUS

LEMMA TwoKinds ==
  /\ \A s \in WorkerSenders : /\ s = <<s[1], s[2]>> /\ s[1] \in Instances /\ s[2] \in Lanes
                              /\ s \in Senders
  /\ \A m \in Direct : <<m, "direct">> \in Senders /\ <<m, "direct">> \notin WorkerSenders
  /\ \A s \in Senders : s \notin WorkerSenders => \E m \in Direct : s = <<m, "direct">>
BY DEF WorkerSenders, Senders, Lanes

LEMMA MsgsAre ==
  /\ NumMsgs \in Nat /\ Msgs \subseteq Nat \ {0} /\ Msgs \subseteq 0 .. NumMsgs
  /\ 0 \notin Msgs /\ Direct \subseteq Msgs
  /\ \A x \in 0 .. NumMsgs : x # 0 => x \in Msgs
BY ChannelAssumption DEF Msgs

LEMMA BoundsAre == MaxAttempts \in Nat \ {0} /\ BusCapacity \in Nat \ {0} /\ QueueCapacity \in Nat \ {0}
BY ChannelAssumption

\* Any finite set can be numbered from k + 1 on.
LEMMA Numbering ==
  ASSUME NEW S, IsFiniteSet(S), NEW k \in Nat
  PROVE  \E f \in [S -> k + 1 .. k + Cardinality(S)] : \A a, b \in S : f[a] = f[b] => a = b
<1> DEFINE n == Cardinality(S)
<1>1. n \in Nat /\ ExistsBijection(1 .. n, S)  BY FS_CardinalityType
<1>2. ExistsBijection(S, 1 .. n)  BY <1>1, Fun_ExistsBijSymmetric
<1>3. PICK g \in Bijection(S, 1 .. n) : TRUE  BY <1>2 DEF ExistsBijection
<1> HIDE DEF n
<1>4. /\ g \in [S -> 1 .. n]
      /\ \A a, b \in S : g[a] = g[b] => a = b
  BY <1>3 DEF Bijection, Injection, IsInjective
<1> DEFINE f == [x \in S |-> k + g[x]]
<1>5. f \in [S -> k + 1 .. k + n]  BY <1>1, <1>4
<1>6. ASSUME NEW a \in S, NEW b \in S, f[a] = f[b] PROVE a = b
  <2>1. k + g[a] = k + g[b]  BY <1>6
  <2>2. g[a] \in 1 .. n /\ g[b] \in 1 .. n  BY <1>4
  <2>3. g[a] = g[b]  BY <1>1, <2>1, <2>2
  <2>4. QED BY <1>4, <2>3
<1>7. QED BY <1>5, <1>6 DEF n

\* The numbers Reload gives to the channels it makes are new ones.
LEMMA FreshNumbers ==
  ASSUME NEW c \in Changes, made \in Nat
  PROVE  LET id == CHOOSE f \in [c.added -> made + 1 .. made + Cardinality(c.added)] :
                     \A a, b \in c.added : f[a] = f[b] => a = b
         IN  /\ id \in [c.added -> made + 1 .. made + Cardinality(c.added)]
             /\ \A a, b \in c.added : id[a] = id[b] => a = b
             /\ Cardinality(c.added) \in Nat
<1>1. IsFiniteSet(c.added)
  BY ChannelAssumption, FS_Subset
<1>2. \E f \in [c.added -> made + 1 .. made + Cardinality(c.added)] :
         \A a, b \in c.added : f[a] = f[b] => a = b
  BY <1>1, Numbering
<1>3. Cardinality(c.added) \in Nat  BY <1>1, FS_CardinalityType
<1>4. QED BY <1>2, <1>3

LEMMA TableTyped ==
  /\ Table \in [Names -> Instances \cup {0}]
  /\ Cardinality(Started) \in 0 .. MaxInstances
<1>1. IsFiniteSet(Started)  BY ChannelAssumption, FS_Subset
<1>2. \E f \in [Started -> 0 + 1 .. 0 + Cardinality(Started)] :
         \A a, b \in Started : f[a] = f[b] => a = b
  BY <1>1, Numbering
<1>3. Cardinality(Started) \in Nat  BY <1>1, FS_CardinalityType
<1>4. \E f \in [Started -> 1 .. Cardinality(Started)] :
         \A a, b \in Started : f[a] = f[b] => a = b
  BY <1>2, <1>3
<1>5. First \in [Started -> 1 .. Cardinality(Started)]
  BY <1>4 DEF First
<1>6. 1 .. Cardinality(Started) \subseteq Instances
  BY <1>3, ChannelAssumption DEF Instances
<1>7. Table \in [Names -> Instances \cup {0}]
  BY <1>5, <1>6 DEF Table
<1>8. QED BY <1>3, <1>7, ChannelAssumption

----------------------------------------------------------------------------
\* Types are kept

LEMMA TypedInit == Init => Typed
<1> SUFFICES ASSUME Init PROVE Typed  OBVIOUS
<1>1. DispOK  BY DEF Init, DispOK, Dispatchers, Idle
<1>2. TablesOK
  <2>1. channels = Table /\ workers = Table /\ made = Cardinality(Started) /\ up = 1 .. made
        /\ serves = [i \in Instances |-> i] /\ shut = {} /\ cleanups = <<>>
        /\ lock.by = "none" /\ placeholder = {}
    BY DEF Init, Free
  <2>2. up \subseteq Instances
    BY <2>1, TableTyped, ChannelAssumption DEF Instances
  <2>3. cleanups \in Seq(Cleanups)  BY <2>1
  <2>4. serves \in [Instances -> Instances]  BY <2>1
  <2>5. QED BY <2>1, <2>2, <2>3, <2>4, TableTyped DEF TablesOK
<1>3. RunOK
  <2>1. \A s \in WorkerSenders : job[s].msg = 0
    BY TwoKinds DEF Init, NoJob
  <2>2. made \in Nat /\ \A s \in WorkerSenders : s[1] \in Nat
    BY TableTyped, TwoKinds, ChannelAssumption DEF Init, Instances
  <2>3. QED BY <2>1, <2>2 DEF Init, RunOK
<1>4. FlowOK
  <2>1. NoJob \in Jobs /\ NoJob.msg = 0
    BY MsgsAre, ChannelAssumption DEF NoJob, Jobs
  <2>2. /\ bus = [l \in Lanes |-> <<>>] /\ queue = [s \in WorkerSenders |-> <<>>]
        /\ sent = [n \in Names |-> <<>>] /\ job = [s \in Senders |-> NoJob]
        /\ fate = [m \in Msgs |-> "new"]
    BY DEF Init
  <2>3. bus \in [Lanes -> Seq(Msgs)] /\ \A l \in Lanes : Len(bus[l]) <= BusCapacity
    BY <2>2, ChannelAssumption
  <2>4. queue \in [WorkerSenders -> Seq(Msgs)]
        /\ \A s \in WorkerSenders : Len(queue[s]) <= QueueCapacity
    BY <2>2, ChannelAssumption
  <2>5. sent \in [Names -> Seq(Shown)]  BY <2>2
  <2>6. fate \in [Msgs -> Fates]  BY <2>2 DEF Fates
  <2>7. QED BY <2>1, <2>2, <2>3, <2>4, <2>5, <2>6 DEF FlowOK
<1>5. QED BY <1>1, <1>2, <1>3, <1>4 DEF Typed

\* What the end of a chunk does: the next one, or the message is settled.
LEMMA AfterChunkIs ==
  ASSUME Typed, NEW s \in Senders, Sending(s), NEW ok \in BOOLEAN, AfterChunk(s, ok)
  PROVE  /\ job[s].msg \in Msgs /\ job[s].chunk \in 1 .. Chunks[job[s].msg]
         /\ Chunks[job[s].msg] \in Nat \ {0}
         /\ job' \in [Senders -> Jobs]
         /\ \A t \in Senders : t # s => job'[t] = job[t]
         /\ job[s].chunk = Chunks[job[s].msg] => job'[s].msg = 0
         /\ job[s].chunk # Chunks[job[s].msg] =>
              job'[s].msg = job[s].msg /\ job'[s].chunk = job[s].chunk + 1
         /\ fate' \in [Msgs -> Fates]
         /\ \A m \in Msgs : m # job[s].msg => fate'[m] = fate[m]
         /\ job[s].chunk = Chunks[job[s].msg] =>
              fate'[job[s].msg] = IF ~ok \/ fate[job[s].msg] = "failing" THEN "failed" ELSE "sent"
         /\ job[s].chunk # Chunks[job[s].msg] =>
              fate'[job[s].msg] = IF ~ok \/ fate[job[s].msg] = "failing" THEN "failing"
                                  ELSE fate[job[s].msg]
         /\ \/ UNCHANGED run /\ (s \in WorkerSenders => job'[s].msg # 0)
            \/ /\ s \in WorkerSenders /\ run' = [run EXCEPT ![s] = "idle"]
               /\ job[s].chunk = Chunks[job[s].msg]
<1> DEFINE j == job[s]
<1> DEFINE last == j.chunk = Chunks[j.msg]
<1> DEFINE failed == ~ok \/ fate[j.msg] = "failing"
<1>1. j \in Jobs /\ job \in [Senders -> Jobs] /\ fate \in [Msgs -> Fates]
  BY DEF Typed, FlowOK
<1>2. j.msg \in 0 .. NumMsgs /\ j.msg # 0  BY <1>1 DEF Sending, Jobs
<1>3. j.msg \in Msgs  BY <1>2, MsgsAre
<1>4. j.chunk \in 1 .. Chunks[j.msg] /\ Chunks[j.msg] \in Nat \ {0}
  BY <1>2, <1>3, ChannelAssumption DEF Typed, FlowOK
<1>5. /\ job' = [job EXCEPT ![s] = IF last THEN NoJob
                                   ELSE [j EXCEPT !.chunk = j.chunk + 1, !.attempt = 0]]
      /\ fate' = [fate EXCEPT ![j.msg] =
                    IF last THEN (IF failed THEN "failed" ELSE "sent")
                    ELSE IF failed THEN "failing" ELSE fate[j.msg]]
      /\ run' = IF last /\ s \in WorkerSenders THEN [run EXCEPT ![s] = "idle"] ELSE run
  BY DEF AfterChunk
<1>6. NoJob \in Jobs /\ NoJob.msg = 0
  BY MsgsAre, ChannelAssumption DEF NoJob, Jobs
<1> DEFINE more == [j EXCEPT !.chunk = j.chunk + 1, !.attempt = 0]
<1>7. more.msg = j.msg /\ more.chunk = j.chunk + 1
  BY <1>1 DEF Jobs
<1>8. more \in Jobs
  <2>1. 0 \in 0 .. MaxAttempts  BY BoundsAre
  <2>2. j.chunk + 1 \in Nat  BY <1>1 DEF Jobs
  <2>3. ASSUME NEW c \in Nat PROVE [j EXCEPT !.chunk = c, !.attempt = 0] \in Jobs
    BY <1>1, <2>1 DEF Jobs
  <2>4. QED BY <2>2, <2>3
<1>9. job' = [job EXCEPT ![s] = IF last THEN NoJob ELSE more]  BY <1>5
<1> HIDE DEF more, last, failed
<1>10. /\ job' \in [Senders -> Jobs]
       /\ \A t \in Senders : t # s => job'[t] = job[t]
       /\ last => job'[s].msg = 0
       /\ ~last => job'[s].msg = j.msg /\ job'[s].chunk = j.chunk + 1
  BY <1>1, <1>6, <1>7, <1>8, <1>9
<1>11. /\ fate' \in [Msgs -> Fates]
       /\ \A m \in Msgs : m # j.msg => fate'[m] = fate[m]
       /\ last => fate'[j.msg] = IF failed THEN "failed" ELSE "sent"
       /\ ~last => fate'[j.msg] = IF failed THEN "failing" ELSE fate[j.msg]
  BY <1>1, <1>3, <1>5 DEF Fates
<1>12. \/ UNCHANGED run /\ (s \in WorkerSenders => job'[s].msg # 0)
       \/ s \in WorkerSenders /\ run' = [run EXCEPT ![s] = "idle"] /\ last
  BY <1>2, <1>5, <1>10
<1>13. QED BY <1>3, <1>4, <1>10, <1>11, <1>12 DEF last, failed

LEMMA AfterChunkTyped ==
  ASSUME Typed, NEW s \in Senders, Sending(s), NEW ok \in BOOLEAN, AfterChunk(s, ok),
         UNCHANGED <<busVars, queue, made>>, sent' \in [Names -> Seq(Shown)]
  PROVE  DispOK' /\ RunOK' /\ FlowOK'
<1>1. DispOK'  BY DEF Typed, DispOK, busVars
<1>2. RunOK'
  <2>1. CASE UNCHANGED run
    <3>1. s \in WorkerSenders => run[s] = "sending"
      BY DEF Typed, RunOK, Sending
    <3>2. \A t \in Senders : t # s => job'[t] = job[t]
      BY AfterChunkIs
    <3>3. QED BY <2>1, <3>1, <3>2, TwoKinds DEF Typed, RunOK
  <2>2. CASE s \in WorkerSenders /\ run' = [run EXCEPT ![s] = "idle"]
             /\ job[s].chunk = Chunks[job[s].msg]
    <3>1. run[s] = "sending"  BY <2>2 DEF Typed, RunOK, Sending
    <3>2. /\ job'[s].msg = 0
          /\ \A t \in WorkerSenders : t # s => job'[t] = job[t]
      BY <2>2, AfterChunkIs, TwoKinds
    <3>3. QED BY <2>2, <3>1, <3>2 DEF Typed, RunOK
  <2>3. QED BY <2>1, <2>2, AfterChunkIs
<1>3. FlowOK'
  <2>1. \A t \in Senders : job'[t].msg # 0 => job'[t].chunk \in 1 .. Chunks[job'[t].msg]
    <3>1. /\ \A t \in Senders : t # s => job'[t] = job[t]
          /\ job'[s].msg # 0 => /\ job'[s].msg = job[s].msg
                                /\ job'[s].chunk = job[s].chunk + 1
                                /\ job[s].chunk # Chunks[job[s].msg]
      BY AfterChunkIs
    <3>2. /\ job[s].chunk \in 1 .. Chunks[job[s].msg]
          /\ Chunks[job[s].msg] \in Nat \ {0}
      BY AfterChunkIs
    <3>3. job'[s].msg # 0 => job'[s].chunk \in 1 .. Chunks[job'[s].msg]
      BY <3>1, <3>2
    <3>4. QED BY <3>1, <3>3 DEF Typed, FlowOK
  <2>2. QED BY <2>1, AfterChunkIs DEF Typed, FlowOK, busVars
<1>4. QED BY <1>1, <1>2, <1>3

\* A chunk shown is one more entry of its chat.
LEMMA ShowsIs ==
  ASSUME Typed, NEW s \in Senders, Sending(s), NEW r \in BOOLEAN
  PROVE  LET n == ChannelOf[job[s].msg]
             x == [by |-> s, msg |-> job[s].msg, chunk |-> job[s].chunk, reported |-> r]
         IN  /\ n \in Names /\ x \in Shown
             /\ Shows(s, r) = [sent EXCEPT ![n] = Append(@, x)]
             /\ Shows(s, r) \in [Names -> Seq(Shown)]
<1>1. job[s] \in Jobs  BY DEF Typed, FlowOK
<1>2. job[s].msg \in Msgs /\ job[s].chunk \in Nat
  BY <1>1, MsgsAre DEF Sending, Jobs
<1>3. ChannelOf[job[s].msg] \in Names  BY <1>2, ChannelAssumption
<1>4. [by |-> s, msg |-> job[s].msg, chunk |-> job[s].chunk, reported |-> r] \in Shown
  BY <1>2 DEF Shown
<1>5. Shows(s, r) \in [Names -> Seq(Shown)]
  BY <1>3, <1>4, AppendIs DEF Shows, Typed, FlowOK
<1>6. QED BY <1>3, <1>4, <1>5 DEF Shows

LEMMA MayHaveShownTyped ==
  ASSUME Typed, NEW s \in Senders, Sending(s), MayHaveShown(s) \/ UNCHANGED sent
  PROVE  sent' \in [Names -> Seq(Shown)]
<1>1. CASE UNCHANGED sent  BY <1>1 DEF Typed, FlowOK
<1>2. CASE sent' = Shows(s, FALSE)  BY <1>2, ShowsIs
<1>3. QED BY <1>1, <1>2 DEF MayHaveShown

LEMMA TypedPublish ==
  ASSUME Typed, NEW m \in Msgs, Publish(m)
  PROVE  Typed'
<1>0. Lane(m) \in Lanes  BY DEF Lane, Lanes
<1>1. UNCHANGED <<disp, tableVars, workerVars, job, adminVars, showVars>>
  BY DEF Publish
<1>2. DispOK' /\ TablesOK' /\ RunOK'
  BY <1>1 DEF Typed, DispOK, TablesOK, RunOK, tableVars, workerVars, adminVars, showVars
<1>3. fate' \in [Msgs -> Fates]
  BY DEF Publish, Typed, FlowOK, Fates
<1>4. bus' \in [Lanes -> Seq(Msgs)] /\ \A l \in Lanes : Len(bus'[l]) <= BusCapacity
  <2>1. CASE UNCHANGED bus  BY <2>1 DEF Typed, FlowOK
  <2>2. CASE Len(bus[Lane(m)]) < BusCapacity /\ bus' = [bus EXCEPT ![Lane(m)] = Append(@, m)]
    <3>1. bus[Lane(m)] \in Seq(Msgs)  BY <1>0 DEF Typed, FlowOK
    <3>2. Append(bus[Lane(m)], m) \in Seq(Msgs)
          /\ Len(Append(bus[Lane(m)], m)) = Len(bus[Lane(m)]) + 1
      BY <3>1, AppendIs
    <3>3. Len(bus[Lane(m)]) + 1 <= BusCapacity
      BY <3>1, <2>2, ChannelAssumption
    <3>4. QED BY <1>0, <2>2, <3>2, <3>3 DEF Typed, FlowOK
  <2>3. QED BY <2>1, <2>2 DEF Publish
<1>5. FlowOK'
  BY <1>1, <1>3, <1>4 DEF Typed, FlowOK, workerVars, showVars
<1>6. QED BY <1>2, <1>5 DEF Typed

LEMMA TypedDispatch ==
  ASSUME Typed, NEW l \in Lanes, Dispatch(l)
  PROVE  Typed'
<1> DEFINE m == Head(bus[l])
<1> DEFINE w == workers[ChannelOf[m]]
<1>0. bus[l] \in Seq(Msgs) /\ bus[l] # <<>>  BY DEF Dispatch, Typed, FlowOK
<1>1. m \in Msgs /\ Tail(bus[l]) \in Seq(Msgs) /\ Len(Tail(bus[l])) <= BusCapacity
  <2>1. Len(Tail(bus[l])) = Len(bus[l]) - 1 /\ Len(bus[l]) \in Nat  BY <1>0, TailIs
  <2>2. Len(bus[l]) <= BusCapacity  BY DEF Typed, FlowOK
  <2>3. QED BY <1>0, <2>1, <2>2, TailIs, ChannelAssumption
<1>2. w \in Instances \cup {0}
  BY <1>1, ChannelAssumption DEF Typed, TablesOK
<1>3. UNCHANGED <<tableVars, workerVars, job, adminVars, showVars>>
  BY DEF Dispatch
<1>4. TablesOK' /\ RunOK'
  BY <1>3 DEF Typed, TablesOK, RunOK, tableVars, workerVars, adminVars, showVars
<1>5. bus' = [bus EXCEPT ![l] = Tail(@)]  BY DEF Dispatch
<1>6. \/ w # 0 /\ disp' = [disp EXCEPT ![l] = [at |-> "enqueue", msg |-> m, worker |-> w]]
         /\ UNCHANGED fate
      \/ fate' = [fate EXCEPT ![m] = "dropped"] /\ UNCHANGED disp
  BY DEF Dispatch
<1> HIDE DEF m, w
<1>7. DispOK'
  BY <1>1, <1>2, <1>6, MsgsAre DEF Typed, DispOK, Dispatchers
<1>8. FlowOK'
  <2>1. fate' \in [Msgs -> Fates]  BY <1>1, <1>6 DEF Typed, FlowOK, Fates
  <2>2. bus' \in [Lanes -> Seq(Msgs)] /\ \A k \in Lanes : Len(bus'[k]) <= BusCapacity
    BY <1>1, <1>5 DEF Typed, FlowOK
  <2>3. QED BY <1>3, <2>1, <2>2 DEF Typed, FlowOK, workerVars, showVars
<1>9. QED BY <1>4, <1>7, <1>8 DEF Typed

LEMMA TypedEnqueue ==
  ASSUME Typed, NEW l \in Lanes, Enqueue(l)
  PROVE  Typed'
<1> DEFINE s == <<disp[l].worker, l>>
<1> DEFINE m == disp[l].msg
<1>1. m \in Msgs /\ s \in WorkerSenders
  BY DEF Enqueue, Typed, DispOK, Dispatchers, WorkerSenders
<1>2. UNCHANGED <<bus, fate, tableVars, shut, run, ctxOf, job, adminVars, showVars>>
  BY DEF Enqueue
<1>3. TablesOK' /\ RunOK'
  BY <1>2 DEF Typed, TablesOK, RunOK, tableVars, adminVars, showVars
<1>4. CASE UNCHANGED <<queue, disp>>
  BY <1>2, <1>3, <1>4 DEF Typed, DispOK, FlowOK, showVars
<1>5. CASE /\ Len(queue[s]) < QueueCapacity
           /\ queue' = [queue EXCEPT ![s] = Append(@, m)]
           /\ disp' = [disp EXCEPT ![l] = Idle]
  <2> HIDE DEF s, m
  <2>1. DispOK'  BY <1>5 DEF Typed, DispOK, Dispatchers, Idle
  <2>2. queue[s] \in Seq(Msgs)  BY <1>1 DEF Typed, FlowOK
  <2>3. Append(queue[s], m) \in Seq(Msgs) /\ Len(Append(queue[s], m)) = Len(queue[s]) + 1
    BY <1>1, <2>2, AppendIs
  <2>4. Len(Append(queue[s], m)) <= QueueCapacity
    BY <1>5, <2>2, <2>3, ChannelAssumption
  <2>5. queue' \in [WorkerSenders -> Seq(Msgs)]
        /\ \A t \in WorkerSenders : Len(queue'[t]) <= QueueCapacity
    BY <1>1, <1>5, <2>3, <2>4 DEF Typed, FlowOK
  <2>6. FlowOK'  BY <1>2, <2>5 DEF Typed, FlowOK, showVars
  <2>7. QED BY <1>3, <2>1, <2>6 DEF Typed
<1>6. QED BY <1>4, <1>5 DEF Enqueue

LEMMA TypedDispatcherStops ==
  ASSUME Typed, NEW l \in Lanes, DispatcherStops(l)
  PROVE  Typed'
<1>1. UNCHANGED <<bus, fate, tableVars, workerVars, job, adminVars, showVars>>
      /\ disp' = [disp EXCEPT ![l] = [@ EXCEPT !.at = "off"]]
  BY DEF DispatcherStops
<1>2. DispOK'  BY <1>1 DEF Typed, DispOK, Dispatchers
<1>3. QED
  BY <1>1, <1>2 DEF Typed, TablesOK, RunOK, FlowOK, tableVars, workerVars, adminVars, showVars

LEMMA TypedTake ==
  ASSUME Typed, NEW s \in WorkerSenders, Take(s)
  PROVE  Typed'
<1> DEFINE j == [msg |-> Head(queue[s]), chunk |-> 1, attempt |-> 0, inst |-> serves[s[1]]]
<1>0. s \in Senders /\ s[1] \in Instances  BY TwoKinds
<1>1. UNCHANGED <<busVars, fate, tableVars, shut, ctxOf, adminVars, showVars>>
      /\ job' = [job EXCEPT ![s] = j] /\ queue' = [queue EXCEPT ![s] = Tail(@)]
      /\ run' = [run EXCEPT ![s] = "sending"] /\ run[s] = "idle"
  BY DEF Take
<1>2. queue[s] \in Seq(Msgs) /\ queue[s] # <<>>  BY DEF Take, Typed, FlowOK
<1>3. Head(queue[s]) \in Msgs /\ Tail(queue[s]) \in Seq(Msgs)
      /\ Len(Tail(queue[s])) <= QueueCapacity
  <2>1. Len(Tail(queue[s])) = Len(queue[s]) - 1 /\ Len(queue[s]) \in Nat  BY <1>2, TailIs
  <2>2. Len(queue[s]) <= QueueCapacity  BY DEF Typed, FlowOK
  <2>3. QED BY <1>2, <2>1, <2>2, TailIs, ChannelAssumption
<1>4. j \in Jobs /\ j.msg \in Msgs /\ j.chunk = 1
  <2>1. serves[s[1]] \in Instances  BY <1>0 DEF Typed, TablesOK
  <2>2. 0 \in 0 .. MaxAttempts  BY BoundsAre
  <2>3. Head(queue[s]) \in 0 .. NumMsgs  BY <1>3, MsgsAre
  <2>4. QED BY <2>1, <2>2, <2>3, <1>3 DEF Jobs
<1> HIDE DEF j
<1>5. Chunks[j.msg] \in Nat \ {0}  BY <1>4, ChannelAssumption
<1>6. DispOK' /\ TablesOK'
  BY <1>1 DEF Typed, DispOK, TablesOK, busVars, tableVars, adminVars, showVars
<1>7. RunOK'
  <2>1. made' = made  BY <1>1 DEF tableVars
  <2>2. \A t \in WorkerSenders : t # s => job'[t] = job[t] /\ run'[t] = run[t]
    BY <1>1, TwoKinds DEF Typed, RunOK, FlowOK
  <2>3. run' \in [WorkerSenders -> {"none", "idle", "sending", "exited"}] /\ run'[s] = "sending"
    BY <1>1 DEF Typed, RunOK
  <2>4. ~(s[1] > made)  BY <1>1 DEF Typed, RunOK
  <2>5. QED BY <2>1, <2>2, <2>3, <2>4 DEF Typed, RunOK
<1>8. FlowOK'
  <2>1. job' \in [Senders -> Jobs] /\ job'[s] = j /\ \A t \in Senders : t # s => job'[t] = job[t]
    BY <1>0, <1>1, <1>4 DEF Typed, FlowOK
  <2>2. \A t \in Senders : job'[t].msg # 0 => job'[t].chunk \in 1 .. Chunks[job'[t].msg]
    <3>1. SUFFICES ASSUME NEW t \in Senders, job'[t].msg # 0
                   PROVE  job'[t].chunk \in 1 .. Chunks[job'[t].msg]
      OBVIOUS
    <3>2. CASE t = s  BY <1>4, <1>5, <2>1, <3>2
    <3>3. CASE t # s  BY <2>1, <3>1, <3>3 DEF Typed, FlowOK
    <3>4. QED BY <3>2, <3>3
  <2>3. queue' \in [WorkerSenders -> Seq(Msgs)]
        /\ \A t \in WorkerSenders : Len(queue'[t]) <= QueueCapacity
    BY <1>1, <1>3 DEF Typed, FlowOK
  <2>4. QED BY <1>1, <2>1, <2>2, <2>3 DEF Typed, FlowOK, busVars, showVars
<1>9. QED BY <1>6, <1>7, <1>8 DEF Typed

LEMMA TypedSendMessage ==
  ASSUME Typed, NEW m \in Direct, SendMessage(m)
  PROVE  Typed'
<1> DEFINE s == <<m, "direct">>
<1> DEFINE w == workers[ChannelOf[m]]
<1> DEFINE j == [msg |-> m, chunk |-> 1, attempt |-> 0, inst |-> serves[w]]
<1>0. s \in Senders /\ s \notin WorkerSenders /\ m \in Msgs  BY TwoKinds, MsgsAre
<1>1. UNCHANGED <<busVars, tableVars, workerVars, adminVars, showVars>>  BY DEF SendMessage
<1>2. \/ w # 0 /\ job' = [job EXCEPT ![s] = j] /\ fate' = [fate EXCEPT ![m] = "accepted"]
      \/ UNCHANGED job /\ fate' = [fate EXCEPT ![m] = "refused"]
  BY DEF SendMessage
<1>3. w # 0 => w \in Instances
  BY <1>0, ChannelAssumption DEF Typed, TablesOK
<1>4. w # 0 => j \in Jobs /\ j.msg = m /\ j.chunk = 1
  BY <1>0, <1>3, MsgsAre, ChannelAssumption DEF Jobs, Typed, TablesOK
<1> HIDE DEF j, s, w
<1>5. Chunks[m] \in Nat \ {0}  BY <1>0, ChannelAssumption
<1>6. DispOK' /\ TablesOK'
  BY <1>1 DEF Typed, DispOK, TablesOK, busVars, tableVars, workerVars, adminVars, showVars
<1>7. \A t \in Senders : t # s => job'[t] = job[t]
  BY <1>2 DEF Typed, FlowOK
<1>8. RunOK'
  <2>1. \A t \in WorkerSenders : job'[t] = job[t]  BY <1>0, <1>7, TwoKinds
  <2>2. QED BY <1>1, <2>1 DEF Typed, RunOK, workerVars, tableVars
<1>9. FlowOK'
  <2>1. fate' \in [Msgs -> Fates]  BY <1>0, <1>2 DEF Typed, FlowOK, Fates
  <2>2. job' \in [Senders -> Jobs]  BY <1>0, <1>2, <1>4 DEF Typed, FlowOK
  <2>3. job'[s] = job[s] \/ (job'[s].msg = m /\ job'[s].chunk = 1)
    BY <1>0, <1>2, <1>4 DEF Typed, FlowOK
  <2>4. \A t \in Senders : job'[t].msg # 0 => job'[t].chunk \in 1 .. Chunks[job'[t].msg]
    BY <1>5, <1>7, <2>3 DEF Typed, FlowOK
  <2>5. QED BY <1>1, <2>1, <2>2, <2>4 DEF Typed, FlowOK, busVars, workerVars, showVars
<1>10. QED BY <1>6, <1>8, <1>9 DEF Typed

\* A step that moves on only the attempt.
LEMMA AttemptIs ==
  ASSUME Typed, NEW s \in Senders, NEW k \in 0 .. MaxAttempts,
         job' = [job EXCEPT ![s].attempt = k]
  PROVE  /\ job' \in [Senders -> Jobs]
         /\ \A t \in Senders : job'[t].msg = job[t].msg /\ job'[t].chunk = job[t].chunk
BY DEF Typed, FlowOK, Jobs

LEMMA AttemptTyped ==
  ASSUME Typed, NEW s \in Senders, NEW k \in 0 .. MaxAttempts,
         job' = [job EXCEPT ![s].attempt = k],
         UNCHANGED <<busVars, fate, queue, run, made>>, sent' \in [Names -> Seq(Shown)]
  PROVE  DispOK' /\ RunOK' /\ FlowOK'
<1>1. DispOK'  BY DEF Typed, DispOK, busVars
<1>2. RunOK'  BY AttemptIs, TwoKinds DEF Typed, RunOK
<1>3. FlowOK'  BY AttemptIs DEF Typed, FlowOK, busVars
<1>4. QED BY <1>1, <1>2, <1>3

LEMMA TypedSend ==
  ASSUME Typed, NEW s \in Senders, Send(s)
  PROVE  Typed'
<1>0. ASSUME UNCHANGED <<tableVars, shut, adminVars>>, placeholder' \subseteq Names
      PROVE  TablesOK'
  BY <1>0 DEF Typed, TablesOK, tableVars, adminVars
<1>1. CASE LimiterRefuses(s)
  <2>1. /\ Sending(s) /\ AfterChunk(s, FALSE)
        /\ UNCHANGED <<busVars, tableVars, queue, shut, ctxOf, adminVars, showVars, made>>
    BY <1>1 DEF LimiterRefuses, tableVars
  <2>2. sent' \in [Names -> Seq(Shown)] /\ placeholder' \subseteq Names
    BY <2>1 DEF Typed, FlowOK, TablesOK, showVars
  <2>3. DispOK' /\ RunOK' /\ FlowOK'  BY <2>1, <2>2, AfterChunkTyped
  <2>4. QED BY <1>0, <2>1, <2>2, <2>3 DEF Typed
<1>2. CASE PreSend(s)
  <2>1. /\ Sending(s)
        /\ UNCHANGED <<busVars, tableVars, queue, shut, ctxOf, adminVars, made>>
        /\ placeholder' = placeholder \ {ChannelOf[job[s].msg]}
    BY <1>2 DEF PreSend, tableVars
  <2>2. placeholder' \subseteq Names  BY <2>1 DEF Typed, TablesOK
  <2>3. CASE sent' = Shows(s, TRUE) /\ AfterChunk(s, TRUE)
    <3>1. DispOK' /\ RunOK' /\ FlowOK'  BY <2>1, <2>3, ShowsIs, AfterChunkTyped
    <3>2. QED BY <1>0, <2>1, <2>2, <3>1 DEF Typed
  <2>4. CASE /\ job' = [job EXCEPT ![s].attempt = 1] /\ UNCHANGED <<fate, run>>
             /\ MayHaveShown(s) \/ UNCHANGED sent
    <3>0. 1 \in 0 .. MaxAttempts /\ sent' \in [Names -> Seq(Shown)]
      BY <2>1, <2>4, BoundsAre, MayHaveShownTyped
    <3>1. DispOK' /\ RunOK' /\ FlowOK'  BY <2>1, <2>4, <3>0, AttemptTyped
    <3>2. QED BY <1>0, <2>1, <2>2, <3>1 DEF Typed
  <2>5. QED BY <1>2, <2>3, <2>4 DEF PreSend
<1>3. CASE SendOk(s)
  <2>1. /\ Sending(s) /\ AfterChunk(s, TRUE) /\ sent' = Shows(s, TRUE)
        /\ UNCHANGED <<busVars, tableVars, queue, shut, ctxOf, adminVars, placeholder, made>>
    BY <1>3 DEF SendOk, tableVars
  <2>2. placeholder' \subseteq Names  BY <2>1 DEF Typed, TablesOK
  <2>3. DispOK' /\ RunOK' /\ FlowOK'  BY <2>1, ShowsIs, AfterChunkTyped
  <2>4. QED BY <1>0, <2>1, <2>2, <2>3 DEF Typed
<1>4. CASE SendFails(s)
  <2>1. /\ Sending(s) /\ AfterChunk(s, FALSE) /\ MayHaveShown(s)
        /\ UNCHANGED <<busVars, tableVars, queue, shut, ctxOf, adminVars, placeholder, made>>
    BY <1>4 DEF SendFails, tableVars
  <2>2. sent' \in [Names -> Seq(Shown)] /\ placeholder' \subseteq Names
    BY <2>1, MayHaveShownTyped DEF Typed, TablesOK
  <2>3. DispOK' /\ RunOK' /\ FlowOK'  BY <2>1, <2>2, AfterChunkTyped
  <2>4. QED BY <1>0, <2>1, <2>2, <2>3 DEF Typed
<1>5. CASE Retry(s)
  <2>1. /\ Sending(s) /\ job' = [job EXCEPT ![s].attempt = job[s].attempt + 1]
        /\ job[s].attempt \in 1 .. MaxAttempts - 1 /\ MayHaveShown(s)
        /\ UNCHANGED <<busVars, fate, tableVars, workerVars, adminVars, placeholder>>
    BY <1>5 DEF Retry
  <2>2. job[s].attempt + 1 \in 0 .. MaxAttempts  BY <2>1, ChannelAssumption
  <2>3. UNCHANGED <<queue, run, made, shut, placeholder>>
    BY <2>1 DEF tableVars, workerVars
  <2>4. placeholder' \subseteq Names /\ sent' \in [Names -> Seq(Shown)]
    BY <2>1, <2>3, MayHaveShownTyped DEF Typed, TablesOK
  <2>5. DispOK' /\ RunOK' /\ FlowOK'  BY <2>1, <2>2, <2>3, <2>4, AttemptTyped
  <2>6. QED BY <1>0, <2>1, <2>3, <2>4, <2>5 DEF Typed
<1>6. QED BY <1>1, <1>2, <1>3, <1>4, <1>5 DEF Send

\* The tables, the goroutines and the shutdown move no message.
flowVars == <<bus, fate, disp, queue, job, sent>>

LEMMA FlowKept ==
  ASSUME Typed, UNCHANGED flowVars
  PROVE  DispOK' /\ FlowOK'
BY DEF Typed, DispOK, FlowOK, flowVars

LEMMA TypedWorkerExits ==
  ASSUME Typed, NEW s \in WorkerSenders, WorkerExits(s)
  PROVE  Typed' /\ UNCHANGED flowVars
<1>1. UNCHANGED flowVars
  BY DEF WorkerExits, flowVars, busVars, showVars
<1>2. TablesOK'
  BY DEF WorkerExits, Typed, TablesOK, tableVars, adminVars, showVars
<1>3. run[s] = "idle" /\ run' = [run EXCEPT ![s] = "exited"] /\ UNCHANGED <<job, made>>
  BY DEF WorkerExits, tableVars
<1>4. RunOK'  BY <1>3 DEF Typed, RunOK
<1>5. QED BY <1>1, <1>2, <1>4, FlowKept DEF Typed

LEMMA TypedPlaceholders ==
  ASSUME Typed, NEW n \in Names, RecordPlaceholder(n) \/ Janitor(n)
  PROVE  Typed' /\ UNCHANGED flowVars
<1>1. UNCHANGED <<bus, disp, fate, tableVars, workerVars, job, adminVars, sent>>
      /\ placeholder' \subseteq Names
  BY DEF RecordPlaceholder, Janitor, busVars, Typed, TablesOK
<1>2. UNCHANGED flowVars  BY <1>1 DEF flowVars, workerVars
<1>3. TablesOK'  BY <1>1 DEF Typed, TablesOK, tableVars, workerVars, adminVars
<1>4. RunOK'  BY <1>1 DEF Typed, RunOK, tableVars, workerVars
<1>5. QED BY <1>2, <1>3, <1>4, FlowKept DEF Typed

LEMMA TypedReload ==
  ASSUME Typed, NEW c \in Changes, NEW fit \in SUBSET Names, NEW ok \in SUBSET Names,
         Reload(c, fit, ok)
  PROVE  Typed' /\ UNCHANGED flowVars
<1> DEFINE n == Cardinality(c.added)
<1> DEFINE id == CHOOSE f \in [c.added -> made + 1 .. made + n] :
                   \A a, b \in c.added : f[a] = f[b] => a = b
<1> DEFINE now == [x \in Names |-> IF x \in fit THEN id[x] ELSE channels[x]]
<1>1. UNCHANGED <<busVars, fate, job, canceled, lock, stop, showVars>>
      /\ fit \subseteq c.added /\ ok \subseteq c.added /\ made + n <= MaxInstances
      /\ lock = Free /\ c.added \subseteq Names /\ c.removed \subseteq Names
  BY ChannelAssumption DEF Reload
<1>2. made \in Nat /\ MaxInstances \in Nat  BY ChannelAssumption DEF Typed, TablesOK
<1>3. /\ id \in [c.added -> made + 1 .. made + n]
      /\ n \in Nat
  BY <1>2, FreshNumbers
<1>4. CASE crashed' = TRUE /\ UNCHANGED <<tableVars, workerVars, task, cleanups>>
  <2>1. UNCHANGED flowVars  BY <1>1, <1>4 DEF flowVars, busVars, workerVars, showVars
  <2>2. TablesOK' /\ RunOK'
    BY <1>1, <1>4 DEF Typed, TablesOK, RunOK, tableVars, workerVars, showVars
  <2>3. QED BY <2>1, <2>2, FlowKept DEF Typed
<1>5. CASE /\ ~(\E x \in c.added : now[x] = 0)
           /\ up' = (up \ {channels[x] : x \in c.removed}) \cup {now[x] : x \in ok}
           /\ channels' = now
           /\ workers' = [x \in Names |-> IF x \in ok THEN id[x] ELSE workers[x]]
           /\ made' = made + n
           /\ serves' = [i \in Instances |->
                 IF \E x \in ok : id[x] = i
                 THEN now[CHOOSE x \in ok : id[x] = i] ELSE serves[i]]
           /\ run' = [s \in WorkerSenders |->
                 IF \E x \in ok : id[x] = s[1] THEN "idle" ELSE run[s]]
           /\ cleanups' = Append(cleanups,
                [unregister |-> c.removed, register |-> [x \in ok |-> now[x]]])
           /\ UNCHANGED <<queue, shut>>
  <2>1. UNCHANGED flowVars  BY <1>1, <1>5 DEF flowVars, busVars, showVars
  <2>2. \A x \in c.added : id[x] \in Instances /\ id[x] > made /\ id[x] <= made + n
    BY <1>1, <1>2, <1>3 DEF Instances
  <2>3. now \in [Names -> Instances \cup {0}]
    BY <1>1, <2>2 DEF Typed, TablesOK
  <2> HIDE DEF id, n
  <2>4. \A x \in ok : now[x] \in Instances
    <3> HIDE DEF now
    <3>1. QED BY <1>1, <1>5, <2>3
  <2>5. /\ channels' \in [Names -> Instances \cup {0}]
        /\ workers' \in [Names -> Instances \cup {0}]
    BY <1>1, <1>5, <2>2, <2>3 DEF Typed, TablesOK
  <2>6. made' \in 0 .. MaxInstances /\ made' >= made
    BY <1>1, <1>2, <1>3, <1>5
  <2>7. up' \subseteq Instances
    <3> HIDE DEF now
    <3>1. QED BY <1>5, <2>4 DEF Typed, TablesOK
  <2>8. serves' \in [Instances -> Instances]
    <3> HIDE DEF now
    <3>1. QED BY <1>5, <2>4 DEF Typed, TablesOK
  <2>9. cleanups' \in Seq(Cleanups)
    <3>1. [x \in ok |-> now[x]] \in [ok -> Instances]
      <4> HIDE DEF now
      <4>1. QED BY <2>4
    <3> DEFINE e == [unregister |-> c.removed, register |-> [x \in ok |-> now[x]]]
    <3>2. e \in Cleanups  BY <1>1, <3>1 DEF Cleanups
    <3>3. cleanups \in Seq(Cleanups)  BY DEF Typed, TablesOK
    <3>4. cleanups' = Append(cleanups, e)  BY <1>5
    <3> HIDE DEF e
    <3>5. QED BY <3>2, <3>3, <3>4, AppendIs
  <2>10. lock'.by # "unregister"  BY <1>1 DEF Free
  <2>11. TablesOK'
    BY <1>1, <1>5, <2>5, <2>6, <2>7, <2>8, <2>9, <2>10 DEF Typed, TablesOK, showVars
  <2>12. RunOK'
    <3>1. run' \in [WorkerSenders -> {"none", "idle", "sending", "exited"}]
      BY <1>5 DEF Typed, RunOK
    <3>2. ASSUME NEW s \in WorkerSenders
          PROVE  (run'[s] # "sending" => job'[s].msg = 0) /\ (s[1] > made' => run'[s] = "none")
      <4>0. s[1] \in Nat  BY TwoKinds, <1>2 DEF Instances
      <4>1. CASE \E x \in ok : id[x] = s[1]
        <5>1. PICK x \in ok : id[x] = s[1]  BY <4>1
        <5>2. s[1] > made /\ s[1] <= made'  BY <1>1, <1>5, <2>2, <5>1
        <5>3. job[s].msg = 0  BY <5>2 DEF Typed, RunOK
        <5>4. ~(s[1] > made')  BY <4>0, <5>2, <2>6
        <5>5. QED BY <1>1, <5>3, <5>4
      <4>2. CASE ~(\E x \in ok : id[x] = s[1])
        <5>1. run'[s] = run[s]  BY <1>5, <4>2
        <5>2. s[1] > made' => s[1] > made  BY <4>0, <1>2, <2>6
        <5>3. QED BY <1>1, <5>1, <5>2 DEF Typed, RunOK
      <4>3. QED BY <4>1, <4>2
    <3>3. QED BY <3>1, <3>2 DEF RunOK
  <2>13. QED BY <2>1, <2>11, <2>12, FlowKept DEF Typed
<1>6. QED BY <1>4, <1>5 DEF Reload

LEMMA TypedTidy ==
  ASSUME Typed, Tidy
  PROVE  Typed' /\ UNCHANGED flowVars
<1>0. ASSUME UNCHANGED <<run, job, made>> PROVE RunOK'
  BY <1>0 DEF Typed, RunOK
<1>1. ASSUME NEW k \in DOMAIN cleanups, NEW n \in Names, Unregister(k, n)
      PROVE  Typed' /\ UNCHANGED flowVars
  <2> DEFINE e == [cleanups[k] EXCEPT !.unregister = cleanups[k].unregister \ {n}]
  <2>1. UNCHANGED <<bus, disp, fate, made, up, serves, queue, run, job, placeholder, sent>>
    BY <1>1 DEF Unregister, busVars, showVars
  <2>2. cleanups \in Seq(Cleanups) /\ cleanups[k] \in Cleanups  BY DEF Typed, TablesOK
  <2>3. e \in Cleanups  BY <2>2 DEF Cleanups
  <2>4. cleanups' = [cleanups EXCEPT ![k] = e]  BY <1>1 DEF Unregister
  <2> HIDE DEF e
  <2>5. cleanups' \in Seq(Cleanups)  BY <2>2, <2>3, <2>4, ReplaceTyped
  <2>6. workers[n] \in Instances \cup {0}  BY DEF Typed, TablesOK
  <2>7. /\ shut' \subseteq WorkerSenders
        /\ channels' \in [Names -> Instances \cup {0}] /\ workers' = workers
        /\ lock' = lock \/ (lock' = [by |-> "unregister", arg |-> n] /\ workers[n] # 0)
    BY <1>1, <2>6 DEF Unregister, Typed, TablesOK, WorkerSenders, Lanes
  <2>8. TablesOK'
    BY <2>1, <2>5, <2>7 DEF Typed, TablesOK
  <2>9. QED BY <1>0, <2>1, <2>8, FlowKept DEF Typed, flowVars
<1>2. ASSUME NEW k \in DOMAIN cleanups, NEW n \in Names, Register(k, n)
      PROVE  Typed' /\ UNCHANGED flowVars
  <2> DEFINE r == cleanups[k].register
  <2> DEFINE g == [x \in DOMAIN r \ {n} |-> r[x]]
  <2> DEFINE e == [cleanups[k] EXCEPT !.register = g]
  <2>1. UNCHANGED <<bus, disp, fate, workers, made, up, serves, workerVars, job, lock, showVars>>
    BY <1>2 DEF Register, busVars
  <2>2. cleanups \in Seq(Cleanups) /\ cleanups[k] \in Cleanups  BY DEF Typed, TablesOK
  <2>3. PICK N \in SUBSET Names : r \in [N -> Instances]  BY <2>2 DEF Cleanups
  <2>4. g \in [N \ {n} -> Instances] /\ n \in N  BY <1>2, <2>3 DEF Register
  <2>5. e \in Cleanups
    <3> HIDE DEF g
    <3>1. QED BY <2>2, <2>4 DEF Cleanups
  <2>6. cleanups' = [cleanups EXCEPT ![k] = e]  BY <1>2 DEF Register
  <2>7. channels' = [channels EXCEPT ![n] = r[n]] /\ r[n] \in Instances
    BY <1>2, <2>3, <2>4 DEF Register
  <2> HIDE DEF e
  <2>8. cleanups' \in Seq(Cleanups)  BY <2>2, <2>5, <2>6, ReplaceTyped
  <2>9. TablesOK'
    BY <2>1, <2>7, <2>8 DEF Typed, TablesOK, workerVars, showVars
  <2>10. QED BY <1>0, <2>1, <2>9, FlowKept DEF Typed, flowVars, workerVars, showVars
<1>3. CASE UnregisterMedia
  <2>1. UNCHANGED <<bus, disp, fate, tableVars, queue, run, job, adminVars, showVars>>
        /\ shut' = shut \cup {<<workers[lock.arg], "media">>} /\ lock.by = "unregister"
    BY <1>3 DEF UnregisterMedia, busVars
  <2>2. workers[lock.arg] \in Instances  BY <2>1 DEF Typed, TablesOK
  <2>3. shut' \subseteq WorkerSenders
    BY <2>1, <2>2 DEF Typed, TablesOK, WorkerSenders, Lanes
  <2>4. TablesOK'
    BY <2>1, <2>3 DEF Typed, TablesOK, tableVars, adminVars, showVars
  <2>5. QED BY <1>0, <2>1, <2>4, FlowKept DEF Typed, flowVars, tableVars, showVars
<1>4. CASE UnregisterEnds
  <2>1. UNCHANGED <<bus, disp, fate, made, up, serves, workerVars, job, cleanups, showVars>>
        /\ workers' = [workers EXCEPT ![lock.arg] = 0]
        /\ channels' = [channels EXCEPT ![lock.arg] = 0]
        /\ lock' = Free
    BY <1>4 DEF UnregisterEnds, busVars
  <2>2. TablesOK'
    BY <2>1 DEF Typed, TablesOK, workerVars, showVars, Free
  <2>3. QED BY <1>0, <2>1, <2>2, FlowKept DEF Typed, flowVars, workerVars, showVars
<1>5. QED BY <1>1, <1>2, <1>3, <1>4 DEF Tidy

LEMMA TypedStopAll ==
  ASSUME Typed, StopAll
  PROVE  Typed' /\ UNCHANGED flowVars
<1>1. UNCHANGED <<bus, disp, fate, channels, workers, made, serves, queue, run, job, cleanups,
                  placeholder, sent>>
  BY DEF StopAll, StopCancel, StopClose, StopChannels, busVars, tableVars, workerVars,
         adminVars, showVars
<1>2. UNCHANGED flowVars  BY <1>1 DEF flowVars
<1>3. RunOK'  BY <1>1 DEF Typed, RunOK
<1>4. lock'.by = "unregister" => lock' = lock
  BY DEF StopAll, StopCancel, StopClose, StopChannels, Free
<1>5. up' \subseteq Instances
  BY DEF StopAll, StopCancel, StopClose, StopChannels, tableVars, Typed, TablesOK
<1>6. Current \subseteq Instances
  BY DEF Current, Typed, TablesOK
<1>7. shut' \subseteq WorkerSenders
  <2>1. CASE UNCHANGED shut  BY <2>1 DEF Typed, TablesOK
  <2>2. ASSUME NEW l \in Lanes, shut' = shut \cup {<<w, l>> : w \in Current}
        PROVE  shut' \subseteq WorkerSenders
    BY <1>6, <2>2 DEF Typed, TablesOK, WorkerSenders
  <2>3. QED
    BY <2>1, <2>2 DEF StopAll, StopCancel, StopClose, StopChannels, workerVars, Lanes
<1>8. TablesOK'
  BY <1>1, <1>4, <1>5, <1>7 DEF Typed, TablesOK
<1>9. QED BY <1>2, <1>3, <1>8, FlowKept DEF Typed

LEMMA TypedNext == Typed /\ [Next]_vars => Typed'
<1>1. ASSUME Typed, UNCHANGED vars PROVE Typed'
  <2>1. UNCHANGED <<flowVars, tableVars, shut, run, adminVars, placeholder>>
    BY <1>1 DEF vars, flowVars, busVars, workerVars, showVars
  <2>2. TablesOK' /\ RunOK'
    BY <1>1, <2>1 DEF Typed, TablesOK, RunOK, tableVars, adminVars, flowVars
  <2>3. QED BY <1>1, <2>1, <2>2, FlowKept DEF Typed
<1>2. ASSUME Typed, Next PROVE Typed'
  <2>1. ASSUME NEW s \in WorkerSenders, Work(s) PROVE Typed'
    BY <1>2, <2>1, TypedTake, TypedWorkerExits DEF Work
  <2>2. ASSUME NEW l \in Lanes, Route(l) PROVE Typed'
    BY <1>2, <2>2, TypedDispatch, TypedEnqueue, TypedDispatcherStops DEF Route
  <2>3. QED
    BY <1>2, <2>1, <2>2, TypedPublish, TypedSendMessage, TypedSend, TypedPlaceholders,
       TypedReload, TypedTidy, TypedStopAll DEF Next
<1>3. QED BY <1>1, <1>2

LEMMA TypedCorrect == Spec => []Typed
<1>1. QED BY TypedInit, TypedNext, PTL DEF Spec

\* Types, numbers of instances and the capacities of bus and queues are kept.
THEOREM TypeCorrect == Spec => []TypeOK
<1>1. Typed => TypeOK
  BY DEF Typed, DispOK, Dispatchers, TablesOK, RunOK, FlowOK, TypeOK
<1>2. QED BY <1>1, TypedCorrect, PTL

----------------------------------------------------------------------------
\* Where a step moves a message

LEMMA EntriesTyped ==
  ASSUME Typed, NEW n \in Names, NEW x \in Entries(n)
  PROVE  x \in Shown /\ x.msg \in Msgs /\ x.by \in Senders /\ x.chunk \in Nat
<1>1. sent[n] \in Seq(Shown)  BY DEF Typed, FlowOK
<1>2. x \in Shown  BY <1>1 DEF Entries
<1>3. QED BY <1>2 DEF Shown

\* A step that shows nothing keeps what is said of the chats, if it keeps what is
\* said of each entry.
LEMMA ShownKept ==
  ASSUME Typed, IInv, sent' = sent,
         \A n \in Names, x \in Shown : ShownOK(x, n) => ShownOK(x, n)'
  PROVE  ShownBefore' /\ ShownInOrder'
<1>1. ShownInOrder'
  BY DEF IInv, ShownInOrder, Before, SameChunk
<1>2. ShownBefore'
  <2>1. \A n \in Names : Entries(n)' = Entries(n)  BY DEF Entries
  <2>2. QED BY <2>1, EntriesTyped DEF IInv, ShownBefore
<1>3. QED BY <1>1, <1>2

\* A step that leaves every message where it is, in the same order.
LEMMA InvSame ==
  ASSUME Typed, IInv, UNCHANGED <<bus, queue, sent, fate>>,
         \A l \in Lanes : disp'[l].msg = disp[l].msg,
         \A s \in Senders : job'[s].msg = job[s].msg /\ job'[s].chunk = job[s].chunk
  PROVE  IInv'
<1>1. /\ \A m : \A l \in Lanes : (InBus(m, l)' <=> InBus(m, l)) /\ (InDisp(m, l)' <=> InDisp(m, l))
      /\ \A m : \A s \in WorkerSenders : InQueue(m, s)' <=> InQueue(m, s)
      /\ \A m : \A s \in Senders : InJob(m, s)' <=> InJob(m, s)
  BY DEF InBus, InDisp, InQueue, InJob
<1>2. /\ \A s \in WorkerSenders : s \in Senders /\ s[2] \in Lanes
      /\ \A m \in Msgs : Live(m)' <=> Live(m)
  BY TwoKinds DEF Live
<1>3. Increasing'  BY DEF IInv, Increasing
<1>4. OnLane'  BY <1>1, <1>2 DEF IInv, OnLane
<1>5. InLine'  BY <1>1, <1>2 DEF IInv, InLine
<1>6. NewLast'  BY DEF IInv, NewLast
<1>7. Apart'  BY <1>1, <1>2 DEF IInv, Apart
<1>8. OnItsWay'
  <2>1. \A m \in Msgs : Somewhere(m)' <=> Somewhere(m)  BY <1>1 DEF Somewhere
  <2>2. QED BY <2>1, <1>2 DEF IInv, OnItsWay
<1>9. ShownBefore' /\ ShownInOrder'
  <2>1. ASSUME NEW n \in Names, NEW x \in Shown, ShownOK(x, n) PROVE ShownOK(x, n)'
    <3>1. x.msg \in Msgs /\ x.by \in Senders  BY DEF Shown
    <3>2. QED BY <1>1, <1>2, <2>1, <3>1 DEF ShownOK
  <2>2. QED BY <2>1, ShownKept
<1>10. AllShownSoFar'
  BY <1>1, <1>2 DEF IInv, AllShownSoFar, ChunkShown, Entries
<1>11. QED BY <1>3, <1>4, <1>5, <1>6, <1>7, <1>8, <1>9, <1>10 DEF IInv

\* What a new message meets: nothing of it is anywhere, and all on their way along
\* its lane are older.
LEMMA NewIsNowhere ==
  ASSUME Typed, IInv, NEW m \in Msgs, fate[m] = "new"
  PROVE  /\ ~Somewhere(m)
         /\ \A l \in Lanes : ~InBus(m, l) /\ ~InDisp(m, l)
         /\ \A s \in WorkerSenders : ~InQueue(m, s)
         /\ \A s \in Senders : ~InJob(m, s)
BY DEF IInv, OnItsWay, Live, Somewhere

LEMMA NewIsLast ==
  ASSUME Typed, IInv, NEW m \in Msgs \ Direct, fate[m] = "new",
         NEW k \in Msgs \ Direct, fate[k] # "new"
  PROVE  k < m
<1>1. ~(m < k)  BY DEF IInv, NewLast
<1>2. k # m  OBVIOUS
<1>3. QED BY <1>1, <1>2, MsgsAre

----------------------------------------------------------------------------
\* The invariant is kept

LEMMA LaneIs == \A m \in Msgs : Lane(m) \in Lanes
BY DEF Lane, Lanes

LEMMA InvPublish ==
  ASSUME Typed, IInv, NEW m \in Msgs, Publish(m)
  PROVE  IInv'
<1> DEFINE l == Lane(m)
<1>0. fate[m] = "new" /\ m \notin Direct /\ UNCHANGED <<disp, queue, job, sent>>
      /\ l \in Lanes
  BY LaneIs DEF Publish, workerVars, showVars
<1>1. /\ ~Somewhere(m)
      /\ \A k \in Lanes : ~InBus(m, k) /\ ~InDisp(m, k)
      /\ \A s \in WorkerSenders : ~InQueue(m, s)
      /\ \A s \in Senders : ~InJob(m, s)
  BY <1>0, NewIsNowhere
<1>2. \A k \in Msgs \ Direct : fate[k] # "new" => k < m
  BY <1>0, NewIsLast
<1>3. /\ \A k : \A d \in Lanes : InDisp(k, d)' <=> InDisp(k, d)
      /\ \A k : \A s \in WorkerSenders : InQueue(k, s)' <=> InQueue(k, s)
      /\ \A k : \A s \in Senders : InJob(k, s)' <=> InJob(k, s)
  BY <1>0 DEF InDisp, InQueue, InJob
<1>4. /\ \A s \in WorkerSenders : s \in Senders /\ s[2] \in Lanes
  BY TwoKinds
<1>5. NewLast'
  <2>1. \A k \in Msgs \ Direct : k < m => fate[k] # "new"  BY DEF Publish
  <2>2. fate' = [fate EXCEPT ![m] = "accepted"] \/ fate' = [fate EXCEPT ![m] = "refused"]
    BY DEF Publish
  <2>3. \A k \in Msgs : k # m => fate'[k] = fate[k]  BY <2>2 DEF Typed, FlowOK
  <2>4. fate'[m] # "new"  BY <2>2 DEF Typed, FlowOK
  <2>5. QED BY <2>1, <2>3, <2>4 DEF IInv, NewLast
<1>6. CASE /\ bus' = [bus EXCEPT ![l] = Append(@, m)]
           /\ fate' = [fate EXCEPT ![m] = "accepted"]
  <2> DEFINE more == Append(bus[l], m)
  <2>1. bus[l] \in Seq(Msgs) /\ bus \in [Lanes -> Seq(Msgs)] /\ fate \in [Msgs -> Fates]
    BY <1>0 DEF Typed, FlowOK
  <2>2. /\ DOMAIN more = DOMAIN bus[l] \cup {Len(bus[l]) + 1}
        /\ DOMAIN bus[l] = 1 .. Len(bus[l]) /\ Len(bus[l]) \in Nat
        /\ \A i \in DOMAIN bus[l] : more[i] = bus[l][i]
        /\ more[Len(bus[l]) + 1] = m
    BY <2>1, AppendIs
  <2>3. bus'[l] = more /\ \A d \in Lanes : d # l => bus'[d] = bus[d]
    BY <1>0, <1>6, <2>1
  <2> HIDE DEF more, l
  <2>4. \A k : \A d \in Lanes : InBus(k, d)' <=> InBus(k, d) \/ (d = l /\ k = m)
    BY <2>2, <2>3 DEF InBus
  <2>5. fate'[m] = "accepted" /\ \A k \in Msgs : k # m => fate'[k] = fate[k]
    BY <1>6, <2>1
  <2>6. \A k \in Msgs : Somewhere(k) => fate[k] # "new"
    BY DEF IInv, OnItsWay, Live
  <2>7. /\ \A k \in Msgs : \A d \in Lanes : InBus(k, d) \/ InDisp(k, d) => k < m
        /\ \A k \in Msgs : \A s \in WorkerSenders : InQueue(k, s) \/ InJob(k, s) => k < m
    BY <1>2, <1>4, <2>6 DEF Somewhere, IInv, OnLane
  <2>8. Increasing'
    <3>1. \A i \in DOMAIN bus[l] : bus[l][i] \in Msgs /\ bus[l][i] < m
      BY <1>0, <2>1, <2>7 DEF InBus, l
    <3>2. \A i, j \in DOMAIN bus'[l] : i < j => bus'[l][i] < bus'[l][j]
      BY <1>0, <2>2, <2>3, <3>1 DEF IInv, Increasing, l
    <3>3. QED BY <1>0, <2>3, <3>2 DEF IInv, Increasing
  <2>9. OnLane'  BY <1>0, <1>3, <1>4, <2>4 DEF IInv, OnLane, l
  <2>10. InLine'  BY <1>1, <1>3, <1>4, <2>4, <2>7 DEF IInv, InLine
  <2>11. Apart'  BY <1>3, <1>4 DEF IInv, Apart
  <2>12. OnItsWay'
    <3>1. \A k \in Msgs : k # m => (Somewhere(k)' <=> Somewhere(k))
      BY <1>3, <2>4 DEF Somewhere
    <3>2. Somewhere(m)'  BY <1>0, <2>4 DEF Somewhere, l
    <3>3. QED BY <2>5, <3>1, <3>2 DEF IInv, OnItsWay, Live
  <2>13. ShownBefore' /\ ShownInOrder'
    <3>1. ASSUME NEW n \in Names, NEW x \in Shown, ShownOK(x, n) PROVE ShownOK(x, n)'
      <4>1. x.msg \in Msgs /\ x.by \in Senders  BY DEF Shown
      <4>2. x.msg # m  BY <1>0, <3>1 DEF ShownOK
      <4>3. x.by \in WorkerSenders => x.msg < m
        BY <1>2, <3>1, <4>1 DEF ShownOK
      <4>4. Live(x.msg)' <=> Live(x.msg)  BY <2>5, <4>1, <4>2 DEF Live
      <4>5. QED BY <1>0, <1>3, <1>4, <2>4, <2>5, <3>1, <4>1, <4>2, <4>3, <4>4 DEF ShownOK
    <3>2. QED BY <1>0, <3>1, ShownKept
  <2>14. AllShownSoFar'
    <3>1. \A c : \A k \in Msgs : ChunkShown(k, c)' <=> ChunkShown(k, c)
      BY <1>0 DEF ChunkShown, Entries
    <3>2. QED BY <1>0, <1>1, <1>3, <2>5, <3>1 DEF IInv, AllShownSoFar
  <2>15. QED BY <1>5, <2>8, <2>9, <2>10, <2>11, <2>12, <2>13, <2>14 DEF IInv
<1>7. CASE fate' = [fate EXCEPT ![m] = "refused"] /\ UNCHANGED bus
  <2>1. fate'[m] = "refused" /\ \A k \in Msgs : k # m => fate'[k] = fate[k]
    BY <1>7 DEF Typed, FlowOK
  <2>2. \A k : \A d \in Lanes : InBus(k, d)' <=> InBus(k, d)  BY <1>7 DEF InBus
  <2>3. Increasing'  BY <1>0, <1>7 DEF IInv, Increasing
  <2>4. OnLane'  BY <1>3, <1>4, <2>2 DEF IInv, OnLane
  <2>5. InLine'  BY <1>3, <1>4, <2>2 DEF IInv, InLine
  <2>6. Apart'  BY <1>3, <1>4 DEF IInv, Apart
  <2>7. OnItsWay'
    <3>1. \A k \in Msgs : Somewhere(k)' <=> Somewhere(k)  BY <1>3, <2>2 DEF Somewhere
    <3>2. QED BY <1>1, <2>1, <3>1 DEF IInv, OnItsWay, Live
  <2>8. ShownBefore' /\ ShownInOrder'
    <3>1. ASSUME NEW n \in Names, NEW x \in Shown, ShownOK(x, n) PROVE ShownOK(x, n)'
      <4>1. x.msg \in Msgs /\ x.by \in Senders  BY DEF Shown
      <4>2. x.msg # m  BY <1>0, <3>1 DEF ShownOK
      <4>3. Live(x.msg)' <=> Live(x.msg)  BY <2>1, <4>1, <4>2 DEF Live
      <4>4. QED BY <1>0, <1>3, <1>4, <2>1, <2>2, <3>1, <4>1, <4>2, <4>3 DEF ShownOK
    <3>2. QED BY <1>0, <3>1, ShownKept
  <2>9. AllShownSoFar'
    <3>1. \A c : \A k \in Msgs : ChunkShown(k, c)' <=> ChunkShown(k, c)
      BY <1>0 DEF ChunkShown, Entries
    <3>2. QED BY <1>0, <1>3, <2>1, <3>1 DEF IInv, AllShownSoFar
  <2>10. QED BY <1>5, <2>3, <2>4, <2>5, <2>6, <2>7, <2>8, <2>9 DEF IInv
<1>8. QED BY <1>6, <1>7 DEF Publish

LEMMA InvDispatch ==
  ASSUME Typed, IInv, NEW l \in Lanes, Dispatch(l)
  PROVE  IInv'
<1>m. PICK m : m = Head(bus[l])  OBVIOUS
<1>0. /\ disp[l].at = "recv" /\ bus[l] # <<>> /\ bus' = [bus EXCEPT ![l] = Tail(@)]
      /\ UNCHANGED <<queue, job, sent>>
  BY DEF Dispatch, workerVars, showVars
<1>1. bus[l] \in Seq(Msgs) /\ bus \in [Lanes -> Seq(Msgs)] /\ fate \in [Msgs -> Fates]
  BY DEF Typed, FlowOK
<1>2. /\ m \in Msgs /\ Len(bus[l]) \in Nat /\ Len(bus[l]) > 0
      /\ m = bus[l][1] /\ DOMAIN bus[l] = 1 .. Len(bus[l])
      /\ DOMAIN Tail(bus[l]) = 1 .. Len(bus[l]) - 1
      /\ \A i \in DOMAIN Tail(bus[l]) : Tail(bus[l])[i] = bus[l][i + 1]
  BY <1>m, <1>0, <1>1, TailIs
<1>3. \/ fate' = fate /\ disp' = [disp EXCEPT ![l] =
                           [at |-> "enqueue", msg |-> m, worker |-> workers[ChannelOf[m]]]]
      \/ fate' = [fate EXCEPT ![m] = "dropped"] /\ disp' = disp
  BY <1>m DEF Dispatch
<1>4. bus'[l] = Tail(bus[l]) /\ \A d \in Lanes : d # l => bus'[d] = bus[d]
  BY <1>0, <1>1
<1>5. \A i \in DOMAIN bus[l] : i # 1 => m < bus[l][i]
  BY <1>2 DEF IInv, Increasing
<1>6. /\ InBus(m, l)
      /\ \A k : \A d \in Lanes : InBus(k, d)' => InBus(k, d)
      /\ \A k \in Msgs : InBus(k, l)' <=> InBus(k, l) /\ k # m
      /\ \A k \in Msgs : InBus(k, l)' => m < k
      /\ \A k : \A d \in Lanes : d # l => (InBus(k, d)' <=> InBus(k, d))
  <2>1. InBus(m, l)  BY <1>2 DEF InBus
  <2>2. ASSUME NEW k, InBus(k, l)' PROVE InBus(k, l) /\ m < k
    <3>1. PICK i \in 1 .. Len(bus[l]) - 1 : bus[l][i + 1] = k
      BY <1>2, <1>4, <2>2 DEF InBus
    <3>2. i + 1 \in DOMAIN bus[l] /\ i + 1 # 1  BY <1>2, <3>1
    <3>3. QED BY <1>5, <3>1, <3>2 DEF InBus
  <2>3. ASSUME NEW k, InBus(k, l), k # m PROVE InBus(k, l)'
    <3>1. PICK i \in DOMAIN bus[l] : bus[l][i] = k  BY <2>3 DEF InBus
    <3>2. i - 1 \in DOMAIN Tail(bus[l]) /\ (i - 1) + 1 = i  BY <1>2, <2>3, <3>1
    <3>3. Tail(bus[l])[i - 1] = k  BY <1>2, <3>1, <3>2
    <3>4. QED BY <1>4, <3>2, <3>3 DEF InBus
  <2>4. \A k : \A d \in Lanes : d # l => (InBus(k, d)' <=> InBus(k, d))
    BY <1>4 DEF InBus
  <2>5. QED BY <1>2, <2>1, <2>2, <2>3, <2>4, MsgsAre
<1>7. /\ \A k : \A s \in WorkerSenders : InQueue(k, s)' <=> InQueue(k, s)
      /\ \A k : \A s \in Senders : InJob(k, s)' <=> InJob(k, s)
  BY <1>0 DEF InQueue, InJob
<1>8. /\ \A s \in WorkerSenders : s \in Senders /\ s[2] \in Lanes
      /\ \A s \in Senders : s \notin WorkerSenders => \E k \in Direct : s = <<k, "direct">>
  BY TwoKinds
<1>9. \A k \in Msgs : ~InDisp(k, l)
  BY <1>0, MsgsAre DEF InDisp, Typed, DispOK
<1>10. /\ l = Lane(m) /\ m \notin Direct /\ ~(m < m)
       /\ \A d \in Lanes : ~InDisp(m, d) /\ (d # l => ~InBus(m, d))
       /\ \A s \in WorkerSenders : ~InQueue(m, s)
       /\ \A s \in Senders : ~InJob(m, s)
  <2>1. l = Lane(m) /\ m \notin Direct  BY <1>2, <1>6 DEF IInv, OnLane
  <2>2. ~(m < m)  BY <1>2, MsgsAre
  <2>3. \A d \in Lanes : ~InDisp(m, d) /\ (d # l => ~InBus(m, d))
    BY <1>2, <1>9, <2>1 DEF IInv, OnLane
  <2>4. \A s \in WorkerSenders : ~InQueue(m, s) /\ ~InJob(m, s)
    BY <1>2, <1>6, <2>1, <2>2 DEF IInv, OnLane, InLine
  <2>5. \A s \in Senders : s \notin WorkerSenders => ~InJob(m, s)
    BY <1>2, <1>8, <2>1 DEF IInv, OnLane
  <2>6. QED BY <2>1, <2>2, <2>3, <2>4, <2>5
<1>11. Increasing'
  <2>1. \A i, j \in DOMAIN bus'[l] : i < j => bus'[l][i] < bus'[l][j]
    <3>1. SUFFICES ASSUME NEW i \in DOMAIN Tail(bus[l]), NEW j \in DOMAIN Tail(bus[l]), i < j
                   PROVE  Tail(bus[l])[i] < Tail(bus[l])[j]
      BY <1>4
    <3>2. i + 1 \in DOMAIN bus[l] /\ j + 1 \in DOMAIN bus[l] /\ i + 1 < j + 1
      BY <1>2, <3>1
    <3>3. QED BY <1>2, <3>2 DEF IInv, Increasing
  <2>2. QED BY <1>0, <1>4, <2>1 DEF IInv, Increasing
<1>12. Apart'  BY <1>7, <1>8 DEF IInv, Apart
<1>13. \A c : \A k \in Msgs : ChunkShown(k, c)' <=> ChunkShown(k, c)
  BY <1>0 DEF ChunkShown, Entries
<1>14. CASE fate' = fate /\ disp' = [disp EXCEPT ![l] =
                 [at |-> "enqueue", msg |-> m, worker |-> workers[ChannelOf[m]]]]
  <2>1. \A k : InDisp(k, l)' <=> k = m
    BY <1>14 DEF InDisp, Typed, DispOK
  <2>2. \A k : \A d \in Lanes : d # l => (InDisp(k, d)' <=> InDisp(k, d))
    BY <1>14 DEF InDisp, Typed, DispOK
  <2>3. OnLane'  BY <1>2, <1>6, <1>7, <1>8, <1>10, <2>1, <2>2 DEF IInv, OnLane
  <2>4. InLine'
    <3>1. \A k, j \in Msgs : \A d \in Lanes : InDisp(k, d)' /\ InBus(j, d)' => k < j
      BY <1>6, <2>1, <2>2 DEF IInv, InLine
    <3>2. \A k, j \in Msgs : \A s \in WorkerSenders :
             InQueue(k, s)' /\ (InDisp(j, s[2])' \/ InBus(j, s[2])') => k < j
      BY <1>2, <1>6, <1>7, <1>8, <2>1, <2>2 DEF IInv, InLine
    <3>3. \A k, j \in Msgs : \A s \in WorkerSenders :
             InJob(k, s)' /\ (InQueue(j, s)' \/ InDisp(j, s[2])' \/ InBus(j, s[2])') => k < j
      BY <1>2, <1>6, <1>7, <1>8, <2>1, <2>2 DEF IInv, InLine
    <3>4. QED BY <3>1, <3>2, <3>3 DEF InLine
  <2>5. NewLast'  BY <1>14 DEF IInv, NewLast
  <2>6. OnItsWay'
    <3>1. \A k \in Msgs : k # m => (Somewhere(k)' <=> Somewhere(k))
      BY <1>6, <1>7, <1>9, <2>1, <2>2 DEF Somewhere
    <3>2. Somewhere(m) /\ Somewhere(m)'  BY <1>6, <2>1, l \in Lanes DEF Somewhere
    <3>3. QED BY <1>2, <1>14, <3>1, <3>2 DEF IInv, OnItsWay, Live
  <2>7. ShownBefore' /\ ShownInOrder'
    <3>1. ASSUME NEW n \in Names, NEW x \in Shown, ShownOK(x, n) PROVE ShownOK(x, n)'
      <4>1. x.msg \in Msgs /\ x.by \in Senders  BY DEF Shown
      <4>2. Live(x.msg)' <=> Live(x.msg)  BY <1>14 DEF Live
      <4>3. ASSUME x.by \in WorkerSenders
            PROVE  \A k \in Msgs :
                     /\ InJob(k, x.by)' => x.msg <= k
                     /\ InQueue(k, x.by)' \/ InDisp(k, x.by[2])' \/ InBus(k, x.by[2])'
                          => x.msg < k
        BY <1>2, <1>6, <1>7, <1>8, <2>1, <2>2, <3>1, <4>1, <4>3 DEF ShownOK
      <4>4. QED BY <1>0, <1>7, <1>14, <3>1, <4>1, <4>2, <4>3 DEF ShownOK
    <3>2. QED BY <1>0, <3>1, ShownKept
  <2>8. AllShownSoFar'
    BY <1>0, <1>7, <1>13, <1>14 DEF IInv, AllShownSoFar
  <2>9. QED BY <1>11, <1>12, <2>3, <2>4, <2>5, <2>6, <2>7, <2>8 DEF IInv
<1>15. CASE fate' = [fate EXCEPT ![m] = "dropped"] /\ disp' = disp
  <2>1. fate'[m] = "dropped" /\ \A k \in Msgs : k # m => fate'[k] = fate[k]
    BY <1>1, <1>2, <1>15
  <2>2. \A k : \A d \in Lanes : InDisp(k, d)' <=> InDisp(k, d)  BY <1>15 DEF InDisp
  <2>3. OnLane'  BY <1>6, <1>7, <1>8, <2>2 DEF IInv, OnLane
  <2>4. InLine'  BY <1>6, <1>7, <1>8, <2>2 DEF IInv, InLine
  <2>5. fate[m] # "new"
    BY <1>2, <1>6 DEF IInv, OnItsWay, Somewhere, Live
  <2>6. NewLast'
    BY <2>1, <2>5 DEF IInv, NewLast
  <2>7. OnItsWay'
    <3>1. \A k \in Msgs : k # m => (Somewhere(k)' <=> Somewhere(k))
      BY <1>6, <1>7, <2>2 DEF Somewhere
    <3>2. ~Somewhere(m)'
      BY <1>2, <1>6, <1>7, <1>10, <2>2 DEF Somewhere
    <3>3. QED BY <2>1, <3>1, <3>2 DEF IInv, OnItsWay, Live
  <2>8. ShownBefore' /\ ShownInOrder'
    <3>1. ASSUME NEW n \in Names, NEW x \in Shown, ShownOK(x, n) PROVE ShownOK(x, n)'
      <4>1. x.msg \in Msgs /\ x.by \in Senders  BY DEF Shown
      <4>2. Live(m)
        BY <1>2, <1>6 DEF IInv, OnItsWay, Somewhere
      <4>3. x.msg # m
        BY <1>10, <3>1, <4>1, <4>2 DEF ShownOK
      <4>4. Live(x.msg)' <=> Live(x.msg)  BY <2>1, <4>1, <4>3 DEF Live
      <4>5. QED BY <1>0, <1>6, <1>7, <1>8, <2>1, <2>2, <3>1, <4>1, <4>3, <4>4 DEF ShownOK
    <3>2. QED BY <1>0, <3>1, ShownKept
  <2>9. AllShownSoFar'
    BY <1>0, <1>7, <1>13, <2>1 DEF IInv, AllShownSoFar
  <2>10. QED BY <1>11, <1>12, <2>3, <2>4, <2>6, <2>7, <2>8, <2>9 DEF IInv
<1>16. QED BY <1>3, <1>14, <1>15

LEMMA InvEnqueue ==
  ASSUME Typed, IInv, NEW l \in Lanes, Enqueue(l)
  PROVE  IInv'
<1>m. PICK m : m = disp[l].msg  OBVIOUS
<1>s. PICK s : s = <<disp[l].worker, l>>  OBVIOUS
<1>0. UNCHANGED <<bus, fate, job, sent>>  BY DEF Enqueue, showVars
<1>1. /\ m \in Msgs /\ s \in WorkerSenders /\ s[2] = l
      /\ queue[s] \in Seq(Msgs) /\ queue \in [WorkerSenders -> Seq(Msgs)]
      /\ disp \in [Lanes -> Dispatchers]
  BY <1>m, <1>s DEF Enqueue, Typed, FlowOK, DispOK, Dispatchers, WorkerSenders
<1>2. CASE UNCHANGED <<queue, disp>>
  BY <1>0, <1>2, InvSame
<1>3. CASE queue' = [queue EXCEPT ![s] = Append(@, m)] /\ disp' = [disp EXCEPT ![l] = Idle]
  <2>1. /\ DOMAIN queue'[s] = DOMAIN queue[s] \cup {Len(queue[s]) + 1}
        /\ DOMAIN queue[s] = 1 .. Len(queue[s]) /\ Len(queue[s]) \in Nat
        /\ \A i \in DOMAIN queue[s] : queue'[s][i] = queue[s][i]
        /\ queue'[s][Len(queue[s]) + 1] = m
        /\ \A t \in WorkerSenders : t # s => queue'[t] = queue[t]
    BY <1>1, <1>3, AppendIs
  <2>2. /\ \A k : \A t \in WorkerSenders : InQueue(k, t)' <=> InQueue(k, t) \/ (t = s /\ k = m)
        /\ \A k : \A d \in Lanes : InBus(k, d)' <=> InBus(k, d)
        /\ \A k : \A t \in Senders : InJob(k, t)' <=> InJob(k, t)
    BY <1>0, <2>1 DEF InQueue, InBus, InJob
  <2>3. /\ InDisp(m, l)
        /\ \A k \in Msgs : \A d \in Lanes : InDisp(k, d)' <=> InDisp(k, d) /\ d # l
        /\ \A k \in Msgs : InDisp(k, l) => k = m
    BY <1>m, <1>1, <1>3, MsgsAre DEF InDisp, Idle
  <2>4. /\ \A t \in WorkerSenders : t \in Senders /\ t[2] \in Lanes
        /\ \A t \in Senders : t \notin WorkerSenders => \E k \in Direct : t = <<k, "direct">>
    BY TwoKinds
  <2>5. l = Lane(m) /\ m \notin Direct /\ ~(m < m)
    BY <1>1, <2>3, MsgsAre DEF IInv, OnLane
  <2>6. /\ \A t \in WorkerSenders : ~InQueue(m, t)
        /\ \A t \in Senders : ~InJob(m, t)
    <3>1. \A t \in WorkerSenders : ~InQueue(m, t) /\ ~InJob(m, t)
      BY <1>1, <2>3, <2>4, <2>5 DEF IInv, OnLane, InLine
    <3>2. \A t \in Senders : t \notin WorkerSenders => ~InJob(m, t)
      BY <1>1, <2>4, <2>5 DEF IInv, OnLane
    <3>3. QED BY <3>1, <3>2
  <2>7. /\ \A k \in Msgs : InQueue(k, s) \/ InJob(k, s) => k < m
        /\ \A k \in Msgs : InBus(k, l) => m < k
    BY <1>1, <2>3 DEF IInv, InLine
  <2>8. Increasing'
    <3>1. \A i \in DOMAIN queue[s] : queue[s][i] \in Msgs /\ queue[s][i] < m
      BY <1>1, <2>1, <2>7 DEF InQueue
    <3>2. \A i, j \in DOMAIN queue'[s] : i < j => queue'[s][i] < queue'[s][j]
      BY <1>1, <2>1, <3>1 DEF IInv, Increasing
    <3>3. QED BY <1>0, <2>1, <3>2 DEF IInv, Increasing
  <2>9. OnLane'  BY <1>1, <2>2, <2>3, <2>4, <2>5 DEF IInv, OnLane
  <2>10. InLine'
    <3>1. \A k, j \in Msgs : \A d \in Lanes : InDisp(k, d)' /\ InBus(j, d)' => k < j
      BY <2>2, <2>3 DEF IInv, InLine
    <3>2. \A k, j \in Msgs : \A t \in WorkerSenders :
             InQueue(k, t)' /\ (InDisp(j, t[2])' \/ InBus(j, t[2])') => k < j
      BY <1>1, <2>2, <2>3, <2>4, <2>7 DEF IInv, InLine
    <3>3. \A k, j \in Msgs : \A t \in WorkerSenders :
             InJob(k, t)' /\ (InQueue(j, t)' \/ InDisp(j, t[2])' \/ InBus(j, t[2])') => k < j
      BY <1>1, <2>2, <2>3, <2>4, <2>7 DEF IInv, InLine
    <3>4. QED BY <3>1, <3>2, <3>3 DEF InLine
  <2>11. NewLast'  BY <1>0 DEF IInv, NewLast
  <2>12. Apart'  BY <1>1, <2>2, <2>4, <2>6 DEF IInv, Apart
  <2>13. OnItsWay'
    <3>1. \A k \in Msgs : k # m => (Somewhere(k)' <=> Somewhere(k))
      BY <2>2, <2>3 DEF Somewhere
    <3>2. Somewhere(m) /\ Somewhere(m)'  BY <1>1, <2>2, <2>3, l \in Lanes DEF Somewhere
    <3>3. QED BY <1>0, <3>1, <3>2 DEF IInv, OnItsWay, Live
  <2>14. ShownBefore' /\ ShownInOrder'
    <3>1. ASSUME NEW n \in Names, NEW x \in Shown, ShownOK(x, n) PROVE ShownOK(x, n)'
      <4>1. x.msg \in Msgs /\ x.by \in Senders  BY DEF Shown
      <4>2. Live(x.msg)' <=> Live(x.msg)  BY <1>0 DEF Live
      <4>3. ASSUME x.by \in WorkerSenders
            PROVE  \A k \in Msgs :
                     /\ InJob(k, x.by)' => x.msg <= k
                     /\ InQueue(k, x.by)' \/ InDisp(k, x.by[2])' \/ InBus(k, x.by[2])'
                          => x.msg < k
        BY <1>1, <2>2, <2>3, <2>4, <3>1, <4>1, <4>3 DEF ShownOK
      <4>4. QED BY <1>0, <2>2, <3>1, <4>1, <4>2, <4>3 DEF ShownOK
    <3>2. QED BY <1>0, <3>1, ShownKept
  <2>15. AllShownSoFar'
    <3>1. \A c : \A k \in Msgs : ChunkShown(k, c)' <=> ChunkShown(k, c)
      BY <1>0 DEF ChunkShown, Entries
    <3>2. QED BY <1>0, <2>2, <3>1 DEF IInv, AllShownSoFar
  <2>16. QED BY <2>8, <2>9, <2>10, <2>11, <2>12, <2>13, <2>14, <2>15 DEF IInv
<1>4. QED BY <1>m, <1>s, <1>2, <1>3 DEF Enqueue

LEMMA InvDispatcherStops ==
  ASSUME Typed, IInv, NEW l \in Lanes, DispatcherStops(l)
  PROVE  IInv'
<1>1. UNCHANGED <<bus, queue, sent, fate, job>>
  BY DEF DispatcherStops, workerVars, showVars
<1>2. \A d \in Lanes : disp'[d].msg = disp[d].msg
  BY DEF DispatcherStops, Typed, DispOK, Dispatchers
<1>3. QED BY <1>1, <1>2, InvSame

LEMMA InvTake ==
  ASSUME Typed, IInv, NEW s \in WorkerSenders, Take(s)
  PROVE  IInv'
<1>m. PICK m : m = Head(queue[s])  OBVIOUS
<1>0. /\ run[s] = "idle" /\ queue[s] # <<>> /\ queue' = [queue EXCEPT ![s] = Tail(@)]
      /\ job' = [job EXCEPT ![s] = [msg |-> m, chunk |-> 1, attempt |-> 0,
                                    inst |-> serves[s[1]]]]
      /\ UNCHANGED <<bus, disp, fate, sent>>
  BY <1>m DEF Take, busVars, showVars
<1>1. /\ queue[s] \in Seq(Msgs) /\ queue \in [WorkerSenders -> Seq(Msgs)]
      /\ job \in [Senders -> Jobs] /\ job[s].msg = 0
  BY <1>0 DEF Typed, FlowOK, RunOK
<1>2. /\ m \in Msgs /\ Len(queue[s]) \in Nat /\ Len(queue[s]) > 0
      /\ m = queue[s][1] /\ DOMAIN queue[s] = 1 .. Len(queue[s])
      /\ DOMAIN Tail(queue[s]) = 1 .. Len(queue[s]) - 1
      /\ \A i \in DOMAIN Tail(queue[s]) : Tail(queue[s])[i] = queue[s][i + 1]
  BY <1>m, <1>0, <1>1, TailIs
<1>3. /\ \A t \in WorkerSenders : t \in Senders /\ t[2] \in Lanes
      /\ \A t \in Senders : t \notin WorkerSenders => \E k \in Direct : t = <<k, "direct">>
  BY TwoKinds
<1>4. queue'[s] = Tail(queue[s]) /\ \A t \in WorkerSenders : t # s => queue'[t] = queue[t]
  BY <1>0, <1>1
<1>5. \A i \in DOMAIN queue[s] : i # 1 => m < queue[s][i]
  BY <1>2 DEF IInv, Increasing
<1>6. /\ InQueue(m, s)
      /\ \A k \in Msgs : InQueue(k, s)' <=> InQueue(k, s) /\ k # m
      /\ \A k \in Msgs : InQueue(k, s)' => m < k
      /\ \A k : \A t \in WorkerSenders : t # s => (InQueue(k, t)' <=> InQueue(k, t))
  <2>1. InQueue(m, s)  BY <1>2 DEF InQueue
  <2>2. ASSUME NEW k, InQueue(k, s)' PROVE InQueue(k, s) /\ m < k
    <3>1. PICK i \in 1 .. Len(queue[s]) - 1 : queue[s][i + 1] = k
      BY <1>2, <1>4, <2>2 DEF InQueue
    <3>2. i + 1 \in DOMAIN queue[s] /\ i + 1 # 1  BY <1>2, <3>1
    <3>3. QED BY <1>5, <3>1, <3>2 DEF InQueue
  <2>3. ASSUME NEW k, InQueue(k, s), k # m PROVE InQueue(k, s)'
    <3>1. PICK i \in DOMAIN queue[s] : queue[s][i] = k  BY <2>3 DEF InQueue
    <3>2. i - 1 \in DOMAIN Tail(queue[s]) /\ (i - 1) + 1 = i  BY <1>2, <2>3, <3>1
    <3>3. Tail(queue[s])[i - 1] = k  BY <1>2, <3>1, <3>2
    <3>4. QED BY <1>4, <3>2, <3>3 DEF InQueue
  <2>4. \A k : \A t \in WorkerSenders : t # s => (InQueue(k, t)' <=> InQueue(k, t))
    BY <1>4 DEF InQueue
  <2>5. QED BY <1>2, <2>1, <2>2, <2>3, <2>4, MsgsAre
<1>7. /\ \A k : \A d \in Lanes : (InBus(k, d)' <=> InBus(k, d)) /\ (InDisp(k, d)' <=> InDisp(k, d))
      /\ \A k : InJob(k, s)' <=> k = m
      /\ \A k \in Msgs : ~InJob(k, s)
      /\ \A k : \A t \in Senders : t # s => (InJob(k, t)' <=> InJob(k, t))
      /\ job'[s].chunk = 1 /\ \A t \in Senders : t # s => job'[t] = job[t]
  BY <1>0, <1>1, <1>3, MsgsAre DEF InBus, InDisp, InJob
<1>8. /\ s[2] = Lane(m) /\ m \notin Direct
      /\ \A t \in WorkerSenders : InQueue(m, t) => t = s
      /\ \A t \in Senders : ~InJob(m, t)
  BY <1>2, <1>6 DEF IInv, OnLane, Apart
<1>9. \A k \in Msgs : InDisp(k, s[2]) \/ InBus(k, s[2]) => m < k
  BY <1>2, <1>6 DEF IInv, InLine
<1>10. Increasing'
  <2>1. \A i, j \in DOMAIN queue'[s] : i < j => queue'[s][i] < queue'[s][j]
    <3>1. SUFFICES ASSUME NEW i \in DOMAIN Tail(queue[s]), NEW j \in DOMAIN Tail(queue[s]), i < j
                   PROVE  Tail(queue[s])[i] < Tail(queue[s])[j]
      BY <1>4
    <3>2. i + 1 \in DOMAIN queue[s] /\ j + 1 \in DOMAIN queue[s] /\ i + 1 < j + 1
      BY <1>2, <3>1
    <3>3. QED BY <1>2, <3>2 DEF IInv, Increasing
  <2>2. QED BY <1>0, <1>4, <2>1 DEF IInv, Increasing
<1>11. OnLane'  BY <1>2, <1>3, <1>6, <1>7, <1>8 DEF IInv, OnLane
<1>12. InLine'
  <2>1. \A k, j \in Msgs : \A d \in Lanes : InDisp(k, d)' /\ InBus(j, d)' => k < j
    BY <1>7 DEF IInv, InLine
  <2>2. \A k, j \in Msgs : \A t \in WorkerSenders :
           InQueue(k, t)' /\ (InDisp(j, t[2])' \/ InBus(j, t[2])') => k < j
    BY <1>3, <1>6, <1>7 DEF IInv, InLine
  <2>3. \A k, j \in Msgs : \A t \in WorkerSenders :
           InJob(k, t)' /\ (InQueue(j, t)' \/ InDisp(j, t[2])' \/ InBus(j, t[2])') => k < j
    BY <1>2, <1>3, <1>6, <1>7, <1>9 DEF IInv, InLine
  <2>4. QED BY <2>1, <2>2, <2>3 DEF InLine
<1>13. NewLast'  BY <1>0 DEF IInv, NewLast
<1>14. Apart'  BY <1>2, <1>3, <1>6, <1>7, <1>8 DEF IInv, Apart
<1>15. OnItsWay'
  <2>1. \A k \in Msgs : k # m => (Somewhere(k)' <=> Somewhere(k))
    BY <1>3, <1>6, <1>7 DEF Somewhere
  <2>2. Somewhere(m) /\ Somewhere(m)'  BY <1>3, <1>6, <1>7, s \in WorkerSenders DEF Somewhere
  <2>3. QED BY <1>0, <2>1, <2>2 DEF IInv, OnItsWay, Live
<1>16. ShownBefore' /\ ShownInOrder'
  <2>1. ASSUME NEW n \in Names, NEW x \in Shown, ShownOK(x, n) PROVE ShownOK(x, n)'
    <3>1. x.msg \in Msgs /\ x.by \in Senders  BY DEF Shown
    <3>2. Live(x.msg)' <=> Live(x.msg)  BY <1>0 DEF Live
    <3>3. x.by = s => ~Live(x.msg)  BY <1>7, <2>1, <3>1 DEF ShownOK
    <3>4. Live(x.msg) =>
            /\ InJob(x.msg, x.by)'
            /\ x.chunk < job'[x.by].chunk \/ (x.chunk = job'[x.by].chunk /\ ~x.reported)
      BY <1>7, <2>1, <3>1, <3>3 DEF ShownOK
    <3>5. ASSUME x.by \in WorkerSenders
          PROVE  \A k \in Msgs :
                   /\ InJob(k, x.by)' => x.msg <= k
                   /\ InQueue(k, x.by)' \/ InDisp(k, x.by[2])' \/ InBus(k, x.by[2])'
                        => x.msg < k
      <4>1. CASE x.by = s
        <5>1. x.msg < m  BY <1>2, <1>6, <2>1, <3>5, <4>1 DEF ShownOK
        <5>2. x.msg <= m
          <6>1. x.msg \in Nat /\ m \in Nat  BY <1>2, <3>1, MsgsAre
          <6>2. QED BY <5>1, <6>1
        <5>3. \A k \in Msgs : InJob(k, x.by)' => x.msg <= k  BY <1>7, <4>1, <5>2
        <5>4. \A k \in Msgs : InQueue(k, x.by)' \/ InDisp(k, x.by[2])' \/ InBus(k, x.by[2])'
                               => x.msg < k
          BY <1>3, <1>6, <1>7, <2>1, <3>5, <4>1 DEF ShownOK
        <5>5. QED BY <5>3, <5>4
      <4>2. CASE x.by # s
        BY <1>3, <1>6, <1>7, <2>1, <3>1, <3>5, <4>2 DEF ShownOK
      <4>3. QED BY <4>1, <4>2
    <3>6. QED BY <1>0, <2>1, <3>1, <3>2, <3>4, <3>5 DEF ShownOK
  <2>2. QED BY <1>0, <2>1, ShownKept
<1>17. AllShownSoFar'
  <2>1. \A c : \A k \in Msgs : ChunkShown(k, c)' <=> ChunkShown(k, c)
    BY <1>0 DEF ChunkShown, Entries
  <2>2. 1 .. job'[s].chunk - 1 = {}  BY <1>7
  <2>3. QED BY <1>0, <1>7, <2>1, <2>2 DEF IInv, AllShownSoFar
<1>18. QED BY <1>10, <1>11, <1>12, <1>13, <1>14, <1>15, <1>16, <1>17 DEF IInv

LEMMA InvSendMessage ==
  ASSUME Typed, IInv, NEW m \in Direct, SendMessage(m)
  PROVE  IInv'
<1>s. PICK s : s = <<m, "direct">>  OBVIOUS
<1>0. fate[m] = "new" /\ UNCHANGED <<bus, disp, queue, sent>>
  BY DEF SendMessage, busVars, workerVars, showVars
<1>1. /\ m \in Msgs /\ s \in Senders /\ s \notin WorkerSenders
      /\ job \in [Senders -> Jobs] /\ fate \in [Msgs -> Fates]
  BY <1>s, TwoKinds, MsgsAre DEF Typed, FlowOK
<1>2. /\ ~Somewhere(m)
      /\ \A l \in Lanes : ~InBus(m, l) /\ ~InDisp(m, l)
      /\ \A t \in WorkerSenders : ~InQueue(m, t)
      /\ \A t \in Senders : ~InJob(m, t)
  BY <1>0, <1>1, NewIsNowhere
<1>3. /\ \A k : \A d \in Lanes : (InBus(k, d)' <=> InBus(k, d)) /\ (InDisp(k, d)' <=> InDisp(k, d))
      /\ \A k : \A t \in WorkerSenders : InQueue(k, t)' <=> InQueue(k, t)
  BY <1>0 DEF InBus, InDisp, InQueue
<1>4. \A t \in WorkerSenders : t \in Senders /\ t[2] \in Lanes /\ t # s
  BY <1>1, TwoKinds
<1>5. Increasing'  BY <1>0 DEF IInv, Increasing
<1>6. \A c : \A k \in Msgs : ChunkShown(k, c)' <=> ChunkShown(k, c)
  BY <1>0 DEF ChunkShown, Entries
<1>7. ASSUME NEW n \in Names, NEW x \in Shown, ShownOK(x, n)
      PROVE  x.msg # m /\ x.msg \in Msgs /\ x.by \in Senders
  BY <1>0, <1>7 DEF ShownOK, Shown
<1>8. CASE /\ job' = [job EXCEPT ![s] = [msg |-> m, chunk |-> 1, attempt |-> 0,
                                         inst |-> serves[workers[ChannelOf[m]]]]]
           /\ fate' = [fate EXCEPT ![m] = "accepted"]
  <2>1. fate'[m] = "accepted" /\ \A k \in Msgs : k # m => fate'[k] = fate[k]
    BY <1>1, <1>8
  <2>2. /\ job'[s].msg = m /\ job'[s].chunk = 1
        /\ \A t \in Senders : t # s => job'[t] = job[t]
    BY <1>1, <1>8
  <2>3. /\ \A k : InJob(k, s)' <=> k = m
        /\ \A k : \A t \in Senders : t # s => (InJob(k, t)' <=> InJob(k, t))
    BY <1>1, <2>2 DEF InJob
  <2>4. \A k \in Msgs : ~InJob(k, s)
    BY <1>s, <1>1, <1>2 DEF IInv, OnLane
  <2>5. OnLane'  BY <1>s, <1>1, <1>3, <1>4, <2>3 DEF IInv, OnLane
  <2>6. InLine'  BY <1>3, <1>4, <2>3 DEF IInv, InLine
  <2>7. NewLast'  BY <2>1 DEF IInv, NewLast
  <2>8. Apart'  BY <1>1, <1>2, <1>3, <1>4, <2>3 DEF IInv, Apart
  <2>9. OnItsWay'
    <3>1. \A k \in Msgs : k # m => (Somewhere(k)' <=> Somewhere(k))
      BY <1>1, <1>3, <2>3, <2>4 DEF Somewhere
    <3>2. Somewhere(m)'  BY <1>1, <2>3 DEF Somewhere
    <3>3. QED BY <1>1, <2>1, <3>1, <3>2 DEF IInv, OnItsWay, Live
  <2>10. ShownBefore' /\ ShownInOrder'
    <3>1. ASSUME NEW n \in Names, NEW x \in Shown, ShownOK(x, n) PROVE ShownOK(x, n)'
      <4>1. x.msg # m /\ x.msg \in Msgs /\ x.by \in Senders  BY <1>7, <3>1
      <4>2. Live(x.msg)' <=> Live(x.msg)  BY <2>1, <4>1 DEF Live
      <4>3. Live(x.msg) => x.by # s  BY <2>4, <3>1, <4>1 DEF ShownOK
      <4>4. QED BY <1>1, <1>3, <1>4, <2>1, <2>2, <2>3, <3>1, <4>1, <4>2, <4>3 DEF ShownOK
    <3>2. QED BY <1>0, <3>1, ShownKept
  <2>11. AllShownSoFar'
    <3>1. 1 .. job'[s].chunk - 1 = {}  BY <2>2
    <3>2. QED BY <1>1, <1>2, <1>6, <2>1, <2>2, <2>3, <3>1 DEF IInv, AllShownSoFar
  <2>12. QED BY <1>5, <2>5, <2>6, <2>7, <2>8, <2>9, <2>10, <2>11 DEF IInv
<1>9. CASE fate' = [fate EXCEPT ![m] = "refused"] /\ UNCHANGED job
  <2>1. fate'[m] = "refused" /\ \A k \in Msgs : k # m => fate'[k] = fate[k]
    BY <1>1, <1>9
  <2>2. \A k : \A t \in Senders : InJob(k, t)' <=> InJob(k, t)  BY <1>9 DEF InJob
  <2>3. OnLane'  BY <1>3, <1>4, <2>2 DEF IInv, OnLane
  <2>4. InLine'  BY <1>3, <1>4, <2>2 DEF IInv, InLine
  <2>5. NewLast'  BY <2>1 DEF IInv, NewLast
  <2>6. Apart'  BY <1>3, <1>4, <2>2 DEF IInv, Apart
  <2>7. OnItsWay'
    <3>1. \A k \in Msgs : Somewhere(k)' <=> Somewhere(k)  BY <1>3, <2>2 DEF Somewhere
    <3>2. QED BY <1>2, <2>1, <3>1 DEF IInv, OnItsWay, Live
  <2>8. ShownBefore' /\ ShownInOrder'
    <3>1. ASSUME NEW n \in Names, NEW x \in Shown, ShownOK(x, n) PROVE ShownOK(x, n)'
      <4>1. x.msg # m /\ x.msg \in Msgs /\ x.by \in Senders  BY <1>7, <3>1
      <4>2. Live(x.msg)' <=> Live(x.msg)  BY <2>1, <4>1 DEF Live
      <4>3. QED BY <1>3, <1>4, <1>9, <2>1, <2>2, <3>1, <4>1, <4>2 DEF ShownOK
    <3>2. QED BY <1>0, <3>1, ShownKept
  <2>9. AllShownSoFar'
    BY <1>6, <1>9, <2>1, <2>2 DEF IInv, AllShownSoFar
  <2>10. QED BY <1>5, <2>3, <2>4, <2>5, <2>6, <2>7, <2>8, <2>9 DEF IInv
<1>10. QED BY <1>s, <1>8, <1>9 DEF SendMessage

\* What a sender has is nowhere else.
LEMMA JobIsAlone ==
  ASSUME Typed, IInv, NEW m \in Msgs, NEW s \in Senders, InJob(m, s)
  PROVE  /\ \A l \in Lanes : ~InBus(m, l) /\ ~InDisp(m, l)
         /\ \A t \in WorkerSenders : ~InQueue(m, t)
         /\ \A t \in Senders : InJob(m, t) => t = s
         /\ s \in WorkerSenders => s[2] = Lane(m) /\ m \notin Direct
         /\ s \notin WorkerSenders => s = <<m, "direct">> /\ m \in Direct
<1>1. /\ s \in WorkerSenders => s[2] = Lane(m) /\ m \notin Direct
      /\ s \notin WorkerSenders => s = <<m, "direct">> /\ m \in Direct
  BY TwoKinds DEF IInv, OnLane
<1>2. ~(m < m)  BY MsgsAre
<1>3. \A l \in Lanes : ~InBus(m, l) /\ ~InDisp(m, l)
  BY <1>1, <1>2 DEF IInv, OnLane, InLine
<1>4. QED BY <1>1, <1>3 DEF IInv, Apart

\* What is shown is one more entry of the chat.
LEMMA EntriesAfterShows ==
  ASSUME Typed, NEW s \in Senders, Sending(s), NEW r \in BOOLEAN, sent' = Shows(s, r),
         NEW x, x = [by |-> s, msg |-> job[s].msg, chunk |-> job[s].chunk, reported |-> r],
         NEW o, o = ChannelOf[job[s].msg]
  PROVE  /\ o \in Names /\ x \in Shown /\ sent[o] \in Seq(Shown)
         /\ sent'[o] = Append(sent[o], x)
         /\ \A n \in Names : n # o => sent'[n] = sent[n]
         /\ \A n \in Names : \A y : y \in Entries(n)' <=> y \in Entries(n) \/ (n = o /\ y = x)
<1>1. /\ o \in Names /\ x \in Shown /\ sent' = [sent EXCEPT ![o] = Append(@, x)]
  BY ShowsIs
<1>2. sent \in [Names -> Seq(Shown)] /\ sent[o] \in Seq(Shown)
  BY <1>1 DEF Typed, FlowOK
<1>3. sent'[o] = Append(sent[o], x) /\ \A n \in Names : n # o => sent'[n] = sent[n]
  BY <1>1, <1>2
<1>4. /\ DOMAIN sent'[o] = DOMAIN sent[o] \cup {Len(sent[o]) + 1}
      /\ \A i \in DOMAIN sent[o] : sent'[o][i] = sent[o][i]
      /\ sent'[o][Len(sent[o]) + 1] = x
  BY <1>1, <1>2, <1>3, AppendIs
<1>5. \A n \in Names : \A y : y \in Entries(n)' <=> y \in Entries(n) \/ (n = o /\ y = x)
  <2>1. ASSUME NEW n \in Names, n # o PROVE Entries(n)' = Entries(n)
    BY <1>3, <2>1 DEF Entries
  <2>2. ASSUME NEW y, y \in Entries(o)' PROVE y \in Entries(o) \/ y = x
    <3>1. PICK i \in DOMAIN sent'[o] : sent'[o][i] = y  BY <2>2 DEF Entries
    <3>2. QED BY <1>4, <3>1 DEF Entries
  <2>3. ASSUME NEW y, y \in Entries(o) PROVE y \in Entries(o)'
    <3>1. PICK i \in DOMAIN sent[o] : sent[o][i] = y  BY <2>3 DEF Entries
    <3>2. i \in DOMAIN sent'[o] /\ sent'[o][i] = y  BY <1>4, <3>1
    <3>3. QED BY <3>2 DEF Entries
  <2>4. x \in Entries(o)'
    <3>1. Len(sent[o]) + 1 \in DOMAIN sent'[o]  BY <1>4
    <3>2. QED BY <1>4, <3>1 DEF Entries
  <2>5. QED BY <2>1, <2>2, <2>3, <2>4
<1>6. QED BY <1>1, <1>2, <1>3, <1>5

\* A sender that shows the chunk it is at keeps the order of its chat: what it
\* showed before is older, or an attempt at this chunk that reported an error.
LEMMA ShowsKeepOrder ==
  ASSUME Typed, IInv, NEW s \in Senders, Sending(s), NEW r \in BOOLEAN, sent' = Shows(s, r)
  PROVE  ShownInOrder'
<1>m. PICK m, c : m = job[s].msg /\ c = job[s].chunk  OBVIOUS
<1>o. PICK o, x : /\ o = ChannelOf[m]
                  /\ x = [by |-> s, msg |-> m, chunk |-> c, reported |-> r]
  OBVIOUS
<1>1. m \in Msgs /\ c \in Nat
  <2>1. job[s] \in Jobs  BY DEF Typed, FlowOK
  <2>2. QED BY <1>m, <2>1, MsgsAre DEF Sending, Jobs
<1>2. x.by = s /\ x.msg = m /\ x.chunk = c  BY <1>o
<1>3. InJob(m, s)  BY <1>m DEF InJob
<1>4. /\ \A t \in Senders : InJob(m, t) => t = s
      /\ s \notin WorkerSenders => s = <<m, "direct">> /\ m \in Direct
  BY <1>1, <1>3, JobIsAlone
<1>5. Live(m)
  BY <1>1, <1>3 DEF IInv, OnItsWay, Somewhere
<1>s. /\ o \in Names /\ x \in Shown /\ sent[o] \in Seq(Shown)
      /\ sent'[o] = Append(sent[o], x)
      /\ \A n \in Names : n # o => sent'[n] = sent[n]
  <2>1. /\ o = ChannelOf[job[s].msg]
        /\ x = [by |-> s, msg |-> job[s].msg, chunk |-> job[s].chunk, reported |-> r]
    BY <1>m, <1>o
  <2>2. /\ o \in Names /\ x \in Shown /\ sent[o] \in Seq(Shown)
        /\ sent'[o] = Append(sent[o], x)
    BY <2>1, EntriesAfterShows
  <2>3. ASSUME NEW n \in Names PROVE n # o => sent'[n] = sent[n]
    BY <2>1, EntriesAfterShows
  <2>4. QED BY <2>2, <2>3
<1>6. /\ DOMAIN sent'[o] = DOMAIN sent[o] \cup {Len(sent[o]) + 1}
      /\ DOMAIN sent[o] = 1 .. Len(sent[o]) /\ Len(sent[o]) \in Nat
      /\ \A i \in DOMAIN sent[o] : sent'[o][i] = sent[o][i]
      /\ sent'[o][Len(sent[o]) + 1] = x
  BY <1>s, AppendIs
<1>7. ASSUME NEW y \in Entries(o)
      PROVE  /\ y.by = s => Before(y, x)
             /\ SameChunk(y, x) => y.by = s
  <2>1. ShownOK(y, o) /\ y.msg \in Msgs /\ y.by \in Senders /\ y.chunk \in Nat
    BY <1>s, EntriesTyped DEF IInv, ShownBefore
  <2>2. CASE y.msg = m
    <3>1. y.by = s /\ (y.chunk < c \/ (y.chunk = c /\ ~y.reported))
      BY <1>m, <1>4, <1>5, <2>1, <2>2 DEF ShownOK
    <3>2. QED BY <1>1, <1>2, <2>2, <3>1 DEF Before, SameChunk
  <2>3. CASE y.msg # m
    <3>1. CASE y.by = s /\ s \in WorkerSenders
      <4>1. y.msg <= m  BY <1>1, <1>3, <2>1, <3>1 DEF ShownOK
      <4>2. y.msg \in Nat /\ m \in Nat  BY <1>1, <2>1, MsgsAre
      <4>3. y.msg < m  BY <2>3, <4>1, <4>2
      <4>4. QED BY <1>2, <2>3, <4>3 DEF Before, SameChunk
    <3>2. CASE y.by = s /\ s \notin WorkerSenders
      <4>1. <<y.msg, "direct">> = <<m, "direct">>  BY <1>4, <2>1, <3>2 DEF ShownOK
      <4>2. QED BY <2>3, <4>1
    <3>3. QED BY <1>2, <2>3, <3>1, <3>2 DEF SameChunk
  <2>4. QED BY <2>2, <2>3
<1>8. SUFFICES ASSUME NEW n \in Names, NEW i \in DOMAIN sent'[n], NEW j \in DOMAIN sent'[n],
                      i < j
               PROVE  /\ sent'[n][i].by = sent'[n][j].by => Before(sent'[n][i], sent'[n][j])
                      /\ SameChunk(sent'[n][i], sent'[n][j]) => sent'[n][i].by = sent'[n][j].by
  BY DEF ShownInOrder, Before, SameChunk
<1>9. CASE n # o
  BY <1>s, <1>8, <1>9 DEF IInv, ShownInOrder
<1>10. CASE n = o
  <2>1. i \in DOMAIN sent[o]  BY <1>6, <1>8, <1>10
  <2>2. CASE j \in DOMAIN sent[o]
    BY <1>s, <1>6, <1>8, <1>10, <2>1, <2>2 DEF IInv, ShownInOrder
  <2>3. CASE j = Len(sent[o]) + 1
    <3>1. sent[o][i] \in Entries(o)  BY <2>1 DEF Entries
    <3>2. sent'[n][i] = sent[o][i] /\ sent'[n][j] = x  BY <1>6, <1>10, <2>1, <2>3
    <3>3. QED BY <1>2, <1>7, <3>1, <3>2
  <2>4. QED BY <1>6, <1>8, <1>10, <2>2, <2>3
<1>11. QED BY <1>9, <1>10

\* An attempt that is made again moves no message, and may have shown its chunk.
LEMMA InvAttempt ==
  ASSUME Typed, IInv, NEW s \in Senders, Sending(s), NEW k \in 0 .. MaxAttempts,
         job' = [job EXCEPT ![s].attempt = k],
         UNCHANGED <<bus, disp, queue, fate>>, MayHaveShown(s) \/ UNCHANGED sent
  PROVE  IInv'
<1>1. \A t \in Senders : job'[t].msg = job[t].msg /\ job'[t].chunk = job[t].chunk
  BY AttemptIs
<1>2. CASE UNCHANGED sent  BY <1>1, <1>2, InvSame
<1>3. ASSUME NEW r \in BOOLEAN, ~r, sent' = Shows(s, r)  PROVE IInv'
  <2>1. /\ \A m : \A l \in Lanes : (InBus(m, l)' <=> InBus(m, l)) /\ (InDisp(m, l)' <=> InDisp(m, l))
        /\ \A m : \A t \in WorkerSenders : InQueue(m, t)' <=> InQueue(m, t)
        /\ \A m : \A t \in Senders : InJob(m, t)' <=> InJob(m, t)
    BY <1>1 DEF InBus, InDisp, InQueue, InJob
  <2>2. /\ \A t \in WorkerSenders : t \in Senders /\ t[2] \in Lanes
        /\ \A m \in Msgs : Live(m)' <=> Live(m)
    BY TwoKinds DEF Live
  <2>3. Increasing' /\ NewLast'  BY DEF IInv, Increasing, NewLast
  <2>4. OnLane' /\ Apart'  BY <2>1, <2>2 DEF IInv, OnLane, Apart
  <2>5. InLine'  BY <2>1, <2>2 DEF IInv, InLine
  <2>6. OnItsWay'
    <3>1. \A m \in Msgs : Somewhere(m)' <=> Somewhere(m)  BY <2>1 DEF Somewhere
    <3>2. QED BY <3>1, <2>2 DEF IInv, OnItsWay
  <2>7. ASSUME NEW n \in Names, NEW x \in Shown, ShownOK(x, n) PROVE ShownOK(x, n)'
    <3>1. x.msg \in Msgs /\ x.by \in Senders  BY DEF Shown
    <3>2. QED BY <1>1, <2>1, <2>2, <2>7, <3>1 DEF ShownOK
  <2>8. PICK m, c, o, x :
           /\ m = job[s].msg /\ c = job[s].chunk /\ o = ChannelOf[m]
           /\ x = [by |-> s, msg |-> m, chunk |-> c, reported |-> r]
    OBVIOUS
  <2>9. /\ o \in Names /\ x \in Shown
        /\ \A n \in Names : \A y : y \in Entries(n)' <=> y \in Entries(n) \/ (n = o /\ y = x)
    <3>1. /\ o = ChannelOf[job[s].msg]
          /\ x = [by |-> s, msg |-> job[s].msg, chunk |-> job[s].chunk, reported |-> r]
      BY <2>8
    <3>2. o \in Names /\ x \in Shown  BY <1>3, <3>1, EntriesAfterShows
    <3>3. ASSUME NEW n \in Names, NEW y
          PROVE  y \in Entries(n)' <=> y \in Entries(n) \/ (n = o /\ y = x)
      BY <1>3, <3>1, EntriesAfterShows
    <3>4. QED BY <3>2, <3>3
  <2>10. ShownOK(x, o)
    <3>1. x.by = s /\ x.msg = m /\ x.chunk = c /\ ~x.reported /\ m \in Msgs
      BY <1>3, <2>8, <2>9 DEF Shown
    <3>2. InJob(m, s)  BY <2>8 DEF InJob
    <3>3. Live(m)  BY <3>1, <3>2 DEF IInv, OnItsWay, Somewhere
    <3>4. /\ s \in WorkerSenders => s[2] = Lane(m) /\ m \notin Direct
          /\ s \notin WorkerSenders => s = <<m, "direct">>
      BY <3>1, <3>2, JobIsAlone
    <3>5. ASSUME s \in WorkerSenders, NEW l \in Msgs
          PROVE  /\ InJob(l, s) => m <= l
                 /\ InQueue(l, s) \/ InDisp(l, s[2]) \/ InBus(l, s[2]) => m < l
      BY <2>2, <3>1, <3>2, <3>5, MsgsAre DEF IInv, InLine, InJob
    <3>6. QED BY <2>8, <3>1, <3>2, <3>3, <3>4, <3>5 DEF ShownOK, Live
  <2>11. ShownBefore'
    <3>1. \A n \in Names : \A y \in Entries(n) : ShownOK(y, n)'
      BY <2>7, EntriesTyped DEF IInv, ShownBefore
    <3>2. ShownOK(x, o)'  BY <2>7, <2>9, <2>10
    <3>3. QED BY <2>9, <3>1, <3>2 DEF ShownBefore
  <2>12. ShownInOrder'  BY <1>3, ShowsKeepOrder
  <2>13. AllShownSoFar'
    <3>1. \A d : \A l \in Msgs : ChunkShown(l, d) => ChunkShown(l, d)'
      BY <2>9, ChannelAssumption DEF ChunkShown
    <3>2. QED BY <1>1, <2>1, <3>1 DEF IInv, AllShownSoFar
  <2>14. QED BY <2>3, <2>4, <2>5, <2>6, <2>11, <2>12, <2>13 DEF IInv
<1>4. QED BY <1>2, <1>3 DEF MayHaveShown

\* The end of a chunk: it is shown, or it failed and may have been shown.
LEMMA InvChunk ==
  ASSUME Typed, IInv, NEW s \in Senders, Sending(s), NEW ok \in BOOLEAN, AfterChunk(s, ok),
         UNCHANGED <<bus, disp, queue>>,
         IF ok THEN sent' = Shows(s, TRUE) ELSE MayHaveShown(s) \/ UNCHANGED sent
  PROVE  IInv'
<1>m. PICK m, c : m = job[s].msg /\ c = job[s].chunk  OBVIOUS
<1> DEFINE last == c = Chunks[m]
<1>1. /\ m \in Msgs /\ c \in 1 .. Chunks[m] /\ Chunks[m] \in Nat \ {0} /\ c \in Nat
      /\ job'[s].msg = IF last THEN 0 ELSE m
      /\ ~last => job'[s].chunk = c + 1
      /\ \A t \in Senders : t # s => job'[t] = job[t]
      /\ fate'[m] = IF ~ok \/ fate[m] = "failing" THEN IF last THEN "failed" ELSE "failing"
                    ELSE IF last THEN "sent" ELSE fate[m]
      /\ \A k \in Msgs : k # m => fate'[k] = fate[k]
  <2>1. /\ m \in Msgs /\ c \in 1 .. Chunks[m] /\ Chunks[m] \in Nat \ {0}
        /\ \A t \in Senders : t # s => job'[t] = job[t]
        /\ \A k \in Msgs : k # m => fate'[k] = fate[k]
        /\ last => job'[s].msg = 0
        /\ ~last => job'[s].msg = m /\ job'[s].chunk = c + 1
        /\ last => fate'[m] = IF ~ok \/ fate[m] = "failing" THEN "failed" ELSE "sent"
        /\ ~last => fate'[m] = IF ~ok \/ fate[m] = "failing" THEN "failing" ELSE fate[m]
    BY <1>m, AfterChunkIs
  <2>2. c \in Nat  BY <2>1
  <2>3. QED BY <2>1, <2>2
<1>2. /\ \A k : \A d \in Lanes : (InBus(k, d)' <=> InBus(k, d)) /\ (InDisp(k, d)' <=> InDisp(k, d))
      /\ \A k : \A t \in WorkerSenders : InQueue(k, t)' <=> InQueue(k, t)
  BY DEF InBus, InDisp, InQueue
<1>3. /\ \A k : InJob(k, s) <=> k = m
      /\ \A k \in Msgs : InJob(k, s)' <=> k = m /\ ~last
      /\ \A k : \A t \in Senders : t # s => (InJob(k, t)' <=> InJob(k, t))
  BY <1>m, <1>1, MsgsAre DEF InJob
<1>4. \A t \in WorkerSenders : t \in Senders /\ t[2] \in Lanes
  BY TwoKinds
<1>5. /\ \A l \in Lanes : ~InBus(m, l) /\ ~InDisp(m, l)
      /\ \A t \in WorkerSenders : ~InQueue(m, t)
      /\ \A t \in Senders : InJob(m, t) => t = s
      /\ s \in WorkerSenders => s[2] = Lane(m) /\ m \notin Direct
      /\ s \notin WorkerSenders => s = <<m, "direct">> /\ m \in Direct
  BY <1>1, <1>3, JobIsAlone
<1>6. Live(m)
  BY <1>1, <1>3 DEF IInv, OnItsWay, Somewhere
<1>7. /\ fate'[m] \in {"accepted", "failing", "sent", "failed"}
      /\ Live(m)' <=> ~last
      /\ fate'[m] = "accepted" => ok /\ ~last /\ fate[m] = "accepted"
      /\ fate'[m] = "sent" => ok /\ last /\ fate[m] = "accepted"
  BY <1>1, <1>6 DEF Live
<1>8. Increasing'  BY DEF IInv, Increasing
<1>9. OnLane'  BY <1>1, <1>2, <1>3, <1>4, <1>5 DEF IInv, OnLane
<1>10. InLine'  BY <1>2, <1>3, <1>4 DEF IInv, InLine
<1>11. NewLast'
  <2>1. fate[m] # "new" /\ fate'[m] # "new"  BY <1>6, <1>7 DEF Live
  <2>2. QED BY <1>1, <2>1 DEF IInv, NewLast
<1>12. Apart'  BY <1>2, <1>3, <1>4 DEF IInv, Apart
<1>13. OnItsWay'
  <2>1. \A k \in Msgs : k # m => (Somewhere(k)' <=> Somewhere(k))
    BY <1>2, <1>3 DEF Somewhere
  <2>2. Somewhere(m)' <=> ~last
    BY <1>1, <1>2, <1>3, <1>5 DEF Somewhere
  <2>3. QED BY <1>1, <1>7, <2>1, <2>2 DEF IInv, OnItsWay, Live
<1>14. ASSUME NEW n \in Names, NEW x \in Shown, ShownOK(x, n)
       PROVE  ShownOK(x, n)'
  <2>1. x.msg \in Msgs /\ x.by \in Senders /\ x.chunk \in Nat  BY DEF Shown
  <2>2. x.by \in WorkerSenders =>
          \A k \in Msgs : /\ InJob(k, x.by)' => x.msg <= k
                          /\ InQueue(k, x.by)' \/ InDisp(k, x.by[2])' \/ InBus(k, x.by[2])'
                               => x.msg < k
    BY <1>2, <1>3, <1>4, <1>14, <2>1 DEF ShownOK
  <2>3. /\ ChannelOf[x.msg] = n
        /\ fate'[x.msg] \in {"accepted", "failing", "sent", "failed"}
        /\ x.by \in WorkerSenders => x.by[2] = Lane(x.msg) /\ x.msg \notin Direct
        /\ x.by \notin WorkerSenders => x.by = <<x.msg, "direct">>
    BY <1>1, <1>7, <1>14, <2>1 DEF ShownOK
  <2>4. Live(x.msg)' =>
          /\ InJob(x.msg, x.by)'
          /\ x.chunk < job'[x.by].chunk \/ (x.chunk = job'[x.by].chunk /\ ~x.reported)
    <3>1. CASE x.msg = m
      <4>1. x.by = s /\ (x.chunk < c \/ x.chunk = c)
        BY <1>m, <1>5, <1>6, <1>14, <2>1, <3>1 DEF ShownOK
      <4>2. x.chunk < c + 1  BY <1>1, <2>1, <4>1
      <4>3. QED BY <1>1, <1>3, <1>7, <3>1, <4>1, <4>2
    <3>2. CASE x.msg # m
      <4>1. Live(x.msg)' <=> Live(x.msg)  BY <1>1, <2>1, <3>2 DEF Live
      <4>2. Live(x.msg) => x.by # s  BY <1>3, <1>14, <3>2 DEF ShownOK
      <4>3. QED BY <1>1, <1>3, <1>14, <2>1, <4>1, <4>2 DEF ShownOK
    <3>3. QED BY <3>1, <3>2
  <2>5. QED BY <2>2, <2>3, <2>4 DEF ShownOK
<1>15. ASSUME \A d : \A k \in Msgs : ChunkShown(k, d) => ChunkShown(k, d)',
              ok => ChunkShown(m, c)'
       PROVE  AllShownSoFar'
  <2>1. ASSUME NEW k \in Msgs, NEW t \in Senders, fate'[k] = "accepted", InJob(k, t)',
               NEW d \in 1 .. job'[t].chunk - 1
        PROVE  ChunkShown(k, d)'
    <3>1. CASE t = s
      <4>1. k = m /\ ~last  BY <1>3, <2>1, <3>1
      <4>2. ok /\ fate[m] = "accepted" /\ d \in 1 .. c
        BY <1>1, <1>7, <2>1, <3>1, <4>1
      <4>3. d = c \/ d \in 1 .. c - 1  BY <1>1, <4>2
      <4>4. d \in 1 .. c - 1 => ChunkShown(m, d)
        BY <1>m, <1>1, <1>3, <4>2 DEF IInv, AllShownSoFar
      <4>5. QED BY <1>1, <1>15, <4>1, <4>2, <4>3, <4>4
    <3>2. CASE t # s
      <4>1. InJob(k, t) /\ job'[t] = job[t]  BY <1>1, <1>3, <2>1, <3>2
      <4>2. k # m  BY <1>5, <3>2, <4>1
      <4>3. QED BY <1>1, <1>15, <2>1, <4>1, <4>2 DEF IInv, AllShownSoFar
    <3>3. QED BY <3>1, <3>2
  <2>2. ASSUME NEW k \in Msgs, fate'[k] = "sent", NEW d \in 1 .. Chunks[k]
        PROVE  ChunkShown(k, d)'
    <3>1. CASE k = m
      <4>1. ok /\ c = Chunks[m] /\ fate[m] = "accepted"  BY <1>1, <1>7, <2>2, <3>1
      <4>2. d = c \/ d \in 1 .. c - 1  BY <1>1, <2>2, <3>1, <4>1
      <4>3. d \in 1 .. c - 1 => ChunkShown(m, d)
        BY <1>m, <1>1, <1>3, <4>1 DEF IInv, AllShownSoFar
      <4>4. QED BY <1>1, <1>15, <3>1, <4>1, <4>2, <4>3
    <3>2. CASE k # m
      BY <1>1, <1>15, <2>2, <3>2 DEF IInv, AllShownSoFar
    <3>3. QED BY <3>1, <3>2
  <2>3. QED BY <2>1, <2>2 DEF AllShownSoFar
<1>16. CASE ~ok /\ UNCHANGED sent
  <2>1. sent' = sent  BY <1>16
  <2>2. ShownBefore' /\ ShownInOrder'  BY <1>14, <2>1, ShownKept
  <2>3. \A d : \A k \in Msgs : ChunkShown(k, d) => ChunkShown(k, d)'
    BY <2>1 DEF ChunkShown, Entries
  <2>4. AllShownSoFar'  BY <1>15, <1>16, <2>3
  <2>5. QED BY <1>8, <1>9, <1>10, <1>11, <1>12, <1>13, <2>2, <2>4 DEF IInv
<1>17. ASSUME NEW r \in BOOLEAN, sent' = Shows(s, r)  PROVE IInv'
  <2>o. PICK o, x : /\ o = ChannelOf[m]
                    /\ x = [by |-> s, msg |-> m, chunk |-> c, reported |-> r]
    OBVIOUS
  <2>s. /\ o \in Names /\ x \in Shown
        /\ \A n \in Names : \A y : y \in Entries(n)' <=> y \in Entries(n) \/ (n = o /\ y = x)
    <3>1. /\ o = ChannelOf[job[s].msg]
          /\ x = [by |-> s, msg |-> job[s].msg, chunk |-> job[s].chunk, reported |-> r]
      BY <1>m, <2>o
    <3>2. o \in Names /\ x \in Shown  BY <1>17, <3>1, EntriesAfterShows
    <3>3. ASSUME NEW n \in Names, NEW y
          PROVE  y \in Entries(n)' <=> y \in Entries(n) \/ (n = o /\ y = x)
      BY <1>17, <3>1, EntriesAfterShows
    <3>4. QED BY <3>2, <3>3
  <2>2. x.by = s /\ x.msg = m /\ x.chunk = c  BY <2>o
  <2>3. ShownOK(x, o)'
    <3>1. Live(m)' => InJob(m, s)' /\ c < job'[s].chunk
      BY <1>1, <1>3, <1>7
    <3>2. s \in WorkerSenders =>
            \A k \in Msgs : /\ InJob(k, s)' => m <= k
                            /\ InQueue(k, s)' \/ InDisp(k, s[2])' \/ InBus(k, s[2])' => m < k
      <4>1. m <= m  BY <1>1, MsgsAre
      <4>2. QED BY <1>1, <1>2, <1>3, <1>4, <4>1 DEF IInv, InLine
    <3>3. QED BY <1>5, <1>7, <2>o, <2>2, <3>1, <3>2 DEF ShownOK
  <2>4. ShownBefore'
    <3>1. \A n \in Names : \A y \in Entries(n) : ShownOK(y, n)'
      BY <1>14, EntriesTyped DEF IInv, ShownBefore
    <3>2. QED BY <2>s, <2>3, <3>1 DEF ShownBefore
  <2>6. ShownInOrder'  BY <1>17, ShowsKeepOrder
  <2>7. AllShownSoFar'
    <3>1. \A d : \A k \in Msgs : ChunkShown(k, d) => ChunkShown(k, d)'
      BY <2>s, ChannelAssumption DEF ChunkShown
    <3>2. ChunkShown(m, c)'  BY <2>o, <2>s, <2>2 DEF ChunkShown
    <3>3. QED BY <1>15, <3>1, <3>2
  <2>8. QED BY <1>8, <1>9, <1>10, <1>11, <1>12, <1>13, <2>4, <2>6, <2>7 DEF IInv
<1>18. QED BY <1>16, <1>17 DEF MayHaveShown

LEMMA InvSend ==
  ASSUME Typed, IInv, NEW s \in Senders, Send(s)
  PROVE  IInv'
<1>1. CASE LimiterRefuses(s) \/ SendFails(s)
  <2>1. /\ Sending(s) /\ AfterChunk(s, FALSE) /\ UNCHANGED <<bus, disp, queue>>
        /\ MayHaveShown(s) \/ UNCHANGED sent
    BY <1>1 DEF LimiterRefuses, SendFails, busVars, showVars
  <2>2. QED BY <2>1, InvChunk
<1>2. CASE PreSend(s)
  <2>1. Sending(s) /\ UNCHANGED <<bus, disp, queue>>  BY <1>2 DEF PreSend, busVars
  <2>2. CASE sent' = Shows(s, TRUE) /\ AfterChunk(s, TRUE)
    BY <2>1, <2>2, InvChunk
  <2>3. CASE /\ job' = [job EXCEPT ![s].attempt = 1] /\ UNCHANGED <<fate, run>>
             /\ MayHaveShown(s) \/ UNCHANGED sent
    <3>1. 1 \in 0 .. MaxAttempts  BY BoundsAre
    <3>2. QED BY <2>1, <2>3, <3>1, InvAttempt
  <2>4. QED BY <1>2, <2>2, <2>3 DEF PreSend
<1>3. CASE SendOk(s)
  <2>1. /\ Sending(s) /\ AfterChunk(s, TRUE) /\ sent' = Shows(s, TRUE)
        /\ UNCHANGED <<bus, disp, queue>>
    BY <1>3 DEF SendOk, busVars
  <2>2. QED BY <2>1, InvChunk
<1>4. CASE Retry(s)
  <2>1. /\ Sending(s) /\ job' = [job EXCEPT ![s].attempt = job[s].attempt + 1]
        /\ job[s].attempt \in 1 .. MaxAttempts - 1 /\ MayHaveShown(s)
        /\ UNCHANGED <<bus, disp, queue, fate>>
    BY <1>4 DEF Retry, busVars, workerVars
  <2>2. job[s].attempt + 1 \in 0 .. MaxAttempts  BY <2>1, ChannelAssumption
  <2>3. QED BY <2>1, <2>2, InvAttempt
<1>5. QED BY <1>1, <1>2, <1>3, <1>4 DEF Send

LEMMA InvFlow ==
  ASSUME Typed, IInv, UNCHANGED flowVars
  PROVE  IInv'
BY InvSame DEF flowVars

LEMMA InvInit == Init => IInv
<1> SUFFICES ASSUME Init PROVE IInv  OBVIOUS
<1>1. /\ \A l \in Lanes : bus[l] = <<>> /\ disp[l].msg = 0
      /\ \A s \in WorkerSenders : queue[s] = <<>>
      /\ \A s \in Senders : job[s].msg = 0
      /\ \A m \in Msgs : fate[m] = "new"
      /\ \A n \in Names : sent[n] = <<>>
  BY DEF Init, Idle, NoJob
<1>2. /\ \A m \in Msgs : \A l \in Lanes : ~InBus(m, l) /\ ~InDisp(m, l)
      /\ \A m \in Msgs : \A s \in WorkerSenders : ~InQueue(m, s)
      /\ \A m \in Msgs : \A s \in Senders : ~InJob(m, s)
      /\ \A m \in Msgs : fate[m] = "new"
  BY <1>1, MsgsAre DEF InBus, InDisp, InQueue, InJob
<1>3. \A s \in WorkerSenders : s \in Senders  BY TwoKinds
<1>4. Increasing  BY <1>1 DEF Increasing
<1>5. OnLane /\ InLine /\ Apart  BY <1>2, <1>3 DEF OnLane, InLine, Apart
<1>6. NewLast /\ OnItsWay  BY <1>2 DEF NewLast, OnItsWay, Somewhere, Live
<1>7. ShownInOrder /\ ShownBefore  BY <1>1 DEF ShownInOrder, ShownBefore, Entries
<1>8. AllShownSoFar  BY <1>2 DEF AllShownSoFar
<1>9. QED BY <1>4, <1>5, <1>6, <1>7, <1>8 DEF IInv

LEMMA InvNext == Typed /\ IInv /\ [Next]_vars => IInv'
<1>1. ASSUME Typed, IInv, UNCHANGED vars PROVE IInv'
  <2>1. UNCHANGED flowVars
    BY <1>1 DEF vars, flowVars, busVars, workerVars, showVars
  <2>2. QED BY <1>1, <2>1, InvFlow
<1>2. ASSUME Typed, IInv, Next PROVE IInv'
  <2>1. ASSUME NEW s \in WorkerSenders, Work(s) PROVE IInv'
    BY <1>2, <2>1, InvTake, TypedWorkerExits, InvFlow DEF Work
  <2>2. ASSUME NEW l \in Lanes, Route(l) PROVE IInv'
    BY <1>2, <2>2, InvDispatch, InvEnqueue, InvDispatcherStops DEF Route
  <2>3. ASSUME NEW n \in Names, RecordPlaceholder(n) \/ Janitor(n) PROVE IInv'
    BY <1>2, <2>3, TypedPlaceholders, InvFlow
  <2>4. ASSUME NEW c \in Changes, NEW fit \in SUBSET Names, NEW ok \in SUBSET Names,
               Reload(c, fit, ok)
        PROVE  IInv'
    BY <1>2, <2>4, TypedReload, InvFlow
  <2>5. ASSUME Tidy \/ StopAll PROVE IInv'
    BY <1>2, <2>5, TypedTidy, TypedStopAll, InvFlow
  <2>6. QED
    BY <1>2, <2>1, <2>2, <2>3, <2>4, <2>5, InvPublish, InvSendMessage, InvSend DEF Next
<1>3. QED BY <1>1, <1>2

LEMMA InvCorrect == Spec => [](Typed /\ IInv)
<1>1. Init => Typed /\ IInv  BY TypedInit, InvInit
<1>2. Typed /\ IInv /\ [Next]_vars => (Typed /\ IInv)'  BY TypedNext, InvNext
<1>3. QED BY <1>1, <1>2, PTL DEF Spec

----------------------------------------------------------------------------
\* What follows

\* A worker shows one lane in the order it was published, chunk after chunk; a chunk
\* that was reported as shown is never shown again, and one whose attempts reported
\* errors only by the sender that tries it, whatever is retried, reloaded or stopped.
THEOREM InOrder == Spec => []ShownInOrder
<1>1. IInv => ShownInOrder  BY DEF IInv
<1>2. QED BY <1>1, InvCorrect, PTL

\* A message that counts as sent is shown with every chunk; one that was refused or
\* dropped is not shown at all.
THEOREM NothingSilent == Spec => []NoSilentLoss
<1>1. ASSUME Typed, IInv PROVE NoSilentLoss
  <2> DEFINE shown(m) == {c \in 1 .. Chunks[m] :
                            \E i \in DOMAIN sent[ChannelOf[m]] :
                              LET x == sent[ChannelOf[m]][i] IN x.msg = m /\ x.chunk = c}
  <2>1. ASSUME NEW m \in Msgs, fate[m] = "sent", NEW c \in 1 .. Chunks[m]
        PROVE  c \in shown(m)
    <3>1. ChunkShown(m, c)  BY <1>1, <2>1 DEF IInv, AllShownSoFar
    <3>2. QED BY <3>1 DEF ChunkShown, Entries
  <2>2. ASSUME NEW m \in Msgs, fate[m] \in {"refused", "dropped"}, NEW c \in shown(m)
        PROVE  FALSE
    <3>1. PICK i \in DOMAIN sent[ChannelOf[m]] : sent[ChannelOf[m]][i].msg = m
      BY <2>2
    <3>2. sent[ChannelOf[m]][i] \in Entries(ChannelOf[m]) /\ ChannelOf[m] \in Names
      BY <3>1, ChannelAssumption DEF Entries
    <3>3. ShownOK(sent[ChannelOf[m]][i], ChannelOf[m])
      BY <1>1, <3>2 DEF IInv, ShownBefore
    <3>4. fate[m] \in {"accepted", "failing", "sent", "failed"}
      BY <3>1, <3>3 DEF ShownOK
    <3>5. QED BY <2>2, <3>4
  <2>3. \A m \in Msgs : shown(m) \subseteq 1 .. Chunks[m]  OBVIOUS
  <2>4. \A m \in Msgs : fate[m] = "sent" => shown(m) = 1 .. Chunks[m]
    BY <2>1, <2>3
  <2>5. \A m \in Msgs : fate[m] \in {"refused", "dropped"} => shown(m) = {}
    BY <2>2
  <2>6. QED BY <2>4, <2>5 DEF NoSilentLoss
<1>2. QED BY <1>1, InvCorrect, PTL

\* The kinds of places exclude each other, and there is one place of each kind.
LEMMA OneKind ==
  ASSUME Typed, IInv, NEW m \in Msgs
  PROVE  /\ \A l \in Lanes : InBus(m, l) =>
              /\ \A k \in Lanes : ~InDisp(m, k) /\ (InBus(m, k) => k = l)
              /\ \A s \in WorkerSenders : ~InQueue(m, s)
              /\ \A s \in Senders : ~InJob(m, s)
         /\ \A l \in Lanes : InDisp(m, l) =>
              /\ \A k \in Lanes : ~InBus(m, k) /\ (InDisp(m, k) => k = l)
              /\ \A s \in WorkerSenders : ~InQueue(m, s)
              /\ \A s \in Senders : ~InJob(m, s)
         /\ \A s \in WorkerSenders : InQueue(m, s) =>
              /\ \A k \in Lanes : ~InBus(m, k) /\ ~InDisp(m, k)
              /\ \A t \in WorkerSenders : InQueue(m, t) => t = s
              /\ \A t \in Senders : ~InJob(m, t)
         /\ \A s \in Senders : InJob(m, s) =>
              /\ \A k \in Lanes : ~InBus(m, k) /\ ~InDisp(m, k)
              /\ \A t \in WorkerSenders : ~InQueue(m, t)
              /\ \A t \in Senders : InJob(m, t) => t = s
<1>1. ~(m < m)  BY MsgsAre
<1>2. \A l, k \in Lanes : /\ (InBus(m, l) \/ InDisp(m, l)) /\ (InBus(m, k) \/ InDisp(m, k)) => l = k
                          /\ ~(InBus(m, l) /\ InDisp(m, k))
  BY <1>1 DEF IInv, OnLane, InLine
<1>3. \A l \in Lanes, s \in WorkerSenders : ~((InBus(m, l) \/ InDisp(m, l)) /\ InQueue(m, s))
  BY <1>1, TwoKinds DEF IInv, OnLane, InLine
<1>4. \A s \in Senders : InJob(m, s) =>
        /\ \A k \in Lanes : ~InBus(m, k) /\ ~InDisp(m, k)
        /\ \A t \in WorkerSenders : ~InQueue(m, t)
        /\ \A t \in Senders : InJob(m, t) => t = s
  BY JobIsAlone
<1>5. \A s, t \in WorkerSenders : InQueue(m, s) /\ InQueue(m, t) => s = t
  BY DEF IInv, Apart
<1>6. QED BY <1>2, <1>3, <1>4, <1>5

LEMMA PlaceIs ==
  ASSUME NEW m, NEW p
  PROVE  p \in Places(m) <=>
           \/ \E l \in Lanes : \E i \in DOMAIN bus[l] : bus[l][i] = m /\ p = <<"bus", l, i>>
           \/ \E l \in Lanes : InDisp(m, l) /\ p = <<"dispatcher", l, 1>>
           \/ \E s \in WorkerSenders : \E i \in DOMAIN queue[s] :
                queue[s][i] = m /\ p = <<"queue", s, i>>
           \/ \E s \in Senders : InJob(m, s) /\ p = <<"sender", s, 1>>
<1> DEFINE B == UNION {{<<"bus", l, i>> : i \in {k \in DOMAIN bus[l] : bus[l][k] = m}} : l \in Lanes}
<1> DEFINE D == {<<"dispatcher", l, 1>> : l \in {x \in Lanes : disp[x].msg = m}}
<1> DEFINE Q == UNION {{<<"queue", s, i>> : i \in {k \in DOMAIN queue[s] : queue[s][k] = m}} :
                         s \in WorkerSenders}
<1> DEFINE J == {<<"sender", s, 1>> : s \in {x \in Senders : job[x].msg = m}}
<1>1. p \in B <=> \E l \in Lanes : \E i \in DOMAIN bus[l] : bus[l][i] = m /\ p = <<"bus", l, i>>
  OBVIOUS
<1>2. p \in D <=> \E l \in Lanes : InDisp(m, l) /\ p = <<"dispatcher", l, 1>>
  BY DEF InDisp
<1>3. p \in Q <=> \E s \in WorkerSenders : \E i \in DOMAIN queue[s] :
                    queue[s][i] = m /\ p = <<"queue", s, i>>
  OBVIOUS
<1>4. p \in J <=> \E s \in Senders : InJob(m, s) /\ p = <<"sender", s, 1>>
  BY DEF InJob
<1>5. Places(m) = B \cup D \cup Q \cup J  BY DEF Places
<1> HIDE DEF B, D, Q, J
<1>6. QED BY <1>1, <1>2, <1>3, <1>4, <1>5

\* An accepted message is in one place until it is settled, and in none after that.
THEOREM Kept == Spec => []OnePlace
<1>1. ASSUME Typed, IInv, NEW m \in Msgs, ~Live(m) PROVE Cardinality(Places(m)) = 0
  <2>1. ~Somewhere(m)  BY <1>1 DEF IInv, OnItsWay
  <2>2. \A p : p \notin Places(m)
    BY <2>1, PlaceIs DEF Somewhere, InBus, InQueue
  <2>3. Places(m) = {}  BY <2>2
  <2>4. QED BY <2>3, FS_EmptySet
<1>2. ASSUME Typed, IInv, NEW m \in Msgs, Live(m) PROVE Cardinality(Places(m)) = 1
  <2>1. Somewhere(m)  BY <1>2 DEF IInv, OnItsWay
  <2>2. /\ bus \in [Lanes -> Seq(Msgs)] /\ queue \in [WorkerSenders -> Seq(Msgs)]
    BY <1>2 DEF Typed, FlowOK
  <2>3. ~(m < m)  BY MsgsAre
  <2>4. ASSUME NEW l \in Lanes, InBus(m, l) PROVE Cardinality(Places(m)) = 1
    <3>1. PICK i \in DOMAIN bus[l] : bus[l][i] = m  BY <2>4 DEF InBus
    <3>2. \A j \in DOMAIN bus[l] : bus[l][j] = m => j = i
      <4>1. \A j \in DOMAIN bus[l] : i \in Int /\ j \in Int  BY <2>2
      <4>2. QED BY <1>2, <2>3, <3>1, <4>1 DEF IInv, Increasing
    <3>3. \A k \in Lanes : \A j \in DOMAIN bus[k] : bus[k][j] = m => k = l /\ j = i
      BY <1>2, <2>4, <3>2, OneKind DEF InBus
    <3>4. \A s \in WorkerSenders : \A j \in DOMAIN queue[s] : queue[s][j] # m
      BY <1>2, <2>4, OneKind DEF InQueue
    <3>5. /\ \A k \in Lanes : ~InDisp(m, k)
          /\ \A t \in Senders : ~InJob(m, t)
      BY <1>2, <2>4, OneKind
    <3>6. ASSUME NEW q PROVE q \in Places(m) <=> q = <<"bus", l, i>>
      BY <3>1, <3>3, <3>4, <3>5, PlaceIs
    <3>7. Places(m) = {<<"bus", l, i>>}  BY <3>6
    <3>8. QED BY <3>7, FS_Singleton
  <2>5. ASSUME NEW l \in Lanes, InDisp(m, l) PROVE Cardinality(Places(m)) = 1
    <3>1. \A k \in Lanes : \A j \in DOMAIN bus[k] : bus[k][j] # m
      BY <1>2, <2>5, OneKind DEF InBus
    <3>2. \A s \in WorkerSenders : \A j \in DOMAIN queue[s] : queue[s][j] # m
      BY <1>2, <2>5, OneKind DEF InQueue
    <3>3. /\ \A k \in Lanes : InDisp(m, k) => k = l
          /\ \A t \in Senders : ~InJob(m, t)
      BY <1>2, <2>5, OneKind
    <3>4. ASSUME NEW q PROVE q \in Places(m) <=> q = <<"dispatcher", l, 1>>
      BY <2>5, <3>1, <3>2, <3>3, PlaceIs
    <3>5. Places(m) = {<<"dispatcher", l, 1>>}  BY <3>4
    <3>6. QED BY <3>5, FS_Singleton
  <2>6. ASSUME NEW s \in WorkerSenders, InQueue(m, s) PROVE Cardinality(Places(m)) = 1
    <3>1. PICK i \in DOMAIN queue[s] : queue[s][i] = m  BY <2>6 DEF InQueue
    <3>2. \A j \in DOMAIN queue[s] : queue[s][j] = m => j = i
      <4>1. \A j \in DOMAIN queue[s] : i \in Int /\ j \in Int  BY <2>2
      <4>2. QED BY <1>2, <2>3, <3>1, <4>1 DEF IInv, Increasing
    <3>3. \A t \in WorkerSenders : \A j \in DOMAIN queue[t] : queue[t][j] = m => t = s /\ j = i
      BY <1>2, <2>6, <3>2, OneKind DEF InQueue
    <3>4. \A k \in Lanes : \A j \in DOMAIN bus[k] : bus[k][j] # m
      BY <1>2, <2>6, OneKind DEF InBus
    <3>5. /\ \A k \in Lanes : ~InDisp(m, k)
          /\ \A t \in Senders : ~InJob(m, t)
      BY <1>2, <2>6, OneKind
    <3>6. ASSUME NEW q PROVE q \in Places(m) <=> q = <<"queue", s, i>>
      BY <3>1, <3>3, <3>4, <3>5, PlaceIs
    <3>7. Places(m) = {<<"queue", s, i>>}  BY <3>6
    <3>8. QED BY <3>7, FS_Singleton
  <2>7. ASSUME NEW s \in Senders, InJob(m, s) PROVE Cardinality(Places(m)) = 1
    <3>1. \A k \in Lanes : \A j \in DOMAIN bus[k] : bus[k][j] # m
      BY <1>2, <2>7, OneKind DEF InBus
    <3>2. \A t \in WorkerSenders : \A j \in DOMAIN queue[t] : queue[t][j] # m
      BY <1>2, <2>7, OneKind DEF InQueue
    <3>3. /\ \A k \in Lanes : ~InDisp(m, k)
          /\ \A t \in Senders : InJob(m, t) => t = s
      BY <1>2, <2>7, OneKind
    <3>4. ASSUME NEW q PROVE q \in Places(m) <=> q = <<"sender", s, 1>>
      BY <2>7, <3>1, <3>2, <3>3, PlaceIs
    <3>5. Places(m) = {<<"sender", s, 1>>}  BY <3>4
    <3>6. QED BY <3>5, FS_Singleton
  <2>8. QED BY <2>1, <2>4, <2>5, <2>6, <2>7 DEF Somewhere
<1>3. Typed /\ IInv => OnePlace
  BY <1>1, <1>2 DEF OnePlace, Live
<1>4. QED BY <1>3, InvCorrect, PTL
=============================================================================
