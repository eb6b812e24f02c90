----------------------------- MODULE CronService ------------------------------
(***************************************************************************)
(* The cron service: jobs in memory and in a file, a loop that sleeps      *)
(* until the next one is due and runs the due ones outside the lock, and   *)
(* the tool and the command line, which edit the jobs.                     *)
(*                                                                         *)
(* A configuration reload stops the service and makes a new one on the     *)
(* same file.  A job of the old one may be running then, and turns that    *)
(* began before keep the old tool, so that the old service may go on       *)
(* writing the file: services are numbered, and the last is the current    *)
(* one.  The command line makes a service of its own in its own process.   *)
(*                                                                         *)
(* Time is relative.  at[j] is how far ahead the time of a one-shot job    *)
(* still is, 0 once it has passed; the next run of a job and the timer of  *)
(* a loop are counted down likewise.  The file's next runs are left out:   *)
(* Start computes those of the enabled jobs anew, and EnableJob that of a  *)
(* disabled one.  Saving is taken to succeed (WriteFileAtomic).            *)
(***************************************************************************)
EXTENDS Integers

CONSTANTS
  NumJobs,     \* the jobs are 1..NumJobs, added in this order
  OneShot,     \* the jobs of kind "at"; the others recur ("every", "cron")
  Commands,    \* the jobs with a command, if the tool adds them: added, then updated
  Period,      \* the period of the recurring jobs
  Ahead,       \* how far ahead a one-shot job is scheduled
  Hour,        \* how long the loop sleeps when nothing is scheduled
  NumServices, \* bound on the services made, by starts and by reloads
  MaxEdits     \* bound on removing, enabling and commands of the command line

Jobs == 1 .. NumJobs
Services == 1 .. NumServices
None == -1

ASSUME CronAssumption ==
  /\ NumJobs \in Nat
  /\ OneShot \subseteq Jobs /\ Commands \subseteq Jobs
  /\ Period \in Nat \ {0} /\ Ahead \in Nat \ {0} /\ Hour \in Nat \ {0}
  /\ NumServices \in Nat /\ MaxEdits \in Nat

VARIABLES
  file,    \* the store file: which jobs it holds, enabled or not
  store,   \* cs.store of each service, with next runs
  running, \* cs.running
  loop,    \* where the loop of each service is
  wake,    \* the timer of each loop
  due,     \* dueJobIDs of each loop from the one being executed on, in the order of the jobs
  first,   \* the first service of this process
  made,    \* services made so far; the last is the current one
  at,      \* how far ahead each one-shot job is
  added,   \* jobs added so far
  copy,    \* a job the tool has added and not yet updated: where, and its next run
  runs,    \* executions of each one-shot job
  cli,     \* what a command of the command line has loaded, if there is one
  edits,   \* edits and commands so far
  removed, \* jobs whose removal was saved
  foreign  \* someone other than the current service has written the file

loopVars == <<running, loop, wake, due>>
procVars == <<first, made>>
toolVars == <<added, copy, edits, removed>>
vars == <<file, store, loopVars, procVars, at, toolVars, runs, cli, foreign>>

Absent == [in |-> FALSE, on |-> FALSE, next |-> None]
NoCopy == [service |-> 0, next |-> None]
NoFile == [j \in Jobs |-> [in |-> FALSE, on |-> FALSE]]
Saved(st) == [j \in Jobs |-> [in |-> st[j].in, on |-> st[j].on]]

Init ==
  /\ file = NoFile
  /\ store = [s \in Services |-> [j \in Jobs |-> Absent]]
  /\ running = [s \in Services |-> FALSE]
  /\ loop = [s \in Services |-> "off"]
  /\ wake = [s \in Services |-> 0]
  /\ due = [s \in Services |-> {}]
  /\ first = 1
  /\ made = 0
  /\ at = [j \in Jobs |-> Ahead]
  /\ added = 0
  /\ copy = [j \in Jobs |-> NoCopy]
  /\ runs = [j \in Jobs |-> 0]
  /\ cli = {}
  /\ edits = 0
  /\ removed = {}
  /\ foreign = FALSE

\* The services of this process.
Live == first .. made

\* (mutant of ComputeNextRun) A time that has just come is still ahead.
ComputeNextRunInclusive(j) == IF j \in OneShot THEN at[j] ELSE Period

\* computeNextRun.
ComputeNextRun(j) ==
  IF j \in OneShot THEN (IF at[j] > 0 THEN at[j] ELSE None) ELSE Period

\* Every operation saves the whole store of its service.
Save(s, st) ==
  /\ store' = [store EXCEPT ![s] = st]
  /\ file' = Saved(st)
  /\ foreign' = (foreign \/ s # made)

----------------------------------------------------------------------------
\* Starting, stopping, crashing

\* NewCronService and Start, once the service before was stopped.
Start ==
  LET s == made + 1
  IN  /\ made < NumServices
      /\ \A r \in Live : ~running[r]
      /\ made' = s
      /\ store' = [store EXCEPT ![s] =
           [j \in Jobs |-> [in |-> file[j].in, on |-> file[j].on,
                            next |-> IF file[j].on THEN ComputeNextRun(j) ELSE None]]]
      /\ running' = [running EXCEPT ![s] = TRUE]
      /\ loop' = [loop EXCEPT ![s] = "plan"]
      /\ UNCHANGED <<file, wake, due, first, at, toolVars, runs, cli, foreign>>

\* A reload stops the service.  Its loop may be anywhere.
Stop ==
  /\ made \in Live /\ running[made]
  /\ running' = [running EXCEPT ![made] = FALSE]
  /\ UNCHANGED <<file, store, loop, wake, due, procVars, at, toolVars, runs, cli, foreign>>

\* The process ends, in whatever it was doing.
Crash ==
  /\ Live # {}
  /\ first' = made + 1
  /\ store' = [s \in Services |-> [j \in Jobs |-> Absent]]
  /\ wake' = [s \in Services |-> 0]
  /\ running' = [s \in Services |-> FALSE]
  /\ loop' = [s \in Services |-> "off"]
  /\ due' = [s \in Services |-> {}]
  /\ copy' = [j \in Jobs |-> NoCopy]
  /\ UNCHANGED <<file, made, at, added, edits, removed, runs, cli, foreign>>

----------------------------------------------------------------------------
\* The loop

Scheduled(s) == {store[s][j].next : j \in {k \in Jobs : store[s][k].on}} \ {None}

\* (mutant of NextWake) Without a job the loop waits to be woken, and only that.
NextWakeNever(s) ==
  IF Scheduled(s) = {} THEN None
  ELSE CHOOSE n \in Scheduled(s) : \A m \in Scheduled(s) : n <= m

\* getNextWakeMS, and an hour when there is none.
NextWake(s) ==
  IF Scheduled(s) = {} THEN Hour
  ELSE CHOOSE n \in Scheduled(s) : \A m \in Scheduled(s) : n <= m

\* The lock is released before the loop selects: a change in between is unseen.
Plan(s) ==
  /\ loop[s] = "plan"
  /\ wake' = [wake EXCEPT ![s] = NextWake(s)]
  /\ loop' = [loop EXCEPT ![s] = "armed"]
  /\ UNCHANGED <<file, store, running, due, procVars, at, toolVars, runs, cli, foreign>>

Select(s) ==
  /\ loop[s] = "armed"
  /\ loop' = [loop EXCEPT ![s] = "select"]
  /\ UNCHANGED <<file, store, running, wake, due, procVars, at, toolVars, runs, cli, foreign>>

\* Both may be ready; select takes either.
Wakes(s) ==
  /\ loop[s] = "select"
  /\ \/ wake[s] = 0 /\ loop' = [loop EXCEPT ![s] = "check"]
     \/ ~running[s] /\ loop' = [loop EXCEPT ![s] = "off"]
  /\ wake' = [wake EXCEPT ![s] = 0]
  /\ UNCHANGED <<file, store, running, due, procVars, at, toolVars, runs, cli, foreign>>

\* notify: the channel has no buffer, and only a loop in select receives.
Notify(s) ==
  IF loop[s] = "select"
  THEN loop' = [loop EXCEPT ![s] = "plan"] /\ wake' = [wake EXCEPT ![s] = 0]
  ELSE UNCHANGED <<loop, wake>>

IsDue(s, j) == store[s][j].on /\ store[s][j].next = 0

\* checkJobs collects the due jobs and takes their next runs away.
CheckJobs(s) ==
  /\ loop[s] = "check"
  /\ IF running[s]
     THEN /\ due' = [due EXCEPT ![s] = {j \in Jobs : IsDue(s, j)}]
          /\ Save(s, [j \in Jobs |-> IF IsDue(s, j)
                                     THEN [store[s][j] EXCEPT !.next = None]
                                     ELSE store[s][j]])
     ELSE UNCHANGED <<due, store, file, foreign>>
  /\ loop' = [loop EXCEPT ![s] = "exec"]
  /\ UNCHANGED <<running, wake, procVars, at, toolVars, runs, cli>>

\* The list is done.
Checked(s) ==
  /\ loop[s] = "exec" /\ due[s] = {}
  /\ loop' = [loop EXCEPT ![s] = "plan"]
  /\ UNCHANGED <<file, store, running, wake, due, procVars, at, toolVars, runs, cli, foreign>>

\* The list is worked off in its order.
IsFirst(s, j) == j \in due[s] /\ \A k \in due[s] : j <= k

\* executeJobByID: a job removed meanwhile is skipped; one that was disabled is
\* executed all the same.  The handler gets a copy.
Execute(s) ==
  /\ loop[s] = "exec"
  /\ \E j \in Jobs :
       /\ IsFirst(s, j)
       /\ IF store[s][j].in
          THEN /\ loop' = [loop EXCEPT ![s] = "running"]
               /\ runs' = IF j \in OneShot THEN [runs EXCEPT ![j] = @ + 1] ELSE runs
               /\ UNCHANGED due
          ELSE /\ due' = [due EXCEPT ![s] = @ \ {j}]
               /\ UNCHANGED <<loop, runs>>
  /\ UNCHANGED <<file, store, running, wake, procVars, at, toolVars, cli, foreign>>

Loops(s) ==
  /\ s \in Live
  /\ Plan(s) \/ Select(s) \/ Wakes(s) \/ CheckJobs(s) \/ Checked(s) \/ Execute(s)

\* (mutant of Executed) The copy is written back, although the job is gone.
ExecutedCopy(s) ==
  /\ s \in Live /\ loop[s] = "running"
  /\ \E j \in Jobs :
       /\ IsFirst(s, j)
       /\ IF j \in OneShot
          THEN Save(s, [store[s] EXCEPT ![j] = Absent])
          ELSE Save(s, [store[s] EXCEPT ![j] = [in |-> TRUE, on |-> TRUE, next |-> Period]])
       /\ due' = [due EXCEPT ![s] = @ \ {j}]
  /\ loop' = [loop EXCEPT ![s] = "exec"]
  /\ UNCHANGED <<running, wake, procVars, at, toolVars, runs, cli>>

\* (mutant of Executed) A recurring job is not scheduled again.
ExecutedOnce(s) ==
  /\ s \in Live /\ loop[s] = "running"
  /\ \E j \in Jobs :
       /\ IsFirst(s, j)
       /\ IF store[s][j].in /\ j \in OneShot
          THEN Save(s, [store[s] EXCEPT ![j] = Absent])
          ELSE UNCHANGED <<file, store, foreign>>
       /\ due' = [due EXCEPT ![s] = @ \ {j}]
  /\ loop' = [loop EXCEPT ![s] = "exec"]
  /\ UNCHANGED <<running, wake, procVars, at, toolVars, runs, cli>>

\* The handler returns: if the job is still there, a one-shot is removed and a
\* recurring one gets its next run, enabled or not.
Executed(s) ==
  /\ s \in Live /\ loop[s] = "running"
  /\ \E j \in Jobs :
       /\ IsFirst(s, j)
       /\ IF ~store[s][j].in
          THEN UNCHANGED <<file, store, foreign>>
          ELSE IF j \in OneShot
          THEN Save(s, [store[s] EXCEPT ![j] = Absent])
          ELSE Save(s, [store[s] EXCEPT ![j].next = ComputeNextRun(j)])
       /\ due' = [due EXCEPT ![s] = @ \ {j}]
  /\ loop' = [loop EXCEPT ![s] = "exec"]
  /\ UNCHANGED <<running, wake, procVars, at, toolVars, runs, cli>>

----------------------------------------------------------------------------
\* The tool, of the current or of an older service

\* AddJob.
Add(s) ==
  LET j == added + 1
  IN  /\ added < NumJobs
      /\ added' = j
      /\ Save(s, [store[s] EXCEPT ![j] =
                    [in |-> TRUE, on |-> TRUE, next |-> ComputeNextRun(j)]])
      /\ copy' = IF j \in Commands
                 THEN [copy EXCEPT ![j] = [service |-> s, next |-> ComputeNextRun(j)]]
                 ELSE copy
      /\ Notify(s)
      /\ UNCHANGED <<running, due, procVars, at, edits, removed, runs, cli>>

\* UpdateJob writes the tool's copy over the job, whatever happened to it.
Update(s, j) ==
  /\ copy[j].service = s
  /\ copy' = [copy EXCEPT ![j] = NoCopy]
  /\ IF store[s][j].in
     THEN /\ Save(s, [store[s] EXCEPT ![j] = [in |-> TRUE, on |-> TRUE, next |-> copy[j].next]])
          /\ Notify(s)
     ELSE UNCHANGED <<store, file, foreign, loop, wake>>
  /\ UNCHANGED <<running, due, procVars, at, added, edits, removed, runs, cli>>

\* RemoveJob.
Remove(s, j) ==
  /\ edits < MaxEdits /\ store[s][j].in
  /\ edits' = edits + 1
  /\ Save(s, [store[s] EXCEPT ![j] = Absent])
  /\ removed' = removed \cup {j}
  /\ Notify(s)
  /\ UNCHANGED <<running, due, procVars, at, added, copy, runs, cli>>

\* EnableJob.
Enable(s, j, on) ==
  /\ edits < MaxEdits /\ store[s][j].in
  /\ edits' = edits + 1
  /\ Save(s, [store[s] EXCEPT ![j] =
                [in |-> TRUE, on |-> on, next |-> IF on THEN ComputeNextRun(j) ELSE None]])
  /\ Notify(s)
  /\ UNCHANGED <<running, due, procVars, at, added, copy, removed, runs, cli>>

----------------------------------------------------------------------------
\* The command line loads the file, edits what it has loaded and saves it.

CliLoad ==
  /\ edits < MaxEdits /\ cli = {}
  /\ edits' = edits + 1
  /\ cli' = {file}
  /\ UNCHANGED <<file, store, loopVars, procVars, at, added, copy, removed, runs, foreign>>

CliSave(j, in, on) ==
  /\ \E loaded \in cli :
       /\ loaded[j].in
       /\ file' = [loaded EXCEPT ![j] = [in |-> in, on |-> in /\ on]]
  /\ cli' = {}
  /\ foreign' = TRUE
  /\ UNCHANGED <<store, loopVars, procVars, at, toolVars, runs>>

\* The command line adds recurring jobs only, and does not update them.
CliAdd ==
  LET j == added + 1
  IN  /\ added < NumJobs /\ j \notin OneShot
      /\ \E loaded \in cli : file' = [loaded EXCEPT ![j] = [in |-> TRUE, on |-> TRUE]]
      /\ added' = j
      /\ cli' = {}
      /\ foreign' = TRUE
      /\ UNCHANGED <<store, loopVars, procVars, at, copy, edits, removed, runs>>

----------------------------------------------------------------------------
Down(n) == IF n > 0 THEN n - 1 ELSE n

Tick ==
  /\ at' = [j \in Jobs |-> IF j \in OneShot /\ j <= added THEN Down(at[j]) ELSE at[j]]
  /\ store' = [s \in Services |-> [j \in Jobs |->
                 [store[s][j] EXCEPT !.next = Down(@)]]]
  /\ wake' = [s \in Services |-> Down(wake[s])]
  /\ copy' = [j \in Jobs |-> [copy[j] EXCEPT !.next = Down(@)]]
  /\ UNCHANGED <<file, running, loop, due, procVars, added, edits, removed, runs,
                 cli, foreign>>

Edit(s) ==
  /\ s \in Live
  /\ \/ Add(s)
     \/ \E j \in Jobs : Update(s, j) \/ Remove(s, j) \/ (\E on \in BOOLEAN : Enable(s, j, on))

Next ==
  \/ Start \/ Stop \/ Crash
  \/ \E s \in Services : Loops(s) \/ Executed(s) \/ Edit(s)
  \/ CliLoad \/ CliAdd
  \/ \E j \in Jobs, in \in BOOLEAN, on \in BOOLEAN : CliSave(j, in, on)
  \/ Tick

Spec == Init /\ [][Next]_vars

\* The loops run on, handlers return, and time passes.
FairSpec ==
  /\ Spec
  /\ \A s \in Services : WF_vars(Loops(s) \/ Executed(s))
  /\ WF_vars(Tick)

----------------------------------------------------------------------------
\* Properties

JobStates == [in : BOOLEAN, on : BOOLEAN, next : Nat \cup {None}]

\* The timers are left out.
TypeOK ==
  /\ file \in [Jobs -> [in : BOOLEAN, on : BOOLEAN]]
  /\ store \in [Services -> [Jobs -> JobStates]]
  /\ running \in [Services -> BOOLEAN]
  /\ loop \in [Services -> {"off", "plan", "armed", "select", "check", "exec", "running"}]
  /\ due \in [Services -> SUBSET Jobs]
  /\ first \in Nat \ {0} /\ made \in 0 .. NumServices
  /\ at \in [Jobs -> Nat]
  /\ added \in 0 .. NumJobs
  /\ copy \in [Jobs -> [service : 0 .. made, next : Nat \cup {None}]]
  /\ runs \in [Jobs -> Nat]
  /\ cli \in SUBSET [Jobs -> [in : BOOLEAN, on : BOOLEAN]]
  /\ removed \in SUBSET (1 .. added)
  /\ foreign \in BOOLEAN

\* A one-shot job is executed at most once: not again after a crash, a reload in
\* the middle of it, a stale update by the tool or the command line, or when a
\* second service runs on the same file.
AtMostOnce == \A j \in OneShot : runs[j] <= 1

\* An enabled recurring job of the running service has a next run or is in the
\* hands of its loop: no order of edits and executions leaves it without one.
NeverForgotten ==
  \A j \in Jobs \ OneShot :
    (made \in Live /\ running[made] /\ store[made][j].in /\ store[made][j].on)
      => (store[made][j].next # None \/ j \in due[made])

\* As long as no one else writes the file, a removed job does not come back, not
\* with the result of an execution or an update that was under way either.
RemovedStays == ~foreign => \A j \in removed : ~file[j].in

\* An enabled recurring job of the running service is executed again and again,
\* although a notification may be lost, unless it is edited or the service ends.
Wanted(j) ==
  /\ made \in Live /\ running[made]
  /\ store[made][j].in /\ store[made][j].on
RecurringRuns ==
  \A j \in Jobs \ OneShot :
    Wanted(j) ~> (~Wanted(j) \/ (loop[made] = "running" /\ IsFirst(made, j)))
=============================================================================
