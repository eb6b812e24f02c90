--------------------------- MODULE CronServiceProofs ---------------------------
(***************************************************************************)
(* The three safety properties of CronService, for every number of jobs,   *)
(* services and edits.                                                     *)
(*                                                                         *)
(* The argument for one-shot jobs is this.  Every next run of one in a     *)
(* store, and the one in the tool's copy, is the time the job still is     *)
(* ahead, or none.  So a service that comes after the job fell due         *)
(* computes none (Start, EnableJob), and the only way back to a next run   *)
(* in the past is the tool's stale copy; that belongs to the service the   *)
(* job was added to, no older one knows the job, and once its loop has     *)
(* executed the job UpdateJob no longer finds it.                          *)
(***************************************************************************)
EXTENDS CronService, TLAPS

\* Only the current service runs, and the later ones are untouched.
Later ==
  /\ first <= made + 1
  /\ \A s \in Services : running[s] => s = made /\ first <= s
  /\ \A s \in Services : s > made => due[s] = {} /\ loop[s] = "off"
  /\ \A s \in Services, j \in Jobs : s > made => store[s][j] = Absent
  /\ \A s \in Services : loop[s] \notin {"exec", "running"} => due[s] = {}

\* A job nobody has added is nowhere.
Fresh ==
  /\ \A j \in Jobs : j > added => ~file[j].in
  /\ \A loaded \in cli, j \in Jobs : j > added => ~loaded[j].in
  /\ \A s \in Services, j \in Jobs : j > added => store[s][j] = Absent /\ j \notin due[s]
  /\ \A j \in Jobs : j > added => copy[j] = NoCopy /\ at[j] = Ahead /\ runs[j] = 0

\* Only a job that is there is enabled or has a next run.
OnlyIn ==
  /\ \A j \in Jobs : file[j].on => file[j].in
  /\ \A loaded \in cli, j \in Jobs : loaded[j].on => loaded[j].in
  /\ \A s \in Services, j \in Jobs : store[s][j].on => store[s][j].in
  /\ \A s \in Services, j \in Jobs : ~store[s][j].in => store[s][j].next = None

\* The tool's copy has a next run, and only the service the job was added to and
\* later ones know the job.
CopyInv ==
  /\ \A j \in Jobs : copy[j].service # 0 => copy[j].next # None
  /\ \A j \in OneShot : copy[j].service # 0 => copy[j].next = at[j]
  /\ \A j \in Jobs, s \in Services :
       s < copy[j].service => store[s][j] = Absent /\ j \notin due[s]

\* Next runs of a one-shot job agree with its time.
InStep == \A j \in OneShot, s \in Services : store[s][j].next \in {None, at[j]}

\* The job is the one that the service's loop is executing.
BeingRun(s, j) == loop[s] = "running" /\ IsFirst(s, j)

\* A one-shot job that is due somewhere is due there only, was not executed before,
\* and the running service, if that is another one, will not find it due.
DueInv ==
  /\ \A j \in OneShot, s \in Services : j \in due[s] => at[j] = 0
  /\ \A j \in OneShot, s \in Services : j \in due[s] /\ ~BeingRun(s, j) => runs[j] = 0
  /\ \A j \in OneShot, r, s \in Services : j \in due[s] /\ j \in due[r] => r = s
  /\ \A j \in OneShot, r, s \in Services :
       j \in due[s] /\ running[r] => r = s \/ store[r][j].next = None
  /\ \A j \in OneShot, r, s \in Services :
       j \in due[s] /\ running[r] => r = s \/ copy[j].service # r

\* A one-shot job that was executed is being executed by the running service, or
\* that service will not find it due again.
RunInv ==
  /\ \A j \in OneShot : runs[j] <= 1
  /\ \A j \in OneShot : runs[j] = 1 => at[j] = 0
  /\ \A j \in OneShot, r \in Services : runs[j] = 1 /\ running[r] =>
       BeingRun(r, j) \/ store[r][j].next = None
  /\ \A j \in OneShot, r \in Services : runs[j] = 1 /\ running[r] /\ copy[j].service = r =>
       BeingRun(r, j) \/ ~store[r][j].in

\* The recurring jobs of every service.
Kept ==
  \A j \in Jobs \ OneShot, s \in Services :
    store[s][j].on => store[s][j].next # None \/ j \in due[s]

\* A removed job is neither in the file nor in the current service.
Gone ==
  ~foreign => \A j \in removed :
    /\ ~file[j].in
    /\ \A s \in Services : s = made => ~store[s][j].in

CronInv ==
  TypeOK /\ Later /\ Fresh /\ OnlyIn /\ CopyInv /\ InStep /\ DueInv /\ RunInv /\ Kept /\ Gone

USE CronAssumption

----------------------------------------------------------------------------
\* What the helpers do

\* One-shot jobs are jobs, and services count from 1.
LEMMA Ranges ==
  /\ \A j \in OneShot : j \in Jobs
  /\ \A r \in Services : r # 0
BY DEF Jobs, Services

\* The numbers of the state.
LEMMA Numbers ==
  ASSUME TypeOK
  PROVE  /\ first \in Nat /\ made \in Nat /\ added \in Nat
         /\ \A j \in Jobs : /\ at[j] \in Nat /\ runs[j] \in Nat
                           /\ copy[j].service \in 0 .. made
         /\ \A j \in removed : j \in Jobs /\ j <= added
BY DEF TypeOK, Jobs

\* Saving keeps the types.
LEMMA SaveTypes ==
  ASSUME TypeOK, NEW s \in Services, NEW st \in [Jobs -> JobStates], Save(s, st)
  PROVE  /\ store' \in [Services -> [Jobs -> JobStates]]
         /\ file' \in [Jobs -> [in : BOOLEAN, on : BOOLEAN]]
         /\ foreign' \in BOOLEAN
<1>1. file' \in [Jobs -> [in : BOOLEAN, on : BOOLEAN]]
  BY DEF Save, Saved, JobStates
<1> QED BY <1>1 DEF TypeOK, Save, Saved

\* Saving replaces the store of one service, and the file agrees with it.
LEMMA SaveFacts ==
  ASSUME TypeOK, NEW s \in Services, NEW st, Save(s, st)
  PROVE  /\ store'[s] = st
         /\ \A t \in Services : t # s => store'[t] = store[t]
         /\ \A j \in Jobs : (file'[j].in <=> st[j].in) /\ (file'[j].on <=> st[j].on)
         /\ ~foreign' => ~foreign /\ s = made
BY DEF TypeOK, Save, Saved

\* One job of a store is changed and the store saved.
Edited(s, i, new) ==
  /\ store'[s][i] = new
  /\ \A t \in Services, j \in Jobs : store'[t][j] = store[t][j] \/ (t = s /\ j = i)
  /\ \A j \in Jobs : (file'[j].in <=> store'[s][j].in) /\ (file'[j].on <=> store'[s][j].on)
  /\ ~foreign' => ~foreign /\ s = made

\* Saving a store with one job changed.
LEMMA EditFacts ==
  ASSUME TypeOK, NEW s \in Services, NEW i \in Jobs, NEW new \in JobStates,
         Save(s, [store[s] EXCEPT ![i] = new])
  PROVE  Edited(s, i, new)
<1> DEFINE st == [store[s] EXCEPT ![i] = new]
<1>1. st[i] = new /\ \A j \in Jobs : j # i => st[j] = store[s][j]
  BY DEF TypeOK
<1>2. Save(s, st)
  OBVIOUS
<1> HIDE DEF st
<1>3. /\ store'[s] = st
      /\ \A t \in Services : t # s => store'[t] = store[t]
      /\ \A j \in Jobs : (file'[j].in <=> st[j].in) /\ (file'[j].on <=> st[j].on)
      /\ ~foreign' => ~foreign /\ s = made
  BY <1>2, SaveFacts
<1> QED BY <1>1, <1>3 DEF Edited

\* It keeps the types, too.
LEMMA EditTypes ==
  ASSUME TypeOK, NEW s \in Services, NEW i \in Jobs, NEW new \in JobStates,
         Save(s, [store[s] EXCEPT ![i] = new])
  PROVE  /\ store' \in [Services -> [Jobs -> JobStates]]
         /\ file' \in [Jobs -> [in : BOOLEAN, on : BOOLEAN]]
         /\ foreign' \in BOOLEAN
<1>1. [store[s] EXCEPT ![i] = new] \in [Jobs -> JobStates]
  BY DEF TypeOK
<1> QED BY <1>1, SaveTypes

\* A notification moves a selecting loop and no other.
LEMMA NotifyFacts ==
  ASSUME TypeOK, NEW s \in Services, Notify(s)
  PROVE  /\ loop' \in [Services -> {"off", "plan", "armed", "select", "check", "exec", "running"}]
         /\ \A t \in Services :
              loop'[t] = loop[t] \/ (loop[t] = "select" /\ loop'[t] = "plan")
BY DEF TypeOK, Notify

\* What computeNextRun returns.
LEMMA NextRunFacts ==
  ASSUME TypeOK, NEW j \in Jobs
  PROVE  /\ ComputeNextRun(j) \in Nat \cup {None}
         /\ j \in OneShot =>
              /\ ComputeNextRun(j) \in {None, at[j]}
              /\ at[j] = 0 => ComputeNextRun(j) = None
         /\ j \notin OneShot => ComputeNextRun(j) # None
         /\ at[j] > 0 => ComputeNextRun(j) # None
BY DEF TypeOK, ComputeNextRun, None

----------------------------------------------------------------------------
\* The edits

\* RemoveJob: nothing is left of the job in the store, wherever else it is
\* under way.
LEMMA RemoveStep ==
  ASSUME CronInv, NEW s \in Services, s \in Live, NEW i \in Jobs, Remove(s, i)
  PROVE  CronInv'
<1> USE DEF None, Absent, NoCopy, Jobs, Services
<1>a. TypeOK /\ Later /\ Fresh /\ OnlyIn /\ CopyInv /\ InStep /\ DueInv /\ RunInv /\ Kept /\ Gone
  BY DEF CronInv
<1>n. /\ first \in Nat /\ made \in Nat /\ added \in Nat
      /\ \A j \in Jobs : /\ at[j] \in Nat /\ runs[j] \in Nat
                        /\ copy[j].service \in 0 .. made
      /\ \A j \in removed : j \in Jobs /\ j <= added
  BY <1>a, Numbers
<1> DEFINE new == Absent
<1>b. new \in JobStates
  BY <1>a, NextRunFacts DEF JobStates, TypeOK
<1>c. Save(s, [store[s] EXCEPT ![i] = new]) /\ Notify(s)
  BY DEF Remove
<1>d. Edited(s, i, new)
  BY <1>a, <1>b, <1>c, EditFacts
<1>f4. removed' = removed \cup {i} /\ store[s][i].in /\ i <= added
  BY <1>a, <1>n DEF Remove, Fresh
<1>t3. removed' \in SUBSET (1 .. added')
  BY <1>a, <1>n, <1>f4, added' = added DEF Remove, TypeOK
<1>f5. new = Absent /\ ~new.on /\ ~new.in /\ new.next = None
  OBVIOUS
<1> HIDE DEF new
<1>f1. /\ store'[s][i] = new
       /\ \A t \in Services, j \in Jobs : store'[t][j] = store[t][j] \/ (t = s /\ j = i)
       /\ \A j \in Jobs : (file'[j].in <=> store'[s][j].in) /\ (file'[j].on <=> store'[s][j].on)
       /\ ~foreign' => ~foreign /\ s = made
  BY <1>d DEF Edited
<1>f2. \A t \in Services :
        loop'[t] = loop[t] \/ (loop[t] = "select" /\ loop'[t] = "plan")
  BY <1>a, <1>c, NotifyFacts
<1>f3. UNCHANGED <<running, due, first, made, at, added, copy, runs, cli>> /\ s <= made /\ s >= 1
  BY <1>n DEF Remove, procVars, Live
<1>f6. \A t \in Services, j \in Jobs : BeingRun(t, j)' <=> BeingRun(t, j)
  BY <1>f2, <1>f3 DEF BeingRun, IsFirst
<1>t1. /\ store' \in [Services -> [Jobs -> JobStates]]
       /\ file' \in [Jobs -> [in : BOOLEAN, on : BOOLEAN]]
       /\ foreign' \in BOOLEAN
  BY <1>a, <1>b, <1>c, EditTypes
<1>t2. loop' \in [Services -> {"off", "plan", "armed", "select", "check", "exec", "running"}]
  BY <1>a, <1>c, NotifyFacts
<1>1. TypeOK'
    BY <1>a, <1>n, <1>t3, <1>t1, <1>t2, <1>f4, <1>f5, <1>f1, <1>f2, <1>f3, <1>f6 DEF
     TypeOK, Fresh
<1>2. Later'
  BY <1>a, <1>n, <1>f4, <1>f5, <1>f1, <1>f2, <1>f3, <1>f6 DEF Later
<1>3. Fresh'
  BY <1>a, <1>n, <1>f4, <1>f5, <1>f1, <1>f2, <1>f3, <1>f6 DEF Later, Fresh
<1>4. OnlyIn'
  BY <1>a, <1>n, <1>f4, <1>f5, <1>f1, <1>f2, <1>f3, <1>f6 DEF OnlyIn
<1>5. CopyInv'
  BY <1>a, <1>n, <1>f4, <1>f5, <1>f1, <1>f2, <1>f3, <1>f6 DEF Later, Fresh, CopyInv
<1>6. InStep'
  BY <1>a, <1>n, <1>f4, <1>f5, <1>f1, <1>f2, <1>f3, <1>f6 DEF InStep
<1>7. DueInv'
    BY <1>a, <1>n, <1>f4, <1>f5, <1>f1, <1>f2, <1>f3, <1>f6 DEF Later, Fresh, OnlyIn,
     CopyInv, InStep, DueInv, RunInv
<1>8. RunInv'
    BY <1>a, <1>n, <1>f4, <1>f5, <1>f1, <1>f2, <1>f3, <1>f6 DEF Later, Fresh, OnlyIn,
     CopyInv, InStep, DueInv, RunInv
<1>9. Kept'
    BY <1>a, <1>n, <1>f4, <1>f5, <1>f1, <1>f2, <1>f3, <1>f6 DEF Later, Fresh, OnlyIn,
     CopyInv, Kept
<1>10. Gone'
  BY <1>a, <1>n, <1>f4, <1>f5, <1>f1, <1>f2, <1>f3, <1>f6 DEF Later, Fresh, Gone
<1> QED BY <1>1, <1>2, <1>3, <1>4, <1>5, <1>6, <1>7, <1>8, <1>9, <1>10 DEF CronInv

\* EnableJob: a one-shot whose time has come gets no next run.
LEMMA EnableStep ==
  ASSUME CronInv, NEW s \in Services, s \in Live, NEW i \in Jobs, NEW on \in BOOLEAN,
         Enable(s, i, on)
  PROVE  CronInv'
<1> USE DEF None, Absent, NoCopy, Jobs, Services
<1>a. TypeOK /\ Later /\ Fresh /\ OnlyIn /\ CopyInv /\ InStep /\ DueInv /\ RunInv /\ Kept /\ Gone
  BY DEF CronInv
<1>n. /\ first \in Nat /\ made \in Nat /\ added \in Nat
      /\ \A j \in Jobs : /\ at[j] \in Nat /\ runs[j] \in Nat
                        /\ copy[j].service \in 0 .. made
      /\ \A j \in removed : j \in Jobs /\ j <= added
  BY <1>a, Numbers
<1> DEFINE new == [in |-> TRUE, on |-> on, next |-> IF on THEN ComputeNextRun(i) ELSE None]
<1>b. new \in JobStates
  BY <1>a, NextRunFacts DEF JobStates, TypeOK
<1>c. Save(s, [store[s] EXCEPT ![i] = new]) /\ Notify(s)
  BY DEF Enable
<1>d. Edited(s, i, new)
  BY <1>a, <1>b, <1>c, EditFacts
<1>f4. store[s][i].in
  BY DEF Enable
<1>k. store[s][i] # Absent
  BY <1>f4
<1>e. new.in /\ (new.on <=> on) /\ (on => new.next = ComputeNextRun(i)) /\ (~on => new.next = None)
  OBVIOUS
<1> HIDE DEF new
<1>h. /\ i \in OneShot => /\ ComputeNextRun(i) \in {None, at[i]}
                          /\ at[i] = 0 => ComputeNextRun(i) = None
      /\ i \notin OneShot => ComputeNextRun(i) # None
  BY <1>a, <1>n DEF ComputeNextRun
<1>f5. /\ i \in OneShot => new.next \in {None, at[i]} /\ (at[i] = 0 => new.next = None)
       /\ i \notin OneShot /\ on => new.next # None
       /\ new.in /\ (new.on <=> on)
  BY <1>e, <1>h
<1> HIDE DEF new
<1>f1. /\ store'[s][i] = new
       /\ \A t \in Services, j \in Jobs : store'[t][j] = store[t][j] \/ (t = s /\ j = i)
       /\ \A j \in Jobs : (file'[j].in <=> store'[s][j].in) /\ (file'[j].on <=> store'[s][j].on)
       /\ ~foreign' => ~foreign /\ s = made
  BY <1>d DEF Edited
<1>f2. \A t \in Services :
        loop'[t] = loop[t] \/ (loop[t] = "select" /\ loop'[t] = "plan")
  BY <1>a, <1>c, NotifyFacts
<1>f3. UNCHANGED <<running, due, first, made, at, added, copy, removed, runs, cli>> /\ s <= made /\ s >= 1
  BY <1>n DEF Enable, procVars, Live
<1>f6. \A t \in Services, j \in Jobs : BeingRun(t, j)' <=> BeingRun(t, j)
  BY <1>f2, <1>f3 DEF BeingRun, IsFirst
<1>t1. /\ store' \in [Services -> [Jobs -> JobStates]]
       /\ file' \in [Jobs -> [in : BOOLEAN, on : BOOLEAN]]
       /\ foreign' \in BOOLEAN
  BY <1>a, <1>b, <1>c, EditTypes
<1>t2. loop' \in [Services -> {"off", "plan", "armed", "select", "check", "exec", "running"}]
  BY <1>a, <1>c, NotifyFacts
<1>1. TypeOK'
  BY <1>a, <1>n, <1>t1, <1>t2, <1>f4, <1>f5, <1>f1, <1>f2, <1>f3, <1>f6 DEF TypeOK, Fresh
<1>2. Later'
  BY <1>a, <1>n, <1>f4, <1>f5, <1>f1, <1>f2, <1>f3, <1>f6 DEF Later
<1>3. Fresh'
  <2>1. \A j \in Jobs : j > added' => ~file'[j].in
    BY <1>a, <1>n, <1>f4, <1>f5, <1>f1, <1>f2, <1>f3, <1>f6 DEF Fresh
  <2>2. ASSUME NEW t \in Services, NEW j \in Jobs, j > added'
        PROVE  store'[t][j] = Absent /\ j \notin due'[t]
    BY <2>2, <1>a, <1>n, <1>f4, <1>f5, <1>f1, <1>f2, <1>f3, <1>f6 DEF Fresh
  <2> QED BY <1>a, <1>f3, <2>1, <2>2 DEF Fresh
<1>4. OnlyIn'
  <2>1. /\ \A j \in Jobs : file'[j].on => file'[j].in
        /\ \A loaded \in cli', j \in Jobs : loaded[j].on => loaded[j].in
    BY <1>a, <1>n, <1>f4, <1>f5, <1>f1, <1>f2, <1>f3, <1>f6 DEF OnlyIn
  <2>2. ASSUME NEW t \in Services, NEW j \in Jobs
        PROVE  (store'[t][j].on => store'[t][j].in) /\ (~store'[t][j].in => store'[t][j].next = None)
    BY <1>a, <1>n, <1>f4, <1>f5, <1>f1, <1>f2, <1>f3, <1>f6 DEF OnlyIn
  <2> QED BY <2>1, <2>2 DEF OnlyIn
<1>5. CopyInv'
  BY <1>a, <1>n, <1>f4, <1>f5, <1>f1, <1>f2, <1>f3, <1>f6, <1>k DEF Later, Fresh, CopyInv
<1>6. InStep'
  BY <1>a, <1>n, <1>f4, <1>f5, <1>f1, <1>f2, <1>f3, <1>f6 DEF InStep
<1>7. DueInv'
    BY <1>a, <1>n, <1>f4, <1>f5, <1>f1, <1>f2, <1>f3, <1>f6 DEF Later, Fresh, OnlyIn,
     CopyInv, InStep, DueInv, RunInv
<1>8. RunInv'
    BY <1>a, <1>n, <1>f4, <1>f5, <1>f1, <1>f2, <1>f3, <1>f6 DEF Later, Fresh, OnlyIn,
     CopyInv, InStep, DueInv, RunInv
<1>9. Kept'
    BY <1>a, <1>n, <1>f4, <1>f5, <1>f1, <1>f2, <1>f3, <1>f6 DEF Later, Fresh, OnlyIn,
     CopyInv, Kept
<1>10. Gone'
  BY <1>a, <1>n, <1>f4, <1>f5, <1>f1, <1>f2, <1>f3, <1>f6 DEF Later, Fresh, Gone
<1> QED BY <1>1, <1>2, <1>3, <1>4, <1>5, <1>6, <1>7, <1>8, <1>9, <1>10 DEF CronInv

\* AddJob: nobody knew the job before.
LEMMA AddStep ==
  ASSUME CronInv, NEW s \in Services, s \in Live, NEW i \in Jobs, i = added + 1, Add(s)
  PROVE  CronInv'
<1> USE DEF None, Absent, NoCopy, Jobs, Services
<1>a. TypeOK /\ Later /\ Fresh /\ OnlyIn /\ CopyInv /\ InStep /\ DueInv /\ RunInv /\ Kept /\ Gone
  BY DEF CronInv
<1>n. /\ first \in Nat /\ made \in Nat /\ added \in Nat
      /\ \A j \in Jobs : /\ at[j] \in Nat /\ runs[j] \in Nat
                        /\ copy[j].service \in 0 .. made
      /\ \A j \in removed : j \in Jobs /\ j <= added
  BY <1>a, Numbers
<1> DEFINE new == [in |-> TRUE, on |-> TRUE, next |-> ComputeNextRun(i)]
<1>b. new \in JobStates
  BY <1>a, NextRunFacts DEF JobStates, TypeOK
<1>c. Save(s, [store[s] EXCEPT ![i] = new]) /\ Notify(s)
  BY DEF Add
<1>d. Edited(s, i, new)
  BY <1>a, <1>b, <1>c, EditFacts
<1>f4. added' = i /\ i = added + 1
  BY DEF Add
<1>f8. /\ \A j \in Jobs : j # i => copy'[j] = copy[j]
       /\ copy'[i] = copy[i] \/ (copy'[i].service = s /\ copy'[i].next = new.next)
  BY <1>a DEF Add, TypeOK
<1>k. [service |-> s, next |-> ComputeNextRun(i)] \in [service : 0 .. made, next : Nat \cup {None}]
  BY <1>a, <1>n DEF Live, ComputeNextRun
<1>t3. copy' \in [Jobs -> [service : 0 .. made, next : Nat \cup {None}]]
  BY <1>a, <1>k DEF Add, TypeOK
<1>t4. added' \in 0 .. NumJobs /\ removed \in SUBSET (1 .. added')
  BY <1>a, <1>n, <1>f4 DEF TypeOK
<1>f5. /\ at[i] = Ahead /\ Ahead > 0 /\ copy[i] = NoCopy /\ runs[i] = 0
       /\ \A t \in Services : store[t][i] = Absent /\ i \notin due[t]
  BY <1>a, <1>n DEF Fresh
<1>h. /\ i \in OneShot => ComputeNextRun(i) = at[i]
      /\ ComputeNextRun(i) # None
  BY <1>n, <1>f5 DEF ComputeNextRun
<1>e. new.in /\ new.on /\ new.next = ComputeNextRun(i)
  OBVIOUS
<1>f7. /\ i \in OneShot => new.next = at[i]
       /\ new.next # None /\ new.in /\ new.on
  BY <1>e, <1>h
<1> HIDE DEF new
<1>f1. /\ store'[s][i] = new
       /\ \A t \in Services, j \in Jobs : store'[t][j] = store[t][j] \/ (t = s /\ j = i)
       /\ \A j \in Jobs : (file'[j].in <=> store'[s][j].in) /\ (file'[j].on <=> store'[s][j].on)
       /\ ~foreign' => ~foreign /\ s = made
  BY <1>d DEF Edited
<1>f2. \A t \in Services :
        loop'[t] = loop[t] \/ (loop[t] = "select" /\ loop'[t] = "plan")
  BY <1>a, <1>c, NotifyFacts
<1>f3. UNCHANGED <<running, due, first, made, at, removed, runs, cli>> /\ s <= made /\ s >= 1
  BY <1>n DEF Add, procVars, Live
<1>f6. \A t \in Services, j \in Jobs : BeingRun(t, j)' <=> BeingRun(t, j)
  BY <1>f2, <1>f3 DEF BeingRun, IsFirst
<1>t1. /\ store' \in [Services -> [Jobs -> JobStates]]
       /\ file' \in [Jobs -> [in : BOOLEAN, on : BOOLEAN]]
       /\ foreign' \in BOOLEAN
  BY <1>a, <1>b, <1>c, EditTypes
<1>t2. loop' \in [Services -> {"off", "plan", "armed", "select", "check", "exec", "running"}]
  BY <1>a, <1>c, NotifyFacts
<1>1. TypeOK'
    BY <1>a, <1>n, <1>t3, <1>t4, <1>t1, <1>t2, <1>f4, <1>f8, <1>f5, <1>f7, <1>f1, <1>f2,
     <1>f3, <1>f6 DEF TypeOK, Fresh
<1>2. Later'
  BY <1>a, <1>n, <1>f1, <1>f2, <1>f3 DEF Later
<1>3. Fresh'
  BY <1>a, <1>n, <1>f4, <1>f8, <1>f5, <1>f7, <1>f1, <1>f2, <1>f3, <1>f6 DEF Later, Fresh
<1>4. OnlyIn'
  <2>1. /\ \A j \in Jobs : file'[j].on => file'[j].in
        /\ \A loaded \in cli', j \in Jobs : loaded[j].on => loaded[j].in
    BY <1>a, <1>f1, <1>f3, <1>f5, <1>f7 DEF OnlyIn
  <2>2. ASSUME NEW t \in Services, NEW j \in Jobs
        PROVE  (store'[t][j].on => store'[t][j].in) /\ (~store'[t][j].in => store'[t][j].next = None)
    BY <1>a, <1>f1, <1>f3, <1>f5, <1>f7 DEF OnlyIn
  <2> QED BY <2>1, <2>2 DEF OnlyIn
<1>5. CopyInv'
  <2>1. ASSUME NEW j \in Jobs, copy'[j].service # 0  PROVE  copy'[j].next # None
    BY <2>1, <1>a, <1>n, <1>f4, <1>f8, <1>f5, <1>f7, <1>f1, <1>f2, <1>f3, <1>f6 DEF CopyInv
  <2>2. ASSUME NEW j \in OneShot, copy'[j].service # 0  PROVE  copy'[j].next = at'[j]
    BY <2>2, <1>a, <1>n, <1>f4, <1>f8, <1>f5, <1>f7, <1>f1, <1>f2, <1>f3, <1>f6 DEF CopyInv
  <2>3. ASSUME NEW j \in Jobs, NEW t \in Services, t < copy'[j].service
        PROVE  store'[t][j] = Absent /\ j \notin due'[t]
    BY <2>3, <1>a, <1>n, <1>f4, <1>f8, <1>f5, <1>f7, <1>f1, <1>f2, <1>f3, <1>f6 DEF CopyInv
  <2> QED BY <2>1, <2>2, <2>3 DEF CopyInv
<1>6. InStep'
  BY <1>a, <1>f1, <1>f3, <1>f7 DEF InStep
<1>7. DueInv'
  <2>1. ASSUME NEW j \in OneShot, NEW t \in Services, j \in due'[t]  PROVE  at'[j] = 0
    BY <2>1, <1>a, <1>n, <1>f4, <1>f8, <1>f5, <1>f7, <1>f1, <1>f2, <1>f3, <1>f6 DEF InStep, DueInv
  <2>2. ASSUME NEW j \in OneShot, NEW t \in Services, j \in due'[t], ~BeingRun(t, j)'
        PROVE  runs'[j] = 0
    BY <2>2, <1>a, <1>n, <1>f4, <1>f8, <1>f5, <1>f7, <1>f1, <1>f2, <1>f3, <1>f6 DEF DueInv, RunInv
  <2>3. ASSUME NEW j \in OneShot, NEW r \in Services, NEW t \in Services, j \in due'[t], j \in due'[r]
        PROVE  r = t
    BY <2>3, <1>a, <1>n, <1>f4, <1>f8, <1>f5, <1>f7, <1>f1, <1>f2, <1>f3, <1>f6 DEF DueInv
  <2>4. ASSUME NEW j \in OneShot, NEW r \in Services, NEW t \in Services, j \in due'[t], running'[r]
        PROVE  r = t \/ store'[r][j].next = None
    BY <2>4, <1>a, <1>f1, <1>f3, <1>f5 DEF DueInv, Later
  <2>5. ASSUME NEW j \in OneShot, NEW r \in Services, NEW t \in Services, j \in due'[t], running'[r]
        PROVE  r = t \/ copy'[j].service # r
    BY <2>5, <1>a, <1>f3, <1>f5, <1>f8 DEF DueInv, Later
  <2> QED BY <2>1, <2>2, <2>3, <2>4, <2>5 DEF DueInv
<1>8. RunInv'
  <2>1. \A j \in OneShot : runs'[j] <= 1 /\ (runs'[j] = 1 => at'[j] = 0)
    BY <1>a, <1>n, <1>f1, <1>f3, <1>f5, <1>f6, <1>f8 DEF RunInv, DueInv
  <2>2. ASSUME NEW j \in OneShot, NEW r \in Services, runs'[j] = 1, running'[r]
        PROVE  BeingRun(r, j)' \/ store'[r][j].next = None
    BY <2>2, <1>a, <1>n, <1>f1, <1>f3, <1>f5, <1>f6, <1>f8 DEF RunInv, DueInv
  <2>3. ASSUME NEW j \in OneShot, NEW r \in Services, runs'[j] = 1, running'[r], copy'[j].service = r
        PROVE  BeingRun(r, j)' \/ ~store'[r][j].in
    BY <2>3, <1>a, <1>n, <1>f1, <1>f3, <1>f5, <1>f6, <1>f8 DEF RunInv, DueInv
  <2> QED BY <2>1, <2>2, <2>3 DEF RunInv
<1>9. Kept'
  BY <1>a, <1>f1, <1>f3, <1>f5, <1>f7 DEF Kept
<1>10. Gone'
  BY <1>a, <1>n, <1>f4, <1>f8, <1>f5, <1>f7, <1>f1, <1>f2, <1>f3, <1>f6 DEF Later, Fresh, Gone
<1> QED BY <1>1, <1>2, <1>3, <1>4, <1>5, <1>6, <1>7, <1>8, <1>9, <1>10 DEF CronInv

\* UpdateJob: the stale copy may bring a past next run back, but only while
\* the job is still to be removed by the loop that executes it.
LEMMA UpdateStep ==
  ASSUME CronInv, NEW s \in Services, s \in Live, NEW i \in Jobs, Update(s, i),
         store[s][i].in
  PROVE  CronInv'
<1> USE DEF None, Absent, NoCopy, Jobs, Services
<1>a. TypeOK /\ Later /\ Fresh /\ OnlyIn /\ CopyInv /\ InStep /\ DueInv /\ RunInv /\ Kept /\ Gone
  BY DEF CronInv
<1>n. /\ first \in Nat /\ made \in Nat /\ added \in Nat
      /\ \A j \in Jobs : /\ at[j] \in Nat /\ runs[j] \in Nat
                        /\ copy[j].service \in 0 .. made
      /\ \A j \in removed : j \in Jobs /\ j <= added
  BY <1>a, Numbers
<1> DEFINE new == [in |-> TRUE, on |-> TRUE, next |-> copy[i].next]
<1>b. new \in JobStates
  BY <1>a, NextRunFacts DEF JobStates, TypeOK
<1>c. Save(s, [store[s] EXCEPT ![i] = new]) /\ Notify(s)
  BY DEF Update
<1>d. Edited(s, i, new)
  BY <1>a, <1>b, <1>c, EditFacts
<1>f4. /\ store[s][i].in /\ copy[i].service = s
       /\ \A j \in Jobs : j # i => copy'[j] = copy[j]
       /\ copy'[i] = NoCopy /\ copy'[i].service = 0
  BY <1>a DEF Update, TypeOK
<1>t3. copy' \in [Jobs -> [service : 0 .. made, next : Nat \cup {None}]]
  BY <1>a, <1>n DEF Update, TypeOK, Live
<1>h. /\ i \in OneShot => copy[i].next = at[i]
      /\ copy[i].next # None
  BY <1>a, <1>f4, s # 0 DEF CopyInv
<1>e. new.in /\ new.on /\ new.next = copy[i].next
  OBVIOUS
<1>f5. /\ i \in OneShot => new.next = at[i]
       /\ new.next # None /\ new.in /\ new.on
  BY <1>e, <1>h
<1>k. store[s][i] # Absent
  BY <1>f4
<1> HIDE DEF new
<1>f1. /\ store'[s][i] = new
       /\ \A t \in Services, j \in Jobs : store'[t][j] = store[t][j] \/ (t = s /\ j = i)
       /\ \A j \in Jobs : (file'[j].in <=> store'[s][j].in) /\ (file'[j].on <=> store'[s][j].on)
       /\ ~foreign' => ~foreign /\ s = made
  BY <1>d DEF Edited
<1>f2. \A t \in Services :
        loop'[t] = loop[t] \/ (loop[t] = "select" /\ loop'[t] = "plan")
  BY <1>a, <1>c, NotifyFacts
<1>f3. UNCHANGED <<running, due, first, made, at, added, removed, runs, cli>> /\ s <= made /\ s >= 1
  BY <1>n DEF Update, procVars, Live
<1>f6. \A t \in Services, j \in Jobs : BeingRun(t, j)' <=> BeingRun(t, j)
  BY <1>f2, <1>f3 DEF BeingRun, IsFirst
<1>t1. /\ store' \in [Services -> [Jobs -> JobStates]]
       /\ file' \in [Jobs -> [in : BOOLEAN, on : BOOLEAN]]
       /\ foreign' \in BOOLEAN
  BY <1>a, <1>b, <1>c, EditTypes
<1>t2. loop' \in [Services -> {"off", "plan", "armed", "select", "check", "exec", "running"}]
  BY <1>a, <1>c, NotifyFacts
<1>1. TypeOK'
    BY <1>a, <1>n, <1>t3, <1>t1, <1>t2, <1>f4, <1>f5, <1>f1, <1>f2, <1>f3, <1>f6 DEF
     TypeOK, Fresh
<1>2. Later'
  BY <1>a, <1>n, <1>f4, <1>f5, <1>f1, <1>f2, <1>f3, <1>f6 DEF Later
<1>3. Fresh'
  BY <1>a, <1>n, <1>f4, <1>f5, <1>f1, <1>f2, <1>f3, <1>f6 DEF Later, Fresh
<1>4. OnlyIn'
  <2>1. /\ \A j \in Jobs : file'[j].on => file'[j].in
        /\ \A loaded \in cli', j \in Jobs : loaded[j].on => loaded[j].in
    BY <1>a, <1>n, <1>f4, <1>f5, <1>f1, <1>f2, <1>f3, <1>f6 DEF OnlyIn
  <2>2. ASSUME NEW t \in Services, NEW j \in Jobs
        PROVE  (store'[t][j].on => store'[t][j].in) /\ (~store'[t][j].in => store'[t][j].next = None)
    BY <1>a, <1>n, <1>f4, <1>f5, <1>f1, <1>f2, <1>f3, <1>f6 DEF OnlyIn
  <2> QED BY <2>1, <2>2 DEF OnlyIn
<1>5. CopyInv'
  <2>1. ASSUME NEW j \in Jobs, copy'[j].service # 0  PROVE  copy'[j].next # None
    BY <2>1, <1>a, <1>n, <1>f4, <1>f5, <1>f1, <1>f2, <1>f3, <1>f6 DEF CopyInv
  <2>2. ASSUME NEW j \in OneShot, copy'[j].service # 0  PROVE  copy'[j].next = at'[j]
    BY <2>2, <1>a, <1>n, <1>f4, <1>f5, <1>f1, <1>f2, <1>f3, <1>f6 DEF CopyInv
  <2>3. ASSUME NEW j \in Jobs, NEW t \in Services, t < copy'[j].service
        PROVE  store'[t][j] = Absent /\ j \notin due'[t]
    BY <2>3, <1>a, <1>n, <1>f4, <1>f5, <1>f1, <1>f2, <1>f3, <1>f6 DEF CopyInv
  <2> QED BY <2>1, <2>2, <2>3 DEF CopyInv
<1>6. InStep'
  BY <1>a, <1>f1, <1>f3, <1>f5 DEF InStep
<1>7. DueInv'
    BY <1>a, <1>n, <1>f4, <1>f5, <1>f1, <1>f2, <1>f3, <1>f6 DEF Later, Fresh, OnlyIn,
     CopyInv, InStep, DueInv, RunInv
<1>8. RunInv'
  <2>1. \A j \in OneShot : runs'[j] <= 1 /\ (runs'[j] = 1 => at'[j] = 0)
    BY <1>a, <1>n, <1>f1, <1>f3, <1>f4, <1>f6 DEF RunInv, DueInv
  <2>2. ASSUME NEW j \in OneShot, NEW r \in Services, runs'[j] = 1, running'[r]
        PROVE  BeingRun(r, j)' \/ store'[r][j].next = None
    BY <2>2, <1>a, <1>n, <1>f1, <1>f3, <1>f4, <1>f6 DEF RunInv, DueInv
  <2>3. ASSUME NEW j \in OneShot, NEW r \in Services, runs'[j] = 1, running'[r], copy'[j].service = r
        PROVE  BeingRun(r, j)' \/ ~store'[r][j].in
    BY <2>3, <1>a, <1>n, <1>f1, <1>f3, <1>f4, <1>f6 DEF RunInv, DueInv
  <2> QED BY <2>1, <2>2, <2>3 DEF RunInv
<1>9. Kept'
    BY <1>a, <1>n, <1>f4, <1>f5, <1>f1, <1>f2, <1>f3, <1>f6 DEF Later, Fresh, OnlyIn,
     CopyInv, Kept
<1>10. Gone'
  BY <1>a, <1>n, <1>f4, <1>f5, <1>f1, <1>f2, <1>f3, <1>f6 DEF Later, Fresh, Gone
<1> QED BY <1>1, <1>2, <1>3, <1>4, <1>5, <1>6, <1>7, <1>8, <1>9, <1>10 DEF CronInv

----------------------------------------------------------------------------
\* The actions of the loop

\* The job a loop is executing is the first of its list, and only that.
LEMMA OneFirst ==
  ASSUME TypeOK, NEW s \in Services, NEW i \in Jobs, NEW j \in Jobs, IsFirst(s, i),
         IsFirst(s, j)
  PROVE  i = j
BY DEF IsFirst, Jobs, TypeOK

\* The handler returns and the job was removed meanwhile.
LEMMA ExecutedGoneStep ==
  ASSUME CronInv, NEW s \in Services, s \in Live, NEW i \in Jobs, IsFirst(s, i),
         loop[s] = "running",
         due' = [due EXCEPT ![s] = @ \ {i}], loop' = [loop EXCEPT ![s] = "exec"],
         UNCHANGED <<running, wake, procVars, at, toolVars, runs, cli>>,
         ~store[s][i].in,
         UNCHANGED <<file, store, foreign>>
  PROVE  CronInv'
<1> USE DEF None, Absent, NoCopy, Jobs, Services
<1>a. TypeOK /\ Later /\ Fresh /\ OnlyIn /\ CopyInv /\ InStep /\ DueInv /\ RunInv /\ Kept /\ Gone
  BY DEF CronInv
<1>n. /\ first \in Nat /\ made \in Nat /\ added \in Nat
      /\ \A j \in Jobs : /\ at[j] \in Nat /\ runs[j] \in Nat
                        /\ copy[j].service \in 0 .. made
      /\ \A j \in removed : j \in Jobs /\ j <= added
  BY <1>a, Numbers
<1>f1. /\ \A t \in Services, j \in Jobs : j \in due'[t] <=> j \in due[t] /\ ~(t = s /\ j = i)
       /\ \A t \in Services : t # s => due'[t] = due[t]
  BY <1>a DEF TypeOK
<1>f2. /\ \A t \in Services : t # s => loop'[t] = loop[t]
       /\ loop'[s] = "exec"
  BY <1>a DEF TypeOK
<1>f3. UNCHANGED <<running, first, made, at, added, copy, removed, runs, cli>>
  BY DEF procVars, toolVars
<1>b. \A j \in Jobs : IsFirst(s, j) => j = i
  BY <1>a, OneFirst
<1>f4. /\ \A t \in Services, j \in Jobs : BeingRun(t, j)' <=> BeingRun(t, j) /\ t # s
       /\ \A j \in Jobs : BeingRun(s, j) => j = i
       /\ i \in due[s]
  BY <1>b, <1>f1, <1>f2 DEF BeingRun, IsFirst
<1>f9. s <= made /\ s >= 1
  BY <1>n DEF Live
<1>t1. due' \in [Services -> SUBSET Jobs]
  BY <1>a DEF TypeOK
<1>t2. loop' \in [Services -> {"off", "plan", "armed", "select", "check", "exec", "running"}]
  BY <1>a DEF TypeOK
<1>f5. ~store[s][i].in /\ UNCHANGED <<file, store, foreign>>
  OBVIOUS
<1>1. TypeOK'
  BY <1>a, <1>n, <1>t1, <1>t2, <1>f1, <1>f2, <1>f3, <1>f4, <1>f9, <1>f5 DEF TypeOK
<1>2. Later'
  BY <1>a, <1>n, <1>f1, <1>f2, <1>f3, <1>f4, <1>f9, <1>f5 DEF Later
<1>3. Fresh'
  BY <1>a, <1>n, <1>f1, <1>f2, <1>f3, <1>f4, <1>f9, <1>f5 DEF Later, Fresh
<1>4. OnlyIn'
  BY <1>a, <1>n, <1>f1, <1>f2, <1>f3, <1>f4, <1>f9, <1>f5 DEF OnlyIn
<1>5. CopyInv'
  BY <1>a, <1>n, <1>f1, <1>f2, <1>f3, <1>f4, <1>f9, <1>f5 DEF Later, Fresh, CopyInv
<1>6. InStep'
  BY <1>a, <1>n, <1>f1, <1>f2, <1>f3, <1>f4, <1>f9, <1>f5 DEF InStep
<1>7. DueInv'
  BY <1>a, <1>f1, <1>f3, <1>f4, <1>f5 DEF DueInv
<1>8. RunInv'
    BY <1>a, <1>n, <1>f1, <1>f2, <1>f3, <1>f4, <1>f9, <1>f5 DEF Later, Fresh, OnlyIn,
     CopyInv, InStep, DueInv, RunInv
<1>9. Kept'
    BY <1>a, <1>n, <1>f1, <1>f2, <1>f3, <1>f4, <1>f9, <1>f5 DEF Later, Fresh, OnlyIn,
     CopyInv, Kept
<1>10. Gone'
  BY <1>a, <1>n, <1>f1, <1>f2, <1>f3, <1>f4, <1>f9, <1>f5 DEF Later, Fresh, Gone
<1> QED BY <1>1, <1>2, <1>3, <1>4, <1>5, <1>6, <1>7, <1>8, <1>9, <1>10 DEF CronInv

\* The handler returns and the job is removed or scheduled again.
LEMMA ExecutedEditStep ==
  ASSUME CronInv, NEW s \in Services, s \in Live, NEW i \in Jobs, IsFirst(s, i),
         loop[s] = "running",
         due' = [due EXCEPT ![s] = @ \ {i}], loop' = [loop EXCEPT ![s] = "exec"],
         UNCHANGED <<running, wake, procVars, at, toolVars, runs, cli>>,
         store[s][i].in, NEW new \in JobStates,
         i \in OneShot => new = Absent, i \notin OneShot => new.in /\ new.next # None,
         Save(s, [store[s] EXCEPT ![i] = new])
  PROVE  CronInv'
<1> USE DEF None, Absent, NoCopy, Jobs, Services
<1>a. TypeOK /\ Later /\ Fresh /\ OnlyIn /\ CopyInv /\ InStep /\ DueInv /\ RunInv /\ Kept /\ Gone
  BY DEF CronInv
<1>n. /\ first \in Nat /\ made \in Nat /\ added \in Nat
      /\ \A j \in Jobs : /\ at[j] \in Nat /\ runs[j] \in Nat
                        /\ copy[j].service \in 0 .. made
      /\ \A j \in removed : j \in Jobs /\ j <= added
  BY <1>a, Numbers
<1>f1. /\ \A t \in Services, j \in Jobs : j \in due'[t] <=> j \in due[t] /\ ~(t = s /\ j = i)
       /\ \A t \in Services : t # s => due'[t] = due[t]
  BY <1>a DEF TypeOK
<1>f2. /\ \A t \in Services : t # s => loop'[t] = loop[t]
       /\ loop'[s] = "exec"
  BY <1>a DEF TypeOK
<1>f3. UNCHANGED <<running, first, made, at, added, copy, removed, runs, cli>>
  BY DEF procVars, toolVars
<1>b. \A j \in Jobs : IsFirst(s, j) => j = i
  BY <1>a, OneFirst
<1>f4. /\ \A t \in Services, j \in Jobs : BeingRun(t, j)' <=> BeingRun(t, j) /\ t # s
       /\ \A j \in Jobs : BeingRun(s, j) => j = i
       /\ i \in due[s]
  BY <1>b, <1>f1, <1>f2 DEF BeingRun, IsFirst
<1>f9. s <= made /\ s >= 1
  BY <1>n DEF Live
<1>t1. due' \in [Services -> SUBSET Jobs]
  BY <1>a DEF TypeOK
<1>t2. loop' \in [Services -> {"off", "plan", "armed", "select", "check", "exec", "running"}]
  BY <1>a DEF TypeOK
<1>d. Edited(s, i, new)
  BY <1>a, EditFacts
<1>f5. /\ store'[s][i] = new
       /\ \A t \in Services, j \in Jobs : store'[t][j] = store[t][j] \/ (t = s /\ j = i)
       /\ \A j \in Jobs : (file'[j].in <=> store'[s][j].in) /\ (file'[j].on <=> store'[s][j].on)
       /\ ~foreign' => ~foreign /\ s = made
  BY <1>d DEF Edited
<1>f6. /\ store[s][i].in /\ store[s][i] # Absent
       /\ i \in OneShot => ~new.in /\ ~new.on /\ new.next = None /\ new = Absent
       /\ i \notin OneShot => new.in /\ new.next # None
  OBVIOUS
<1>t3. /\ store' \in [Services -> [Jobs -> JobStates]]
       /\ file' \in [Jobs -> [in : BOOLEAN, on : BOOLEAN]]
       /\ foreign' \in BOOLEAN
  BY <1>a, EditTypes
<1>1. TypeOK'
    BY <1>a, <1>n, <1>t1, <1>t2, <1>t3, <1>f1, <1>f2, <1>f3, <1>f4, <1>f9, <1>f5, <1>f6
     DEF TypeOK
<1>2. Later'
  BY <1>a, <1>n, <1>f1, <1>f2, <1>f3, <1>f4, <1>f9, <1>f5, <1>f6 DEF Later
<1>3. Fresh'
  BY <1>a, <1>n, <1>f1, <1>f2, <1>f3, <1>f4, <1>f9, <1>f5, <1>f6 DEF Later, Fresh
<1>4. OnlyIn'
  <2>1. /\ \A j \in Jobs : file'[j].on => file'[j].in
        /\ \A loaded \in cli', j \in Jobs : loaded[j].on => loaded[j].in
    BY <1>a, <1>n, <1>f1, <1>f2, <1>f3, <1>f4, <1>f9, <1>f5, <1>f6 DEF OnlyIn
  <2>2. ASSUME NEW t \in Services, NEW j \in Jobs
        PROVE  (store'[t][j].on => store'[t][j].in) /\ (~store'[t][j].in => store'[t][j].next = None)
    BY <1>a, <1>n, <1>f1, <1>f2, <1>f3, <1>f4, <1>f9, <1>f5, <1>f6 DEF OnlyIn
  <2> QED BY <2>1, <2>2 DEF OnlyIn
<1>5. CopyInv'
  BY <1>a, <1>n, <1>f1, <1>f2, <1>f3, <1>f4, <1>f9, <1>f5, <1>f6 DEF Later, Fresh, CopyInv
<1>6. InStep'
  BY <1>a, <1>n, <1>f1, <1>f2, <1>f3, <1>f4, <1>f9, <1>f5, <1>f6 DEF InStep
<1>7. DueInv'
    BY <1>a, <1>n, <1>f1, <1>f2, <1>f3, <1>f4, <1>f9, <1>f5, <1>f6 DEF Later, Fresh,
     OnlyIn, CopyInv, InStep, DueInv, RunInv
<1>8. RunInv'
  <2>1. \A j \in OneShot : runs'[j] <= 1 /\ (runs'[j] = 1 => at'[j] = 0)
    BY <1>a, <1>n, <1>f1, <1>f2, <1>f3, <1>f4, <1>f9, <1>f5, <1>f6 DEF RunInv, DueInv
  <2>2. ASSUME NEW j \in OneShot, NEW r \in Services, runs'[j] = 1, running'[r]
        PROVE  BeingRun(r, j)' \/ store'[r][j].next = None
    BY <2>2, <1>a, <1>n, <1>f1, <1>f2, <1>f3, <1>f4, <1>f9, <1>f5, <1>f6 DEF RunInv, DueInv
  <2>3. ASSUME NEW j \in OneShot, NEW r \in Services, runs'[j] = 1, running'[r], copy'[j].service = r
        PROVE  BeingRun(r, j)' \/ ~store'[r][j].in
    BY <2>3, <1>a, <1>n, <1>f1, <1>f2, <1>f3, <1>f4, <1>f9, <1>f5, <1>f6 DEF RunInv, DueInv
  <2> QED BY <2>1, <2>2, <2>3 DEF RunInv
<1>9. Kept'
    BY <1>a, <1>n, <1>f1, <1>f2, <1>f3, <1>f4, <1>f9, <1>f5, <1>f6 DEF Later, Fresh,
     OnlyIn, CopyInv, Kept
<1>10. Gone'
  BY <1>a, <1>n, <1>f1, <1>f2, <1>f3, <1>f4, <1>f9, <1>f5, <1>f6 DEF Later, Fresh, Gone
<1> QED BY <1>1, <1>2, <1>3, <1>4, <1>5, <1>6, <1>7, <1>8, <1>9, <1>10 DEF CronInv

\* A due job that was removed is skipped.
LEMMA ExecuteSkipStep ==
  ASSUME CronInv, NEW s \in Services, s \in Live, NEW i \in Jobs, IsFirst(s, i),
         loop[s] = "exec",
         UNCHANGED <<file, store, running, wake, procVars, at, toolVars, cli, foreign>>,
         ~store[s][i].in,
         due' = [due EXCEPT ![s] = @ \ {i}],
         UNCHANGED <<loop, runs>>
  PROVE  CronInv'
<1> USE DEF None, Absent, NoCopy, Jobs, Services
<1>a. TypeOK /\ Later /\ Fresh /\ OnlyIn /\ CopyInv /\ InStep /\ DueInv /\ RunInv /\ Kept /\ Gone
  BY DEF CronInv
<1>n. /\ first \in Nat /\ made \in Nat /\ added \in Nat
      /\ \A j \in Jobs : /\ at[j] \in Nat /\ runs[j] \in Nat
                        /\ copy[j].service \in 0 .. made
      /\ \A j \in removed : j \in Jobs /\ j <= added
  BY <1>a, Numbers
<1>f1. /\ \A t \in Services, j \in Jobs : j \in due'[t] <=> j \in due[t] /\ ~(t = s /\ j = i)
       /\ \A t \in Services : t # s => due'[t] = due[t]
  BY <1>a DEF TypeOK
<1>f2. ~store[s][i].in /\ loop[s] = "exec" /\ UNCHANGED <<loop, runs>>
  OBVIOUS
<1>f3. UNCHANGED <<file, store, foreign, running, first, made, at, added, copy, removed, cli>>
  BY DEF procVars, toolVars
<1>f4. /\ \A t \in Services, j \in Jobs : BeingRun(t, j)' <=> BeingRun(t, j)
       /\ \A j \in Jobs : ~BeingRun(s, j)
  BY <1>f1, <1>f2 DEF BeingRun, IsFirst
<1>f9. s <= made /\ s >= 1
  BY <1>n DEF Live
<1>t1. due' \in [Services -> SUBSET Jobs]
  BY <1>a DEF TypeOK
<1>1. TypeOK'
  BY <1>a, <1>n, <1>t1, <1>f1, <1>f2, <1>f3, <1>f4, <1>f9 DEF TypeOK
<1>2. Later'
  BY <1>a, <1>n, <1>f1, <1>f2, <1>f3, <1>f4, <1>f9 DEF Later
<1>3. Fresh'
  BY <1>a, <1>n, <1>f1, <1>f2, <1>f3, <1>f4, <1>f9 DEF Later, Fresh
<1>4. OnlyIn'
  BY <1>a, <1>n, <1>f1, <1>f2, <1>f3, <1>f4, <1>f9 DEF OnlyIn
<1>5. CopyInv'
  BY <1>a, <1>n, <1>f1, <1>f2, <1>f3, <1>f4, <1>f9 DEF Later, Fresh, CopyInv
<1>6. InStep'
  BY <1>a, <1>n, <1>f1, <1>f2, <1>f3, <1>f4, <1>f9 DEF InStep
<1>7. DueInv'
    BY <1>a, <1>n, <1>f1, <1>f2, <1>f3, <1>f4, <1>f9 DEF Later, Fresh, OnlyIn, CopyInv,
     InStep, DueInv, RunInv
<1>8. RunInv'
    BY <1>a, <1>n, <1>f1, <1>f2, <1>f3, <1>f4, <1>f9 DEF Later, Fresh, OnlyIn, CopyInv,
     InStep, DueInv, RunInv
<1>9. Kept'
  BY <1>a, <1>n, <1>f1, <1>f2, <1>f3, <1>f4, <1>f9 DEF Later, Fresh, OnlyIn, CopyInv, Kept
<1>10. Gone'
  BY <1>a, <1>n, <1>f1, <1>f2, <1>f3, <1>f4, <1>f9 DEF Later, Fresh, Gone
<1> QED BY <1>1, <1>2, <1>3, <1>4, <1>5, <1>6, <1>7, <1>8, <1>9, <1>10 DEF CronInv

\* A due job is executed: it was not before.
LEMMA ExecuteRunStep ==
  ASSUME CronInv, NEW s \in Services, s \in Live, NEW i \in Jobs, IsFirst(s, i),
         loop[s] = "exec",
         UNCHANGED <<file, store, running, wake, procVars, at, toolVars, cli, foreign>>,
         store[s][i].in, UNCHANGED due,
         loop' = [loop EXCEPT ![s] = "running"],
         runs' = IF i \in OneShot THEN [runs EXCEPT ![i] = @ + 1] ELSE runs
  PROVE  CronInv'
<1> USE DEF None, Absent, NoCopy, Jobs, Services
<1>a. TypeOK /\ Later /\ Fresh /\ OnlyIn /\ CopyInv /\ InStep /\ DueInv /\ RunInv /\ Kept /\ Gone
  BY DEF CronInv
<1>n. /\ first \in Nat /\ made \in Nat /\ added \in Nat
      /\ \A j \in Jobs : /\ at[j] \in Nat /\ runs[j] \in Nat
                        /\ copy[j].service \in 0 .. made
      /\ \A j \in removed : j \in Jobs /\ j <= added
  BY <1>a, Numbers
<1>f1. /\ i \in OneShot => runs'[i] = runs[i] + 1
       /\ \A j \in Jobs : runs'[j] = runs[j] \/ (j = i /\ i \in OneShot)
  BY <1>a DEF TypeOK
<1>f2. /\ \A t \in Services : t # s => loop'[t] = loop[t]
       /\ loop[s] = "exec" /\ loop'[s] = "running"
  BY <1>a DEF TypeOK
<1>f3. UNCHANGED <<file, store, foreign, due, running, first, made, at, added, copy, removed, cli>>
  BY DEF procVars, toolVars
<1>b. \A j \in Jobs : IsFirst(s, j) => j = i
  BY <1>a, OneFirst
<1>f4. /\ \A t \in Services, j \in Jobs : BeingRun(t, j)' <=> BeingRun(t, j) \/ (t = s /\ j = i)
       /\ \A j \in Jobs : ~BeingRun(s, j)
       /\ i \in due[s]
  BY <1>b, <1>f2, <1>f3 DEF BeingRun, IsFirst
<1>f9. s <= made /\ s >= 1
  BY <1>n DEF Live
<1>t1. runs' \in [Jobs -> Nat]
  <2>1. CASE i \in OneShot
    BY <1>a, <1>n, <2>1 DEF TypeOK
  <2>2. CASE i \notin OneShot
    BY <1>a, <2>2 DEF TypeOK
  <2> QED BY <2>1, <2>2
<1>t2. loop' \in [Services -> {"off", "plan", "armed", "select", "check", "exec", "running"}]
  BY <1>a DEF TypeOK
<1>f5. i <= added
  BY <1>a, <1>n, <1>f4 DEF Fresh
<1>1. TypeOK'
  BY <1>a, <1>n, <1>t1, <1>t2, <1>f1, <1>f2, <1>f3, <1>f4, <1>f9, <1>f5 DEF TypeOK
<1>2. Later'
  BY <1>a, <1>n, <1>f1, <1>f2, <1>f3, <1>f4, <1>f9, <1>f5 DEF Later
<1>3. Fresh'
  BY <1>a, <1>n, <1>f1, <1>f2, <1>f3, <1>f4, <1>f9, <1>f5 DEF Later, Fresh
<1>4. OnlyIn'
  BY <1>a, <1>n, <1>f1, <1>f2, <1>f3, <1>f4, <1>f9, <1>f5 DEF OnlyIn
<1>5. CopyInv'
  BY <1>a, <1>n, <1>f1, <1>f2, <1>f3, <1>f4, <1>f9, <1>f5 DEF Later, Fresh, CopyInv
<1>6. InStep'
  BY <1>a, <1>n, <1>f1, <1>f2, <1>f3, <1>f4, <1>f9, <1>f5 DEF InStep
<1>7. DueInv'
  <2>1. ASSUME NEW j \in OneShot, NEW t \in Services, j \in due'[t]  PROVE  at'[j] = 0
    BY <2>1, <1>a, <1>n, <1>f1, <1>f2, <1>f3, <1>f4, <1>f9, <1>f5 DEF InStep, DueInv
  <2>2. ASSUME NEW j \in OneShot, NEW t \in Services, j \in due'[t], ~BeingRun(t, j)'
        PROVE  runs'[j] = 0
    BY <2>2, <1>a, <1>n, <1>f1, <1>f2, <1>f3, <1>f4, <1>f9, <1>f5 DEF DueInv, RunInv
  <2>3. ASSUME NEW j \in OneShot, NEW r \in Services, NEW t \in Services, j \in due'[t], j \in due'[r]
        PROVE  r = t
    BY <2>3, <1>a, <1>n, <1>f1, <1>f2, <1>f3, <1>f4, <1>f9, <1>f5 DEF DueInv
  <2>4. ASSUME NEW j \in OneShot, NEW r \in Services, NEW t \in Services, j \in due'[t], running'[r]
        PROVE  r = t \/ store'[r][j].next = None
    BY <2>4, <1>a, <1>n, <1>f1, <1>f2, <1>f3, <1>f4, <1>f9, <1>f5 DEF DueInv, Later
  <2>5. ASSUME NEW j \in OneShot, NEW r \in Services, NEW t \in Services, j \in due'[t], running'[r]
        PROVE  r = t \/ copy'[j].service # r
    BY <2>5, <1>a, <1>n, <1>f1, <1>f2, <1>f3, <1>f4, <1>f9, <1>f5 DEF DueInv, Later
  <2> QED BY <2>1, <2>2, <2>3, <2>4, <2>5 DEF DueInv
<1>8. RunInv'
    BY <1>a, <1>n, <1>f1, <1>f2, <1>f3, <1>f4, <1>f9, <1>f5 DEF Later, Fresh, OnlyIn,
     CopyInv, InStep, DueInv, RunInv
<1>9. Kept'
    BY <1>a, <1>n, <1>f1, <1>f2, <1>f3, <1>f4, <1>f9, <1>f5 DEF Later, Fresh, OnlyIn,
     CopyInv, Kept
<1>10. Gone'
  BY <1>a, <1>n, <1>f1, <1>f2, <1>f3, <1>f4, <1>f9, <1>f5 DEF Later, Fresh, Gone
<1> QED BY <1>1, <1>2, <1>3, <1>4, <1>5, <1>6, <1>7, <1>8, <1>9, <1>10 DEF CronInv

\* checkJobs: what is due now is due nowhere else, and was not executed.
LEMMA CheckJobsRunningStep ==
  ASSUME CronInv, NEW s \in Services, s \in Live, running[s], CheckJobs(s)
  PROVE  CronInv'
<1> USE DEF None, Absent, NoCopy, Jobs, Services
<1>a. TypeOK /\ Later /\ Fresh /\ OnlyIn /\ CopyInv /\ InStep /\ DueInv /\ RunInv /\ Kept /\ Gone
  BY DEF CronInv
<1>n. /\ first \in Nat /\ made \in Nat /\ added \in Nat
      /\ \A j \in Jobs : /\ at[j] \in Nat /\ runs[j] \in Nat
                        /\ copy[j].service \in 0 .. made
      /\ \A j \in removed : j \in Jobs /\ j <= added
  BY <1>a, Numbers
<1> DEFINE st == [j \in Jobs |-> IF IsDue(s, j) THEN [store[s][j] EXCEPT !.next = None]
                                               ELSE store[s][j]]
<1>b. Save(s, st)
  BY DEF CheckJobs
<1>r. \A j \in Jobs : LET r == [store[s][j] EXCEPT !.next = None]
                   IN  /\ r \in JobStates
                       /\ (r.in <=> store[s][j].in) /\ (r.on <=> store[s][j].on) /\ r.next = None
  <2> TAKE j \in Jobs
  <2> DEFINE q == store[s][j]
  <2>1. q \in JobStates
    BY <1>a DEF TypeOK
  <2> HIDE DEF q
  <2>2. LET r == [q EXCEPT !.next = None]
        IN  /\ r \in JobStates
            /\ (r.in <=> q.in) /\ (r.on <=> q.on) /\ r.next = None
    BY <2>1 DEF JobStates
  <2> QED BY <2>2 DEF q
<1>c. st \in [Jobs -> JobStates]
  BY <1>a, <1>r DEF TypeOK
<1>d. \A j \in Jobs :
        /\ ~IsDue(s, j) => st[j] = store[s][j]
        /\ IsDue(s, j) => (st[j].in <=> store[s][j].in)
        /\ IsDue(s, j) => (st[j].on <=> store[s][j].on)
        /\ IsDue(s, j) => st[j].next = None
  BY <1>r
<1>t3. /\ store' \in [Services -> [Jobs -> JobStates]]
       /\ file' \in [Jobs -> [in : BOOLEAN, on : BOOLEAN]]
       /\ foreign' \in BOOLEAN
  BY <1>a, <1>b, <1>c, SaveTypes
<1> HIDE DEF st
<1>e. /\ store'[s] = st
      /\ \A t \in Services : t # s => store'[t] = store[t]
      /\ \A j \in Jobs : (file'[j].in <=> st[j].in) /\ (file'[j].on <=> st[j].on)
      /\ ~foreign' => ~foreign /\ s = made
  BY <1>a, <1>b, SaveFacts
<1>f1. /\ \A t \in Services, j \in Jobs : t # s => store'[t][j] = store[t][j]
       /\ \A j \in Jobs : (file'[j].in <=> store'[s][j].in) /\ (file'[j].on <=> store'[s][j].on)
       /\ ~foreign' => ~foreign /\ s = made
  BY <1>e
<1>f2. \A j \in Jobs :
         /\ ~IsDue(s, j) => store'[s][j] = store[s][j]
         /\ IsDue(s, j) => (store'[s][j].in <=> store[s][j].in)
         /\ IsDue(s, j) => (store'[s][j].on <=> store[s][j].on)
         /\ IsDue(s, j) => store'[s][j].next = None
         /\ IsDue(s, j) => store[s][j].on /\ store[s][j].next = 0
  BY <1>d, <1>e DEF IsDue
<1>f3. /\ \A j \in Jobs : j \in due'[s] <=> IsDue(s, j)
       /\ \A t \in Services : t # s => due'[t] = due[t]
  BY <1>a DEF TypeOK, CheckJobs
<1>f4. /\ \A t \in Services : t # s => loop'[t] = loop[t]
       /\ loop[s] = "check" /\ loop'[s] = "exec" /\ running[s] /\ s = made /\ due[s] = {}
  BY <1>a DEF TypeOK, CheckJobs, Later
<1>f5. UNCHANGED <<running, first, made, at, added, copy, removed, runs, cli>>
  BY DEF procVars, toolVars, CheckJobs
<1>f6. /\ \A t \in Services, j \in Jobs : BeingRun(t, j)' <=> BeingRun(t, j)
       /\ \A j \in Jobs : ~BeingRun(s, j)
  BY <1>f3, <1>f4 DEF BeingRun, IsFirst
<1>f9. s <= made /\ s >= 1
  BY <1>n DEF Live
<1>t1. due' \in [Services -> SUBSET Jobs]
  <2>1. {j \in Jobs : IsDue(s, j)} \in SUBSET Jobs
    OBVIOUS
  <2> QED BY <1>a, <2>1 DEF TypeOK, CheckJobs
<1>t2. loop' \in [Services -> {"off", "plan", "armed", "select", "check", "exec", "running"}]
  BY <1>a DEF TypeOK, CheckJobs
<1>1. TypeOK'
    BY <1>a, <1>n, <1>t3, <1>t1, <1>t2, <1>f1, <1>f2, <1>f3, <1>f4, <1>f5, <1>f6, <1>f9
     DEF TypeOK
<1>2. Later'
  BY <1>a, <1>n, <1>f1, <1>f2, <1>f3, <1>f4, <1>f5, <1>f6, <1>f9 DEF Later
<1>3. Fresh'
  BY <1>a, <1>n, <1>f1, <1>f2, <1>f3, <1>f4, <1>f5, <1>f6, <1>f9 DEF Later, Fresh
<1>4. OnlyIn'
  BY <1>a, <1>n, <1>f1, <1>f2, <1>f3, <1>f4, <1>f5, <1>f6, <1>f9 DEF OnlyIn
<1>5. CopyInv'
  BY <1>a, <1>n, <1>f1, <1>f2, <1>f3, <1>f4, <1>f5, <1>f6, <1>f9 DEF Later, Fresh, CopyInv
<1>6. InStep'
  BY <1>a, <1>n, <1>f1, <1>f2, <1>f3, <1>f4, <1>f5, <1>f6, <1>f9 DEF InStep
<1>7. DueInv'
  <2>1. ASSUME NEW j \in OneShot, NEW t \in Services, j \in due'[t]  PROVE  at'[j] = 0
    <3>1. CASE t = s
      BY <1>a, <2>1, <3>1, <1>f2, <1>f3, <1>f5 DEF InStep
    <3>2. CASE t # s
      BY <1>a, <2>1, <3>2, <1>f3, <1>f5 DEF DueInv
    <3> QED BY <3>1, <3>2
  <2>2. ASSUME NEW j \in OneShot, NEW t \in Services, j \in due'[t], ~BeingRun(t, j)'
        PROVE  runs'[j] = 0
    <3>1. CASE t = s
      <4>1. store[s][j].next # None /\ running[s] /\ ~BeingRun(s, j)
        BY <2>2, <3>1, <1>f2, <1>f3, <1>f4, <1>f6
      <4>2. runs[j] <= 1 /\ runs[j] # 1
        BY <1>a, <4>1 DEF RunInv
      <4> QED BY <1>n, <1>f5, <4>2
    <3>2. CASE t # s
      BY <1>a, <2>2, <3>2, <1>f3, <1>f5, <1>f6 DEF DueInv
    <3> QED BY <3>1, <3>2
  <2>3. ASSUME NEW j \in OneShot, NEW r \in Services, NEW t \in Services, j \in due'[t], j \in due'[r]
        PROVE  r = t
    BY <2>3, <1>a, <1>n, <1>f1, <1>f2, <1>f3, <1>f4, <1>f5, <1>f6, <1>f9 DEF DueInv
  <2>4. ASSUME NEW j \in OneShot, NEW r \in Services, NEW t \in Services, j \in due'[t], running'[r]
        PROVE  r = t \/ store'[r][j].next = None
    BY <2>4, <1>a, <1>n, <1>f1, <1>f2, <1>f3, <1>f4, <1>f5, <1>f6, <1>f9 DEF DueInv, Later
  <2>5. ASSUME NEW j \in OneShot, NEW r \in Services, NEW t \in Services, j \in due'[t], running'[r]
        PROVE  r = t \/ copy'[j].service # r
    BY <2>5, <1>a, <1>n, <1>f1, <1>f2, <1>f3, <1>f4, <1>f5, <1>f6, <1>f9 DEF DueInv, Later
  <2> QED BY <2>1, <2>2, <2>3, <2>4, <2>5 DEF DueInv
<1>8. RunInv'
    BY <1>a, <1>n, <1>f1, <1>f2, <1>f3, <1>f4, <1>f5, <1>f6, <1>f9 DEF Later, Fresh,
     OnlyIn, CopyInv, InStep, DueInv, RunInv
<1>9. Kept'
    BY <1>a, <1>n, <1>f1, <1>f2, <1>f3, <1>f4, <1>f5, <1>f6, <1>f9 DEF Later, Fresh,
     OnlyIn, CopyInv, Kept
<1>10. Gone'
  BY <1>a, <1>n, <1>f1, <1>f2, <1>f3, <1>f4, <1>f5, <1>f6, <1>f9 DEF Later, Fresh, Gone
<1> QED BY <1>1, <1>2, <1>3, <1>4, <1>5, <1>6, <1>7, <1>8, <1>9, <1>10 DEF CronInv

\* Steps that touch neither stores nor jobs: the loop moves, the service
\* stops, copies are dropped, the file is loaded.
LEMMA QuietStep ==
  ASSUME CronInv,
         UNCHANGED <<file, store, due, first, made, at, added, removed, runs, foreign>>,
         running' \in [Services -> BOOLEAN], \A t \in Services : running'[t] => running[t],
         loop' \in [Services -> {"off", "plan", "armed", "select", "check", "exec", "running"}],
         \A t \in Services : loop'[t] = "running" <=> loop[t] = "running",
         \A t \in Services : loop'[t] \notin {"exec", "running"} => due[t] = {},
         \A t \in Services : t > made => loop'[t] = loop[t],
         copy' \in [Jobs -> [service : 0 .. made, next : Nat \cup {None}]],
         \A j \in Jobs : copy'[j] = copy[j] \/ copy'[j] = NoCopy, cli' \subseteq cli \cup {file}
  PROVE  CronInv'
<1> USE DEF None, Absent, NoCopy, Jobs, Services
<1>a. TypeOK /\ Later /\ Fresh /\ OnlyIn /\ CopyInv /\ InStep /\ DueInv /\ RunInv /\ Kept /\ Gone
  BY DEF CronInv
<1>n. /\ first \in Nat /\ made \in Nat /\ added \in Nat
      /\ \A j \in Jobs : /\ at[j] \in Nat /\ runs[j] \in Nat
                        /\ copy[j].service \in 0 .. made
      /\ \A j \in removed : j \in Jobs /\ j <= added
  BY <1>a, Numbers
<1>f1. \A t \in Services, j \in Jobs : BeingRun(t, j)' <=> BeingRun(t, j)
  BY DEF BeingRun, IsFirst
<1>f2. /\ \A t \in Services : running'[t] => running[t]
       /\ \A t \in Services : loop'[t] \notin {"exec", "running"} => due[t] = {}
       /\ \A t \in Services : t > made => loop'[t] = loop[t]
  OBVIOUS
<1>f3. UNCHANGED <<file, store, due, first, made, at, added, removed, runs, foreign>>
  OBVIOUS
<1>f4. /\ \A j \in Jobs : copy'[j] = copy[j] \/ (copy'[j] = NoCopy /\ copy'[j].service = 0)
       /\ \A j \in Jobs : j > added => copy'[j] = NoCopy
  BY <1>a DEF Fresh
<1>g. \A j \in Jobs : copy'[j].service # 0 => copy'[j].service = copy[j].service
  BY <1>f4
<1>f5. \A loaded \in cli' : loaded \in cli \/ loaded = file
  OBVIOUS
<1>t1. cli' \in SUBSET [Jobs -> [in : BOOLEAN, on : BOOLEAN]]
  BY <1>a DEF TypeOK
<1>1. TypeOK'
  BY <1>a, <1>n, <1>t1, <1>f1, <1>f2, <1>f3, <1>f4, <1>f5 DEF TypeOK
<1>2. Later'
  BY <1>a, <1>n, <1>f1, <1>f2, <1>f3, <1>f4, <1>f5 DEF Later
<1>3. Fresh'
  BY <1>a, <1>n, <1>f1, <1>f2, <1>f3, <1>f4, <1>f5 DEF Later, Fresh
<1>4. OnlyIn'
  <2>1. \A loaded \in cli', j \in Jobs : loaded[j].on => loaded[j].in
    BY <1>a, <1>f5 DEF OnlyIn
  <2>2. /\ \A j \in Jobs : file'[j].on => file'[j].in
        /\ \A t \in Services, j \in Jobs : store'[t][j].on => store'[t][j].in
        /\ \A t \in Services, j \in Jobs : ~store'[t][j].in => store'[t][j].next = None
    BY <1>a, <1>f3 DEF OnlyIn
  <2> QED BY <2>1, <2>2 DEF OnlyIn
<1>5. CopyInv'
  <2>1. ASSUME NEW j \in Jobs, copy'[j].service # 0  PROVE  copy'[j].next # None
    BY <2>1, <1>a, <1>n, <1>f1, <1>f2, <1>f3, <1>f4, <1>f5 DEF CopyInv
  <2>2. ASSUME NEW j \in OneShot, copy'[j].service # 0  PROVE  copy'[j].next = at'[j]
    BY <2>2, <1>a, <1>n, <1>f1, <1>f2, <1>f3, <1>f4, <1>f5 DEF CopyInv
  <2>3. ASSUME NEW j \in Jobs, NEW t \in Services, t < copy'[j].service
        PROVE  store'[t][j] = Absent /\ j \notin due'[t]
    <3>1. copy[j].service = copy'[j].service
      BY <2>3, <1>g, copy' \in [Jobs -> [service : 0 .. made, next : Nat \cup {None}]]
    <3> QED BY <2>3, <3>1, <1>a, <1>f3 DEF CopyInv
  <2> QED BY <2>1, <2>2, <2>3 DEF CopyInv
<1>6. InStep'
  BY <1>a, <1>n, <1>f1, <1>f2, <1>f3, <1>f4, <1>f5 DEF InStep
<1>7. DueInv'
  <2>1. /\ \A j \in OneShot, t \in Services : j \in due'[t] => at'[j] = 0
        /\ \A j \in OneShot, t \in Services : j \in due'[t] /\ ~BeingRun(t, j)' => runs'[j] = 0
        /\ \A j \in OneShot, r, t \in Services : j \in due'[t] /\ j \in due'[r] => r = t
    BY <1>a, <1>f1, <1>f3 DEF DueInv
  <2>2. ASSUME NEW j \in OneShot, NEW r \in Services, NEW t \in Services, j \in due'[t], running'[r]
        PROVE  r = t \/ store'[r][j].next = None
    BY <1>a, <2>2, <1>f2, <1>f3 DEF DueInv
  <2>3. ASSUME NEW j \in OneShot, NEW r \in Services, NEW t \in Services,
               j \in due'[t], running'[r], copy'[j].service = r
        PROVE  r = t
    <3>0. j \in Jobs /\ r # 0
      BY Ranges
    <3>1. copy[j].service = r
      BY <2>3, <3>0, <1>g
    <3> QED BY <1>a, <2>3, <3>1, <1>f2, <1>f3 DEF DueInv
  <2> QED BY <2>1, <2>2, <2>3 DEF DueInv
<1>8. RunInv'
  <2>1. \A j \in OneShot : runs'[j] <= 1 /\ (runs'[j] = 1 => at'[j] = 0)
    BY <1>a, <1>f3 DEF RunInv
  <2>2. ASSUME NEW j \in OneShot, NEW r \in Services, runs'[j] = 1, running'[r]
        PROVE  BeingRun(r, j)' \/ store'[r][j].next = None
    BY <1>a, <2>2, <1>f1, <1>f2, <1>f3 DEF RunInv
  <2>3. ASSUME NEW j \in OneShot, NEW r \in Services, runs'[j] = 1, running'[r], copy'[j].service = r
        PROVE  BeingRun(r, j)' \/ ~store'[r][j].in
    <3>0. j \in Jobs /\ r # 0
      BY Ranges
    <3>1. copy[j].service = r
      BY <2>3, <3>0, <1>g
    <3> QED BY <1>a, <2>3, <3>1, <1>f1, <1>f2, <1>f3 DEF RunInv
  <2> QED BY <2>1, <2>2, <2>3 DEF RunInv
<1>9. Kept'
  BY <1>a, <1>n, <1>f1, <1>f2, <1>f3, <1>f4, <1>f5 DEF Later, Fresh, OnlyIn, CopyInv, Kept
<1>10. Gone'
  BY <1>a, <1>n, <1>f1, <1>f2, <1>f3, <1>f4, <1>f5 DEF Later, Fresh, Gone
<1> QED BY <1>1, <1>2, <1>3, <1>4, <1>5, <1>6, <1>7, <1>8, <1>9, <1>10 DEF CronInv

\* The command line writes the file; it adds no job.
LEMMA CliSaveStep ==
  ASSUME CronInv, NEW i \in Jobs, NEW in \in BOOLEAN, NEW on \in BOOLEAN, CliSave(i,
         in, on)
  PROVE  CronInv'
<1> USE DEF None, Absent, NoCopy, Jobs, Services
<1>a. TypeOK /\ Later /\ Fresh /\ OnlyIn /\ CopyInv /\ InStep /\ DueInv /\ RunInv /\ Kept /\ Gone
  BY DEF CronInv
<1>n. /\ first \in Nat /\ made \in Nat /\ added \in Nat
      /\ \A j \in Jobs : /\ at[j] \in Nat /\ runs[j] \in Nat
                        /\ copy[j].service \in 0 .. made
      /\ \A j \in removed : j \in Jobs /\ j <= added
  BY <1>a, Numbers
<1>p. PICK loaded \in cli : loaded[i].in /\ file' = [loaded EXCEPT ![i] = [in |-> in, on |-> in /\ on]]
  BY DEF CliSave
<1>b. loaded \in [Jobs -> [in : BOOLEAN, on : BOOLEAN]]
  BY <1>a DEF TypeOK
<1>c. [in |-> in, on |-> in /\ on] \in [in : BOOLEAN, on : BOOLEAN]
  OBVIOUS
<1>t1. file' \in [Jobs -> [in : BOOLEAN, on : BOOLEAN]]
  BY <1>p, <1>b, <1>c
<1>f1. /\ \A j \in Jobs : j # i => file'[j] = loaded[j]
       /\ file'[i].on => file'[i].in
       /\ loaded[i].in /\ loaded \in cli
  BY <1>p, <1>b
<1>f2. UNCHANGED <<store, due, loop, running, first, made, at, added, copy, removed, runs>>
  BY DEF CliSave, loopVars, procVars, toolVars
<1>f3. cli' = {} /\ foreign'
  BY DEF CliSave
<1>f4. \A t \in Services, j \in Jobs : BeingRun(t, j)' <=> BeingRun(t, j)
  BY <1>f2 DEF BeingRun, IsFirst
<1>t2. foreign' \in BOOLEAN
  BY DEF CliSave
<1>1. TypeOK'
  BY <1>a, <1>n, <1>t1, <1>t2, <1>f1, <1>f2, <1>f3, <1>f4 DEF TypeOK
<1>2. Later'
  BY <1>a, <1>n, <1>f1, <1>f2, <1>f3, <1>f4 DEF Later
<1>3. Fresh'
  BY <1>a, <1>n, <1>f1, <1>f2, <1>f3, <1>f4 DEF Later, Fresh
<1>4. OnlyIn'
  BY <1>a, <1>n, <1>f1, <1>f2, <1>f3, <1>f4 DEF OnlyIn
<1>5. CopyInv'
  BY <1>a, <1>n, <1>f1, <1>f2, <1>f3, <1>f4 DEF Later, Fresh, CopyInv
<1>6. InStep'
  BY <1>a, <1>n, <1>f1, <1>f2, <1>f3, <1>f4 DEF InStep
<1>7. DueInv'
  BY <1>a, <1>f2, <1>f4 DEF DueInv
<1>8. RunInv'
  BY <1>a, <1>f2, <1>f4 DEF RunInv
<1>9. Kept'
  BY <1>a, <1>n, <1>f1, <1>f2, <1>f3, <1>f4 DEF Later, Fresh, OnlyIn, CopyInv, Kept
<1>10. Gone'
  BY <1>a, <1>n, <1>f1, <1>f2, <1>f3, <1>f4 DEF Later, Fresh, Gone
<1> QED BY <1>1, <1>2, <1>3, <1>4, <1>5, <1>6, <1>7, <1>8, <1>9, <1>10 DEF CronInv

\* The command line adds a job to what it has loaded; no service knows it.
LEMMA CliAddStep ==
  ASSUME CronInv, CliAdd
  PROVE  CronInv'
<1> USE DEF None, Absent, NoCopy, Jobs, Services
<1>a. TypeOK /\ Later /\ Fresh /\ OnlyIn /\ CopyInv /\ InStep /\ DueInv /\ RunInv /\ Kept /\ Gone
  BY DEF CronInv
<1>n. /\ first \in Nat /\ made \in Nat /\ added \in Nat
      /\ \A j \in Jobs : /\ at[j] \in Nat /\ runs[j] \in Nat
                        /\ copy[j].service \in 0 .. made
      /\ \A j \in removed : j \in Jobs /\ j <= added
  BY <1>a, Numbers
<1> DEFINE i == added + 1
<1>i. i \in Jobs /\ added < i /\ added' = i /\ i <= NumJobs
  BY <1>n DEF CliAdd
<1>p. PICK loaded \in cli : file' = [loaded EXCEPT ![i] = [in |-> TRUE, on |-> TRUE]]
  BY DEF CliAdd
<1> HIDE DEF i
<1>b. loaded \in [Jobs -> [in : BOOLEAN, on : BOOLEAN]]
  BY <1>a DEF TypeOK
<1>t1. file' \in [Jobs -> [in : BOOLEAN, on : BOOLEAN]]
  BY <1>i, <1>p, <1>b
<1>f1. /\ \A j \in Jobs : j # i => file'[j] = loaded[j]
       /\ file'[i].in /\ loaded \in cli
  BY <1>i, <1>p, <1>b
<1>f2. UNCHANGED <<store, due, loop, running, first, made, at, copy, removed, runs>>
  BY DEF CliAdd, loopVars, procVars
<1>f3. cli' = {} /\ foreign'
  BY DEF CliAdd
<1>f4. \A t \in Services, j \in Jobs : BeingRun(t, j)' <=> BeingRun(t, j)
  BY <1>f2 DEF BeingRun, IsFirst
<1>t2. foreign' \in BOOLEAN
  BY DEF CliAdd
<1>t3. added' \in 0 .. NumJobs /\ removed' \in SUBSET (1 .. added')
  BY <1>a, <1>n, <1>i, <1>f2 DEF TypeOK
<1>1. TypeOK'
  BY <1>a, <1>t1, <1>t2, <1>t3, <1>f2, <1>f3 DEF TypeOK
<1>2. Later'
  BY <1>a, <1>f2 DEF Later
<1>3. Fresh'
  BY <1>a, <1>n, <1>i, <1>f1, <1>f2, <1>f3 DEF Fresh
<1>4. OnlyIn'
  BY <1>a, <1>f1, <1>f2, <1>f3 DEF OnlyIn
<1>5. CopyInv'
  BY <1>a, <1>f2 DEF CopyInv
<1>6. InStep'
  BY <1>a, <1>f2 DEF InStep
<1>7. DueInv'
  BY <1>a, <1>f2, <1>f4 DEF DueInv
<1>8. RunInv'
  BY <1>a, <1>f2, <1>f4 DEF RunInv
<1>9. Kept'
  BY <1>a, <1>f2 DEF Kept
<1>10. Gone'
  BY <1>f3 DEF Gone
<1> QED BY <1>1, <1>2, <1>3, <1>4, <1>5, <1>6, <1>7, <1>8, <1>9, <1>10 DEF CronInv

\* A crash leaves the file and what was executed.
LEMMA CrashStep ==
  ASSUME CronInv, Crash
  PROVE  CronInv'
<1> USE DEF None, Absent, NoCopy, Jobs, Services
<1>a. TypeOK /\ Later /\ Fresh /\ OnlyIn /\ CopyInv /\ InStep /\ DueInv /\ RunInv /\ Kept /\ Gone
  BY DEF CronInv
<1>n. /\ first \in Nat /\ made \in Nat /\ added \in Nat
      /\ \A j \in Jobs : /\ at[j] \in Nat /\ runs[j] \in Nat
                        /\ copy[j].service \in 0 .. made
      /\ \A j \in removed : j \in Jobs /\ j <= added
  BY <1>a, Numbers
<1>f1. /\ \A t \in Services, j \in Jobs :
            /\ store'[t][j] = Absent /\ store'[t][j].next = None
            /\ ~store'[t][j].on /\ ~store'[t][j].in
       /\ \A t \in Services : ~running'[t] /\ loop'[t] = "off" /\ due'[t] = {}
       /\ \A j \in Jobs : copy'[j] = NoCopy /\ copy'[j].service = 0
  BY DEF Crash
<1>f2. UNCHANGED <<file, made, at, added, removed, runs, cli, foreign>> /\ first' = made + 1
  BY DEF Crash
<1>t2. first' \in Nat \ {0}
  BY <1>n, <1>f2
<1>f3. \A t \in Services, j \in Jobs : ~BeingRun(t, j)'
  BY <1>f1 DEF BeingRun
<1>t1. /\ store' \in [Services -> [Jobs -> JobStates]]
       /\ running' \in [Services -> BOOLEAN]
       /\ loop' \in [Services -> {"off", "plan", "armed", "select", "check", "exec", "running"}]
       /\ due' \in [Services -> SUBSET Jobs]
       /\ copy' \in [Jobs -> [service : 0 .. made, next : Nat \cup {None}]]
  BY <1>n DEF Crash, JobStates
<1>1. TypeOK'
  BY <1>a, <1>n, <1>t2, <1>t1, <1>f1, <1>f2, <1>f3 DEF TypeOK
<1>2. Later'
  BY <1>a, <1>n, <1>f1, <1>f2, <1>f3 DEF Later
<1>3. Fresh'
  BY <1>a, <1>n, <1>f1, <1>f2, <1>f3 DEF Later, Fresh
<1>4. OnlyIn'
  BY <1>a, <1>n, <1>f1, <1>f2, <1>f3 DEF OnlyIn
<1>5. CopyInv'
  BY <1>a, <1>n, <1>f1, <1>f2, <1>f3 DEF Later, Fresh, CopyInv
<1>6. InStep'
  BY <1>a, <1>n, <1>f1, <1>f2, <1>f3 DEF InStep
<1>7. DueInv'
  BY <1>a, <1>n, <1>f1, <1>f2, <1>f3 DEF Later, Fresh, OnlyIn, CopyInv, InStep, DueInv, RunInv
<1>8. RunInv'
  BY <1>a, <1>n, <1>f1, <1>f2, <1>f3 DEF Later, Fresh, OnlyIn, CopyInv, InStep, DueInv, RunInv
<1>9. Kept'
  BY <1>a, <1>n, <1>f1, <1>f2, <1>f3 DEF Later, Fresh, OnlyIn, CopyInv, Kept
<1>10. Gone'
  BY <1>a, <1>n, <1>f1, <1>f2, <1>f3 DEF Later, Fresh, Gone
<1> QED BY <1>1, <1>2, <1>3, <1>4, <1>5, <1>6, <1>7, <1>8, <1>9, <1>10 DEF CronInv

\* Start computes the next runs anew: none for a one-shot whose time has come.
LEMMA StartStep ==
  ASSUME CronInv, Start
  PROVE  CronInv'
<1> USE DEF None, Absent, NoCopy, Jobs, Services
<1>a. TypeOK /\ Later /\ Fresh /\ OnlyIn /\ CopyInv /\ InStep /\ DueInv /\ RunInv /\ Kept /\ Gone
  BY DEF CronInv
<1>n. /\ first \in Nat /\ made \in Nat /\ added \in Nat
      /\ \A j \in Jobs : /\ at[j] \in Nat /\ runs[j] \in Nat
                        /\ copy[j].service \in 0 .. made
      /\ \A j \in removed : j \in Jobs /\ j <= added
  BY <1>a, Numbers
<1> DEFINE s == made + 1
           st == [j \in Jobs |-> [in |-> file[j].in, on |-> file[j].on,
                                  next |-> IF file[j].on THEN ComputeNextRun(j) ELSE None]]
<1>s. s \in Services /\ s \in Nat
  BY <1>n DEF Start
<1>c. \A j \in Jobs : ComputeNextRun(j) \in Nat \cup {None}
  BY <1>n DEF ComputeNextRun
<1>t3. st \in [Jobs -> JobStates]
  BY <1>a, <1>c DEF TypeOK, JobStates
<1>d. \A j \in Jobs : /\ st[j].in <=> file[j].in
                      /\ st[j].on <=> file[j].on
                      /\ file[j].on => st[j].next = ComputeNextRun(j)
                      /\ ~file[j].on => st[j].next = None
                      /\ ~file[j].in /\ ~file[j].on => st[j] = Absent
  BY <1>a DEF TypeOK
<1>e. store' = [store EXCEPT ![s] = st] /\ made' = s
  BY DEF Start
<1> HIDE DEF st
<1>g. \A j \in Jobs : store'[s][j] = st[j]
  BY <1>a, <1>s, <1>e DEF TypeOK
<1>h. /\ \A j \in OneShot : ComputeNextRun(j) \in {None, at[j]} /\ (at[j] = 0 => ComputeNextRun(j) = None)
      /\ \A j \in Jobs \ OneShot : ComputeNextRun(j) # None
  BY <1>n DEF ComputeNextRun
<1>f1. /\ \A t \in Services, j \in Jobs : t # s => store'[t][j] = store[t][j]
       /\ \A j \in Jobs : store'[s][j].in <=> file[j].in
       /\ \A j \in Jobs : store'[s][j].on <=> file[j].on
  BY <1>a, <1>s, <1>d, <1>e, <1>g DEF TypeOK
<1>f2. /\ \A j \in Jobs : ~file[j].on => store'[s][j].next = None
       /\ \A j \in OneShot : store'[s][j].next \in {None, at[j]}
       /\ \A j \in OneShot : at[j] = 0 => store'[s][j].next = None
       /\ \A j \in Jobs \ OneShot : file[j].on => store'[s][j].next # None
  BY <1>d, <1>g, <1>h
<1>f7. \A j \in Jobs : j > added => store'[s][j] = Absent
  BY <1>a, <1>d, <1>g DEF Fresh, OnlyIn
<1>f3. /\ s = made + 1 /\ made' = s
       /\ \A t \in Services : running'[t] => t = s
       /\ \A t \in Services : t # s => loop'[t] = loop[t]
       /\ due[s] = {} /\ loop'[s] = "plan"
  BY <1>a, <1>n, <1>s DEF Start, TypeOK, Later, Live
<1>f4. UNCHANGED <<file, due, first, at, added, copy, removed, runs, cli, foreign>>
  BY DEF Start, toolVars
<1>f5. /\ \A t \in Services, j \in Jobs : BeingRun(t, j)' <=> BeingRun(t, j)
       /\ \A j \in Jobs : ~BeingRun(s, j)
  BY <1>a, <1>n, <1>f3, <1>f4 DEF BeingRun, IsFirst, Later
<1>f6. s \in Services
  BY <1>s
<1>t1. /\ store' \in [Services -> [Jobs -> JobStates]]
       /\ running' \in [Services -> BOOLEAN]
       /\ loop' \in [Services -> {"off", "plan", "armed", "select", "check", "exec", "running"}]
       /\ copy' \in [Jobs -> [service : 0 .. made', next : Nat \cup {None}]]
       /\ made' \in 0 .. NumServices
  BY <1>a, <1>s, <1>e, <1>t3 DEF Start, TypeOK, toolVars
<1> HIDE DEF s
<1>1. TypeOK'
  BY <1>a, <1>n, <1>t3, <1>t1, <1>f1, <1>f2, <1>f7, <1>f3, <1>f4, <1>f5, <1>f6 DEF TypeOK
<1>2. Later'
  BY <1>a, <1>n, <1>f1, <1>f2, <1>f7, <1>f3, <1>f4, <1>f5, <1>f6 DEF Later
<1>3. Fresh'
  BY <1>a, <1>n, <1>f1, <1>f2, <1>f7, <1>f3, <1>f4, <1>f5, <1>f6 DEF Later, Fresh
<1>4. OnlyIn'
  BY <1>a, <1>f1, <1>f2, <1>f4, <1>f6 DEF OnlyIn
<1>5. CopyInv'
  <2>1. ASSUME NEW j \in Jobs, copy'[j].service # 0  PROVE  copy'[j].next # None
    BY <2>1, <1>a, <1>n, <1>f1, <1>f2, <1>f7, <1>f3, <1>f4, <1>f5, <1>f6 DEF CopyInv
  <2>2. ASSUME NEW j \in OneShot, copy'[j].service # 0  PROVE  copy'[j].next = at'[j]
    BY <2>2, <1>a, <1>n, <1>f1, <1>f2, <1>f7, <1>f3, <1>f4, <1>f5, <1>f6 DEF CopyInv
  <2>3. ASSUME NEW j \in Jobs, NEW t \in Services, t < copy'[j].service
        PROVE  store'[t][j] = Absent /\ j \notin due'[t]
    BY <2>3, <1>a, <1>n, <1>f1, <1>f2, <1>f7, <1>f3, <1>f4, <1>f5, <1>f6 DEF CopyInv
  <2> QED BY <2>1, <2>2, <2>3 DEF CopyInv
<1>6. InStep'
  BY <1>a, <1>f1, <1>f2, <1>f4 DEF InStep
<1>7. DueInv'
    BY <1>a, <1>n, <1>f1, <1>f2, <1>f7, <1>f3, <1>f4, <1>f5, <1>f6 DEF Later, Fresh,
     OnlyIn, CopyInv, InStep, DueInv, RunInv
<1>8. RunInv'
    BY <1>a, <1>n, <1>f1, <1>f2, <1>f7, <1>f3, <1>f4, <1>f5, <1>f6 DEF Later, Fresh,
     OnlyIn, CopyInv, InStep, DueInv, RunInv
<1>9. Kept'
  BY <1>a, <1>f1, <1>f2, <1>f4 DEF Kept
<1>10. Gone'
  BY <1>a, <1>n, <1>f1, <1>f2, <1>f7, <1>f3, <1>f4, <1>f5, <1>f6 DEF Later, Fresh, Gone
<1> QED BY <1>1, <1>2, <1>3, <1>4, <1>5, <1>6, <1>7, <1>8, <1>9, <1>10 DEF CronInv

\* Time passes for the jobs, the stores and the copies alike.
LEMMA TickStep ==
  ASSUME CronInv, Tick
  PROVE  CronInv'
<1> USE DEF None, Absent, NoCopy, Jobs, Services
<1>a. TypeOK /\ Later /\ Fresh /\ OnlyIn /\ CopyInv /\ InStep /\ DueInv /\ RunInv /\ Kept /\ Gone
  BY DEF CronInv
<1>n. /\ first \in Nat /\ made \in Nat /\ added \in Nat
      /\ \A j \in Jobs : /\ at[j] \in Nat /\ runs[j] \in Nat
                        /\ copy[j].service \in 0 .. made
      /\ \A j \in removed : j \in Jobs /\ j <= added
  BY <1>a, Numbers
<1>b. /\ \A n \in Nat \cup {None} : Down(n) \in Nat \cup {None} /\ (Down(n) = None <=> n = None)
      /\ Down(0) = 0
  BY DEF Down
<1>d. \A t \in Services, j \in Jobs : store'[t][j] = [store[t][j] EXCEPT !.next = Down(@)]
  BY <1>a DEF Tick, TypeOK
<1>c. \A t \in Services, j \in Jobs :
        /\ store'[t][j] \in JobStates
        /\ (store'[t][j].in <=> store[t][j].in) /\ (store'[t][j].on <=> store[t][j].on)
        /\ store'[t][j].next = Down(store[t][j].next)
  <2> TAKE t \in Services, j \in Jobs
  <2> DEFINE q == store[t][j]
           r == store'[t][j]
  <2>1. q \in JobStates
    BY <1>a DEF TypeOK
  <2>2. r = [q EXCEPT !.next = Down(@)]
    BY <1>d
  <2> HIDE DEF q, r
  <2>3. /\ r \in JobStates
        /\ (r.in <=> q.in) /\ (r.on <=> q.on) /\ r.next = Down(q.next)
    BY <1>b, <2>1, <2>2 DEF JobStates
  <2> QED BY <2>3 DEF q, r
<1>f1. /\ \A t \in Services, j \in Jobs : store'[t][j].next = Down(store[t][j].next)
       /\ \A t \in Services, j \in Jobs : store'[t][j].in <=> store[t][j].in
       /\ \A t \in Services, j \in Jobs : store'[t][j].on <=> store[t][j].on
  BY <1>c
<1>f7. \A t \in Services, j \in Jobs : store[t][j] = Absent => store'[t][j] = Absent
  <2> TAKE t \in Services, j \in Jobs
  <2> HAVE store[t][j] = Absent
  <2> QED BY <1>b, <1>d
<1>e. \A t \in Services, j \in Jobs : store[t][j].next \in Nat \cup {None}
  BY <1>a DEF TypeOK, JobStates
<1>f6. \A t \in Services, j \in Jobs : store'[t][j].next = None <=> store[t][j].next = None
  BY <1>b, <1>f1, <1>e
<1>f2. /\ \A j \in Jobs : copy'[j].next = Down(copy[j].next)
       /\ \A j \in Jobs : copy'[j].service = copy[j].service
       /\ \A j \in Jobs : copy'[j].next = None <=> copy[j].next = None
       /\ \A j \in Jobs : copy[j] = NoCopy => copy'[j] = NoCopy
  BY <1>a, <1>b DEF Tick, TypeOK
<1>f3. /\ \A j \in OneShot : j <= added => at'[j] = Down(at[j])
       /\ \A j \in Jobs : j > added => at'[j] = at[j]
       /\ \A j \in Jobs : at[j] = 0 => at'[j] = 0
  BY <1>a, <1>n, <1>b DEF Tick, TypeOK
<1>f4. UNCHANGED <<file, running, loop, due, first, made, added, removed, runs, cli, foreign>>
  BY DEF Tick, procVars
<1>f5. \A t \in Services, j \in Jobs : BeingRun(t, j)' <=> BeingRun(t, j)
  BY <1>f4 DEF BeingRun, IsFirst
<1>t1. store' \in [Services -> [Jobs -> JobStates]]
  BY <1>a, <1>c DEF Tick, TypeOK
<1>t2. copy' \in [Jobs -> [service : 0 .. made, next : Nat \cup {None}]]
  <2>1. ASSUME NEW j \in Jobs
        PROVE  [copy[j] EXCEPT !.next = Down(@)] \in [service : 0 .. made, next : Nat \cup {None}]
    <3> DEFINE q == copy[j]
    <3>1. q \in [service : 0 .. made, next : Nat \cup {None}]
      BY <1>a DEF TypeOK
    <3> HIDE DEF q
    <3>2. [q EXCEPT !.next = Down(@)] \in [service : 0 .. made, next : Nat \cup {None}]
      BY <1>b, <3>1
    <3> QED BY <3>2 DEF q
  <2> QED BY <2>1 DEF Tick
<1>g. \A j \in Jobs : Down(at[j]) \in Nat
  BY <1>n DEF Down
<1>t3. at' \in [Jobs -> Nat]
  BY <1>n, <1>g DEF Tick
<1>1. TypeOK'
    BY <1>a, <1>n, <1>t1, <1>t2, <1>t3, <1>f1, <1>f7, <1>f6, <1>f2, <1>f3, <1>f4, <1>f5
     DEF TypeOK
<1>2. Later'
  BY <1>a, <1>n, <1>f1, <1>f7, <1>f6, <1>f2, <1>f3, <1>f4, <1>f5 DEF Later
<1>3. Fresh'
  BY <1>a, <1>n, <1>f1, <1>f7, <1>f6, <1>f2, <1>f3, <1>f4, <1>f5 DEF Later, Fresh
<1>4. OnlyIn'
  BY <1>a, <1>n, <1>f1, <1>f7, <1>f6, <1>f2, <1>f3, <1>f4, <1>f5 DEF OnlyIn
<1>5. CopyInv'
  BY <1>a, <1>n, <1>f1, <1>f7, <1>f6, <1>f2, <1>f3, <1>f4, <1>f5 DEF Later, Fresh, CopyInv
<1>6. InStep'
  BY <1>a, <1>n, <1>f1, <1>f3, <1>f6, <1>f7 DEF InStep, Fresh
<1>7. DueInv'
  <2>1. \A j \in OneShot, t \in Services : j \in due'[t] => at'[j] = 0
    BY <1>a, <1>f3, <1>f4 DEF DueInv
  <2>2. \A j \in OneShot, r \in Services : store[r][j].next = None => store'[r][j].next = None
    BY <1>f6
  <2>3. \A j \in OneShot : copy'[j].service = copy[j].service
    BY <1>f2
  <2>4. /\ \A j \in OneShot, t \in Services : j \in due'[t] /\ ~BeingRun(t, j)' => runs'[j] = 0
        /\ \A j \in OneShot, r, t \in Services : j \in due'[t] /\ j \in due'[r] => r = t
    BY <1>a, <1>f4, <1>f5 DEF DueInv
  <2>5. \A j \in OneShot, r, t \in Services :
          j \in due'[t] /\ running'[r] => r = t \/ store'[r][j].next = None
    BY <1>a, <1>f4, <2>2 DEF DueInv
  <2>6. ASSUME NEW j \in OneShot, NEW r \in Services, NEW t \in Services, j \in due'[t], running'[r]
        PROVE  r = t \/ copy'[j].service # r
    BY <1>a, <1>f4, <2>3, <2>6 DEF DueInv
  <2> QED BY <2>1, <2>4, <2>5, <2>6 DEF DueInv
<1>8. RunInv'
    BY <1>a, <1>n, <1>f1, <1>f7, <1>f6, <1>f2, <1>f3, <1>f4, <1>f5 DEF Later, Fresh,
     OnlyIn, CopyInv, InStep, DueInv, RunInv
<1>9. Kept'
    BY <1>a, <1>n, <1>f1, <1>f7, <1>f6, <1>f2, <1>f3, <1>f4, <1>f5 DEF Later, Fresh,
     OnlyIn, CopyInv, Kept
<1>10. Gone'
  BY <1>a, <1>n, <1>f1, <1>f7, <1>f6, <1>f2, <1>f3, <1>f4, <1>f5 DEF Later, Fresh, Gone
<1> QED BY <1>1, <1>2, <1>3, <1>4, <1>5, <1>6, <1>7, <1>8, <1>9, <1>10 DEF CronInv

\* The steps of the loop that only move it.
LEMMA LoopMoves ==
  ASSUME CronInv, NEW s \in Services, s \in Live,
         Plan(s) \/ Select(s) \/ Wakes(s) \/ Checked(s)
         \/ (CheckJobs(s) /\ ~running[s])
  PROVE  CronInv'
<1>a. TypeOK /\ Later /\ Fresh
  BY DEF CronInv
<1>n. made \in Nat /\ s <= made
  BY <1>a, Numbers DEF Live
<1>1. /\ UNCHANGED <<file, store, due, first, made, at, added, removed, runs, foreign, running, copy, cli>>
      /\ loop[s] \in {"plan", "armed", "select", "check", "exec"}
      /\ \E l \in {"off", "plan", "armed", "select", "check", "exec"} :
           loop' = [loop EXCEPT ![s] = l] /\ (l = "exec" \/ due[s] = {})
  BY <1>a DEF Plan, Select, Wakes, Checked, CheckJobs, procVars, toolVars, Later
<1>2. PICK l \in {"off", "plan", "armed", "select", "check", "exec"} :
        loop' = [loop EXCEPT ![s] = l] /\ (l = "exec" \/ due[s] = {})
  BY <1>1
<1>3. /\ loop' \in [Services -> {"off", "plan", "armed", "select", "check", "exec", "running"}]
      /\ \A t \in Services : t # s => loop'[t] = loop[t]
      /\ loop'[s] = l
  BY <1>a, <1>2 DEF TypeOK
<1>b. loop'[s] # "running" /\ loop[s] # "running"
  BY <1>1, <1>2, <1>3
<1>4. /\ \A t \in Services : loop'[t] = "running" <=> loop[t] = "running"
      /\ \A t \in Services : t > made => loop'[t] = loop[t]
  BY <1>b, <1>3, <1>n DEF Services
<1>5. \A t \in Services : loop'[t] \notin {"exec", "running"} => due[t] = {}
  BY <1>a, <1>2, <1>3 DEF Later
<1>6. /\ running' \in [Services -> BOOLEAN] /\ \A t \in Services : running'[t] => running[t]
      /\ copy' \in [Jobs -> [service : 0 .. made, next : Nat \cup {None}]]
      /\ cli' \subseteq cli \cup {file}
  BY <1>a, <1>1 DEF TypeOK
<1> QED BY <1>1, <1>3, <1>4, <1>5, <1>6, QuietStep

\* Stop.
LEMMA StopStep ==
  ASSUME CronInv, Stop
  PROVE  CronInv'
<1>a. TypeOK /\ Later
  BY DEF CronInv
<1>1. UNCHANGED <<file, store, due, first, made, at, added, removed, runs, foreign, loop, copy, cli>>
  BY DEF Stop, procVars, toolVars
<1>2. running' \in [Services -> BOOLEAN] /\ \A t \in Services : running'[t] => running[t]
  BY <1>a DEF Stop, TypeOK
<1>3. /\ loop' \in [Services -> {"off", "plan", "armed", "select", "check", "exec", "running"}]
      /\ \A t \in Services : loop'[t] \notin {"exec", "running"} => due[t] = {}
      /\ copy' \in [Jobs -> [service : 0 .. made, next : Nat \cup {None}]]
  BY <1>a, <1>1 DEF TypeOK, Later
<1> QED BY <1>1, <1>2, <1>3, QuietStep

\* UpdateJob of a job that is gone.
LEMMA UpdateGone ==
  ASSUME CronInv, NEW s \in Services, NEW i \in Jobs, Update(s, i), ~store[s][i].in
  PROVE  CronInv'
<1>a. TypeOK /\ Later
  BY DEF CronInv
<1>n. made \in Nat
  BY <1>a, Numbers
<1>1. /\ UNCHANGED <<file, store, due, first, made, at, added, removed, runs, foreign, loop, running, cli>>
      /\ copy' = [copy EXCEPT ![i] = NoCopy]
  BY DEF Update, procVars
<1>b. NoCopy \in [service : 0 .. made, next : Nat \cup {None}]
  BY <1>n DEF NoCopy
<1>2. /\ copy' \in [Jobs -> [service : 0 .. made, next : Nat \cup {None}]]
      /\ \A j \in Jobs : copy'[j] = copy[j] \/ copy'[j] = NoCopy
  BY <1>a, <1>b, <1>1 DEF TypeOK
<1>3. /\ loop' \in [Services -> {"off", "plan", "armed", "select", "check", "exec", "running"}]
      /\ \A t \in Services : loop'[t] \notin {"exec", "running"} => due[t] = {}
      /\ running' \in [Services -> BOOLEAN]
  BY <1>a, <1>1 DEF TypeOK, Later
<1> QED BY <1>1, <1>2, <1>3, QuietStep

\* Loading the file on the command line, and stuttering.
LEMMA CliLoadStep ==
  ASSUME CronInv, CliLoad \/ UNCHANGED vars
  PROVE  CronInv'
<1>a. TypeOK /\ Later
  BY DEF CronInv
<1>1. /\ UNCHANGED <<file, store, due, first, made, at, added, removed, runs, foreign, loop, running, copy>>
      /\ cli' \subseteq cli \cup {file}
  BY DEF CliLoad, loopVars, procVars, toolVars, vars
<1>2. /\ loop' \in [Services -> {"off", "plan", "armed", "select", "check", "exec", "running"}]
      /\ \A t \in Services : loop'[t] \notin {"exec", "running"} => due[t] = {}
      /\ running' \in [Services -> BOOLEAN]
      /\ copy' \in [Jobs -> [service : 0 .. made, next : Nat \cup {None}]]
  BY <1>a, <1>1 DEF TypeOK, Later
<1> QED BY <1>1, <1>2, QuietStep

----------------------------------------------------------------------------
\* checkJobs.
LEMMA CheckJobsStep ==
  ASSUME CronInv, NEW s \in Services, s \in Live, CheckJobs(s)
  PROVE  CronInv'
<1>1. CASE running[s]
  BY <1>1, CheckJobsRunningStep
<1>2. CASE ~running[s]
  BY <1>2, LoopMoves
<1> QED BY <1>1, <1>2

\* executeJobByID up to the handler.
LEMMA ExecuteStep ==
  ASSUME CronInv, NEW s \in Services, s \in Live, Execute(s)
  PROVE  CronInv'
<1>1. PICK i \in Jobs :
        /\ IsFirst(s, i)
        /\ IF store[s][i].in
           THEN /\ loop' = [loop EXCEPT ![s] = "running"]
                /\ runs' = IF i \in OneShot THEN [runs EXCEPT ![i] = @ + 1] ELSE runs
                /\ UNCHANGED due
           ELSE /\ due' = [due EXCEPT ![s] = @ \ {i}]
                /\ UNCHANGED <<loop, runs>>
  BY DEF Execute
<1>2. /\ loop[s] = "exec"
      /\ UNCHANGED <<file, store, running, wake, procVars, at, toolVars, cli, foreign>>
  BY DEF Execute
<1>3. CASE store[s][i].in
  BY <1>1, <1>2, <1>3, ExecuteRunStep
<1>4. CASE ~store[s][i].in
  BY <1>1, <1>2, <1>4, ExecuteSkipStep
<1> QED BY <1>3, <1>4

\* executeJobByID after the handler.
LEMMA ExecutedStep ==
  ASSUME CronInv, NEW s \in Services, Executed(s)
  PROVE  CronInv'
<1>1. PICK i \in Jobs :
        /\ IsFirst(s, i)
        /\ IF ~store[s][i].in
           THEN UNCHANGED <<file, store, foreign>>
           ELSE IF i \in OneShot
           THEN Save(s, [store[s] EXCEPT ![i] = Absent])
           ELSE Save(s, [store[s] EXCEPT ![i].next = ComputeNextRun(i)])
        /\ due' = [due EXCEPT ![s] = @ \ {i}]
  BY DEF Executed
<1>2. /\ s \in Live /\ loop[s] = "running"
      /\ loop' = [loop EXCEPT ![s] = "exec"]
      /\ UNCHANGED <<running, wake, procVars, at, toolVars, runs, cli>>
  BY DEF Executed
<1>3. CASE ~store[s][i].in
  BY <1>1, <1>2, <1>3, ExecutedGoneStep
<1>4. CASE store[s][i].in /\ i \in OneShot
  <2>1. Absent \in JobStates
    BY DEF Absent, JobStates, None
  <2> QED BY <1>1, <1>2, <1>4, <2>1, ExecutedEditStep
<1>5. CASE store[s][i].in /\ i \notin OneShot
  <2> DEFINE new == [store[s][i] EXCEPT !.next = ComputeNextRun(i)]
  <2>1. TypeOK
    BY DEF CronInv
  <2>2. ComputeNextRun(i) \in Nat \cup {None} /\ ComputeNextRun(i) # None
    BY <1>5, <2>1, NextRunFacts
  <2>3. new \in JobStates /\ new.in /\ new.next # None
    <3> DEFINE q == store[s][i]
    <3>1. q \in JobStates /\ q.in
      BY <1>5, <2>1 DEF TypeOK
    <3> HIDE DEF q
    <3>2. LET r == [q EXCEPT !.next = ComputeNextRun(i)]
          IN  r \in JobStates /\ r.in /\ r.next # None
      BY <2>2, <3>1 DEF JobStates
    <3> QED BY <3>2 DEF q
  <2>4. Save(s, [store[s] EXCEPT ![i] = new])
    <3>1. [store[s] EXCEPT ![i].next = ComputeNextRun(i)] = [store[s] EXCEPT ![i] = new]
      BY <2>1 DEF TypeOK
    <3> QED BY <1>1, <1>5, <3>1
  <2> HIDE DEF new
  <2> QED BY <1>1, <1>2, <1>5, <2>3, <2>4, ExecutedEditStep
<1> QED BY <1>3, <1>4, <1>5

\* The edits of the tool.
LEMMA EditStep ==
  ASSUME CronInv, NEW s \in Services, s \in Live, Edit(s)
  PROVE  CronInv'
<1>1. CASE Add(s)
  <2>1. added + 1 \in Jobs
    BY <1>1, Numbers DEF Add, CronInv, Jobs
  <2> QED BY <1>1, <2>1, AddStep
<1>2. ASSUME NEW i \in Jobs, Update(s, i)
      PROVE  CronInv'
  BY <1>2, UpdateStep, UpdateGone
<1>3. ASSUME NEW i \in Jobs, Remove(s, i)
      PROVE  CronInv'
  BY <1>3, RemoveStep
<1>4. ASSUME NEW i \in Jobs, NEW on \in BOOLEAN, Enable(s, i, on)
      PROVE  CronInv'
  BY <1>4, EnableStep
<1> QED BY <1>1, <1>2, <1>3, <1>4 DEF Edit

\* The invariant holds at the start.
LEMMA CronInit ==
  ASSUME Init
  PROVE  CronInv
<1> USE DEF Init, NoFile, Absent, NoCopy, Jobs, Services, None
<1>a. /\ [in |-> FALSE, on |-> FALSE] \in [in : BOOLEAN, on : BOOLEAN]
      /\ Absent \in JobStates
      /\ NoCopy \in [service : 0 .. 0, next : Nat \cup {None}]
  BY DEF JobStates
<1>1. TypeOK
  <2>1. /\ file \in [Jobs -> [in : BOOLEAN, on : BOOLEAN]]
        /\ store \in [Services -> [Jobs -> JobStates]]
        /\ copy \in [Jobs -> [service : 0 .. made, next : Nat \cup {None}]]
    BY <1>a
  <2>2. /\ running \in [Services -> BOOLEAN] /\ due \in [Services -> SUBSET Jobs]
        /\ loop \in [Services -> {"off", "plan", "armed", "select", "check", "exec", "running"}]
        /\ at \in [Jobs -> Nat] /\ runs \in [Jobs -> Nat]
    OBVIOUS
  <2>3. first \in Nat \ {0} /\ made \in 0 .. NumServices /\ added \in 0 .. NumJobs
    OBVIOUS
  <2>4. cli \in SUBSET [Jobs -> [in : BOOLEAN, on : BOOLEAN]] /\ foreign \in BOOLEAN
    OBVIOUS
  <2>5. removed \in SUBSET (1 .. added)
    OBVIOUS
  <2> QED BY <2>1, <2>2, <2>3, <2>4, <2>5 DEF TypeOK
<1>2. Later /\ Fresh /\ OnlyIn /\ CopyInv
  BY DEF Later, Fresh, OnlyIn, CopyInv
<1>3. InStep /\ DueInv /\ RunInv
  BY DEF InStep, DueInv, RunInv
<1>4. Kept /\ Gone
  BY DEF Kept, Gone
<1> QED BY <1>1, <1>2, <1>3, <1>4 DEF CronInv

\* Every step keeps the invariant.
LEMMA CronNext ==
  ASSUME CronInv, [Next]_vars
  PROVE  CronInv'
<1>1. CASE Start \/ Stop \/ Crash \/ CliLoad \/ CliAdd \/ Tick \/ UNCHANGED vars
  BY <1>1, StartStep, StopStep, CrashStep, CliLoadStep, CliAddStep, TickStep
<1>2. ASSUME NEW s \in Services, Loops(s)
      PROVE  CronInv'
  BY <1>2, LoopMoves, CheckJobsStep, ExecuteStep DEF Loops
<1>3. ASSUME NEW s \in Services, Executed(s)
      PROVE  CronInv'
  BY <1>3, ExecutedStep
<1>4. ASSUME NEW s \in Services, Edit(s)
      PROVE  CronInv'
  BY EditStep, <1>4 DEF Edit
<1>5. ASSUME NEW i \in Jobs, NEW in \in BOOLEAN, NEW on \in BOOLEAN, CliSave(i, in, on)
      PROVE  CronInv'
  BY <1>5, CliSaveStep
<1> QED BY <1>1, <1>2, <1>3, <1>4, <1>5 DEF Next

----------------------------------------------------------------------------
\* The invariant is an invariant of the specification.
THEOREM Invariance == Spec => []CronInv
<1> QED BY CronInit, CronNext, PTL DEF Spec

\* Type correctness: services that were not made do not run, copies belong to
\* services that were, and removed jobs had been added.
THEOREM TypeCorrect == Spec => []TypeOK
<1>1. CronInv => TypeOK
  BY DEF CronInv
<1> QED BY <1>1, Invariance, PTL

\* No one-shot job is executed twice, whatever reloads, crashes, stale updates and
\* edits in another process come in between.
THEOREM OnceOnly == Spec => []AtMostOnce
<1>1. CronInv => AtMostOnce
  BY DEF CronInv, RunInv, AtMostOnce
<1> QED BY <1>1, Invariance, PTL

\* No enabled recurring job of the running service loses its next run.
THEOREM NoneForgotten == Spec => []NeverForgotten
<1>1. CronInv => NeverForgotten
  BY DEF CronInv, Kept, NeverForgotten, Live, TypeOK, Services, Later
<1> QED BY <1>1, Invariance, PTL

\* A removed job stays removed as long as only the current service writes the file.
THEOREM RemovalIsFinal == Spec => []RemovedStays
<1>1. CronInv => RemovedStays
  BY DEF CronInv, Gone, RemovedStays
<1> QED BY <1>1, Invariance, PTL
==============================================================================
