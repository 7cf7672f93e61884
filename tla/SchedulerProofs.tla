-------------------------- MODULE SchedulerProofs --------------------------
(* Theorems about Scheduler, for any tasks, intervals, edits and failures.   *)
EXTENDS Scheduler, TLAPS

-----------------------------------------------------------------------------
(* Types. *)

LEMMA NewJobType ==
  ASSUME NEW i \in Intervals
  PROVE  NewJob(i) \in Job /\ NewJob(i).age < NewJob(i).interval /\ NewJob(i) # None
<1>1. NewJob(i) \in Job
  BY DEF NewJob, Job
<1>2. 0 < i
  BY IntervalAssumption
<1> QED
  BY <1>1, <1>2, NoneAssumption DEF NewJob

LEMMA JobNotNone == \A j \in Job : j # None
BY NoneAssumption

LEMMA RowNotNone == \A r \in Row : r # None
BY NoneAssumption

\* What is registered after a pass.
LEMMA AppliedType ==
  ASSUME TypeOK, pass # None
  PROVE  /\ Applied \in [Names -> Job \cup {None}]
         /\ \A n \in Names : Applied[n] # None => Applied[n].age < Applied[n].interval
<1>1. \A n \in Names : pass[n] # None => pass[n].interval \in Intervals
  BY DEF TypeOK, Row
<1>2. \A n \in Names : jobs[n] # None => jobs[n] \in Job /\ jobs[n].age < jobs[n].interval
  BY DEF TypeOK
<1> QED
  BY <1>1, <1>2, NewJobType DEF Applied, Kept

LEMMA OutliveType ==
  ASSUME TypeOK, NEW gone \in SUBSET Names, Outlive(gone)
  PROVE  late' \in [Names -> Nat]
BY DEF TypeOK, Outlive

LEMMA TickJobs ==
  ASSUME TypeOK, Tick
  PROVE  /\ jobs' \in [Names -> Job \cup {None}]
         /\ \A n \in Names : /\ jobs'[n] = None <=> jobs[n] = None
                             /\ jobs[n] # None =>
                                  /\ jobs'[n].age < jobs'[n].interval
                                  /\ jobs'[n].interval = jobs[n].interval
                                  /\ jobs'[n].running = jobs[n].running
<1> DEFINE F(j) == IF j.age + 1 < j.interval THEN [j EXCEPT !.age = @ + 1]
                   ELSE [j EXCEPT !.age = 0, !.due = TRUE]
<1>1. jobs' = [n \in Names |-> IF jobs[n] = None THEN None ELSE F(jobs[n])]
  BY DEF Tick
<1>2. ASSUME NEW j \in Job
      PROVE  /\ F(j) \in Job /\ F(j).age < F(j).interval
             /\ F(j).interval = j.interval /\ F(j).running = j.running
  <2>1. j.interval \in Nat \ {0} /\ j.age \in Nat
    BY <1>2, IntervalAssumption DEF Job
  <2>2. CASE j.age + 1 < j.interval
    <3>1. F(j) = [j EXCEPT !.age = j.age + 1]
      BY <2>2
    <3>2. j.age + 1 \in Nat
      BY <2>1
    <3>3. [j EXCEPT !.age = j.age + 1] \in Job
      BY <3>2, <1>2 DEF Job
    <3>4. /\ [j EXCEPT !.age = j.age + 1].age = j.age + 1
          /\ [j EXCEPT !.age = j.age + 1].interval = j.interval
          /\ [j EXCEPT !.age = j.age + 1].running = j.running
      BY <1>2 DEF Job
    <3> HIDE DEF F
    <3> QED
      BY <2>2, <3>1, <3>3, <3>4
  <2>3. CASE ~(j.age + 1 < j.interval)
    <3>1. F(j) = [j EXCEPT !.age = 0, !.due = TRUE]
      BY <2>3
    <3>3. [j EXCEPT !.age = 0, !.due = TRUE] \in Job
      BY <1>2 DEF Job
    <3>4. /\ [j EXCEPT !.age = 0, !.due = TRUE].age = 0
          /\ [j EXCEPT !.age = 0, !.due = TRUE].interval = j.interval
          /\ [j EXCEPT !.age = 0, !.due = TRUE].running = j.running
      BY <1>2 DEF Job
    <3>5. 0 < j.interval
      BY <2>1
    <3> HIDE DEF F
    <3> QED
      BY <3>1, <3>3, <3>4, <3>5
  <2> QED
    BY <2>2, <2>3
<1>3. \A n \in Names : jobs[n] # None => jobs[n] \in Job
  BY DEF TypeOK
<1> HIDE DEF F
<1> QED
  BY <1>1, <1>2, <1>3, JobNotNone

\* What a step of a run does to the job of its name.
LEMMA RunJobs ==
  ASSUME TypeOK, NEW n \in Names,
         RunBegins(n) \/ RunFails(n) \/ RunEnds(n)
  PROVE  /\ jobs[n] # None
         /\ jobs' \in [Names -> Job \cup {None}]
         /\ \A m \in Names : m # n => jobs'[m] = jobs[m]
         /\ jobs'[n] # None
         /\ jobs'[n].age = jobs[n].age /\ jobs'[n].interval = jobs[n].interval
<1>1. jobs[n] # None /\ jobs[n] \in Job
  BY DEF TypeOK, RunBegins, RunFails, RunEnds, Due
<1>2. MayRun(n) \in BOOLEAN
  BY DEF MayRun, TypeOK, Row
<1>3. CASE RunBegins(n)
  <2>1. jobs' = [jobs EXCEPT ![n] = [jobs[n] EXCEPT !.due = FALSE, !.running = MayRun(n)]]
    BY <1>3 DEF RunBegins, TypeOK
  <2>2. /\ [jobs[n] EXCEPT !.due = FALSE, !.running = MayRun(n)] \in Job
        /\ [jobs[n] EXCEPT !.due = FALSE, !.running = MayRun(n)].age = jobs[n].age
        /\ [jobs[n] EXCEPT !.due = FALSE, !.running = MayRun(n)].interval = jobs[n].interval
    BY <1>1, <1>2 DEF Job
  <2> QED
    BY <1>1, <2>1, <2>2, JobNotNone DEF TypeOK
<1>4. CASE RunFails(n)
  <2>1. jobs' = [jobs EXCEPT ![n] = [jobs[n] EXCEPT !.due = FALSE]]
    BY <1>4 DEF RunFails, TypeOK
  <2>2. /\ [jobs[n] EXCEPT !.due = FALSE] \in Job
        /\ [jobs[n] EXCEPT !.due = FALSE].age = jobs[n].age
        /\ [jobs[n] EXCEPT !.due = FALSE].interval = jobs[n].interval
    BY <1>1 DEF Job
  <2> QED
    BY <1>1, <2>1, <2>2, JobNotNone DEF TypeOK
<1>5. CASE RunEnds(n)
  <2>1. jobs' = [jobs EXCEPT ![n] = [jobs[n] EXCEPT !.running = FALSE]]
    BY <1>5 DEF RunEnds, TypeOK
  <2>2. /\ [jobs[n] EXCEPT !.running = FALSE] \in Job
        /\ [jobs[n] EXCEPT !.running = FALSE].age = jobs[n].age
        /\ [jobs[n] EXCEPT !.running = FALSE].interval = jobs[n].interval
    BY <1>1 DEF Job
  <2> QED
    BY <1>1, <2>1, <2>2, JobNotNone DEF TypeOK
<1> QED
  BY <1>3, <1>4, <1>5

-----------------------------------------------------------------------------
(* The invariant: one lemma per kind of step. *)

\* The conjuncts of SchedulerInv after the types.
Rest == /\ Stopping
        /\ \A n \in Names : n \notin edited => Unedited(n)

LEMMA InvInit == Init => SchedulerInv
<1> SUFFICES ASSUME Init PROVE SchedulerInv
  OBVIOUS
<1>1. config \in [Names -> Row \cup {None}]
  BY DEF Init, Row
<1>2. TypeOK
  BY <1>1, BoundAssumption DEF Init, TypeOK
<1>3. \A n \in Names : config[n] # None => config[n].enabled /\ config[n].strategy
  BY DEF Init
<1>4. Rest
  BY <1>3 DEF Init, Rest, Stopping, Unedited, InProgress
<1> QED
  BY <1>2, <1>4 DEF SchedulerInv, Rest

\* What counts as in progress is a number.
LEMMA CountType ==
  ASSUME TypeOK, NEW n \in Names
  PROVE  late[n] \in Nat /\ InProgress(n) \in Nat
BY DEF TypeOK, InProgress

\* A pass: the rows it reads, and what it makes of the jobs.
LEMMA HandleInv == SchedulerInv /\ Handle => SchedulerInv'
<1> SUFFICES ASSUME SchedulerInv, Handle PROVE SchedulerInv'
  OBVIOUS
<1> USE DEF SchedulerInv, Rest
<1>1. CASE ReadConfigs
  <2>1. TypeOK'
    BY <1>1 DEF ReadConfigs, TypeOK
  <2>2. Stopping'
    BY <1>1 DEF ReadConfigs, Stopping
  <2>3. ASSUME NEW n \in Names, n \notin edited' PROVE Unedited(n)'
    <3>1. Unedited(n)
      BY <1>1, <2>3 DEF ReadConfigs
    <3>2. pass'[n] = config[n]
      BY <1>1, <3>1 DEF ReadConfigs, Selected, Unedited
    <3> QED
      BY <1>1, <3>1, <3>2 DEF ReadConfigs, Unedited, InProgress
  <2> QED
    BY <2>1, <2>2, <2>3
<1>2. CASE ReadConfigsFails
  <2>1. TypeOK'
    BY <1>2, BoundAssumption DEF ReadConfigsFails, TypeOK
  <2>2. Rest'
    BY <1>2 DEF ReadConfigsFails, Stopping, Unedited, InProgress
  <2> QED
    BY <2>1, <2>2
<1>3. CASE Apply
  <2>1. TypeOK'
    <3>1. jobs' \in [Names -> Job \cup {None}]
      BY <1>3, AppliedType DEF Apply
    <3>2. \A n \in Names : jobs'[n] # None => jobs'[n].age < jobs'[n].interval
      BY <1>3, AppliedType DEF Apply
    <3>3. late' \in [Names -> Nat]
      BY <1>3, OutliveType DEF Apply
    <3> QED
      BY <1>3, <3>1, <3>2, <3>3 DEF Apply, TypeOK
  <2>2. entry \in {"on", "stop_entry"}
    BY <1>3 DEF Apply, Stopping, TypeOK
  <2>3. Stopping'
    BY <1>3, <2>2 DEF Apply, Stopping
  <2>4. ASSUME NEW n \in Names, n \notin edited' PROVE Unedited(n)'
    <3>1. Unedited(n)
      BY <1>3, <2>4 DEF Apply
    <3>2. CASE jobs[n] # None
      <4>1. Kept(n)
        BY <1>3, <3>1, <3>2 DEF Apply, Unedited, Kept
      <4>2. jobs'[n] = jobs[n] /\ late'[n] = late[n]
        BY <1>3, <4>1 DEF Apply, Applied, Outlive
      <4> QED
        BY <1>3, <3>1, <4>2 DEF Apply, Unedited, InProgress
    <3>3. CASE jobs[n] = None
      <4>1. late'[n] = late[n]
        BY <1>3, <3>3 DEF Apply, Outlive
      <4>2. \/ jobs'[n] = None
            \/ pass[n] # None /\ jobs'[n] = NewJob(pass[n].interval)
        BY <1>3, <3>3 DEF Apply, Applied, Kept
      <4>3. jobs'[n] # None => /\ jobs'[n].running = FALSE
                               /\ config[n] # None
                               /\ jobs'[n].interval = config[n].interval
        BY <1>3, <3>1, <4>2 DEF Apply, NewJob, Unedited
      <4>4. InProgress(n)' = late[n] /\ InProgress(n) = late[n]
        BY <3>3, <4>1, <4>3, CountType DEF InProgress
      <4> QED
        BY <1>3, <3>1, <4>1, <4>3, <4>4 DEF Apply, Unedited
    <3> QED
      BY <3>2, <3>3
  <2> QED
    BY <2>1, <2>3, <2>4
<1> QED
  BY <1>1, <1>2, <1>3 DEF Handle

LEMMA TickInv == SchedulerInv /\ Tick => SchedulerInv'
<1> SUFFICES ASSUME SchedulerInv, Tick PROVE SchedulerInv'
  OBVIOUS
<1> USE DEF SchedulerInv, Rest
<1>1. TypeOK
  OBVIOUS
<1>2. /\ jobs' \in [Names -> Job \cup {None}]
      /\ \A n \in Names : /\ jobs'[n] = None <=> jobs[n] = None
                          /\ jobs[n] # None =>
                               /\ jobs'[n].age < jobs'[n].interval
                               /\ jobs'[n].interval = jobs[n].interval
                               /\ jobs'[n].running = jobs[n].running
  BY <1>1, TickJobs
<1>3. UNCHANGED <<config, entry, pass, late, edited, edits, failures>>
  BY DEF Tick
<1>4. TypeOK'
  BY <1>1, <1>2, <1>3 DEF TypeOK
<1>5. Stopping'
  BY <1>2, <1>3 DEF Stopping
<1>6. ASSUME NEW n \in Names, n \notin edited' PROVE Unedited(n)'
  <2>1. Unedited(n)
    BY <1>3, <1>6
  <2>2. InProgress(n)' = InProgress(n)
    BY <1>2, <1>3 DEF InProgress
  <2> QED
    BY <1>2, <1>3, <2>1, <2>2 DEF Unedited
<1> QED
  BY <1>4, <1>5, <1>6

\* The runs of a task: what they do to its own name, and that they leave the others.
LEMMA RunInv ==
  ASSUME SchedulerInv, NEW n \in Names, Run(n)
  PROVE  SchedulerInv'
<1> USE DEF SchedulerInv, Rest
<1>0. TypeOK
  OBVIOUS
<1>1. CASE RunBegins(n) \/ RunFails(n) \/ RunEnds(n)
  <2>1. /\ jobs[n] # None
        /\ jobs' \in [Names -> Job \cup {None}]
        /\ \A m \in Names : m # n => jobs'[m] = jobs[m]
        /\ jobs'[n] # None
        /\ jobs'[n].age = jobs[n].age /\ jobs'[n].interval = jobs[n].interval
    BY <1>0, <1>1, RunJobs
  <2>2. UNCHANGED <<config, entry, pass, late, edited, edits>>
    BY <1>1 DEF RunBegins, RunFails, RunEnds
  <2>3. failures' \in 0 .. MaxFailures
    BY <1>0, <1>1, BoundAssumption DEF RunBegins, RunFails, RunEnds, TypeOK
  <2>4. TypeOK'
    BY <1>0, <2>1, <2>2, <2>3 DEF TypeOK
  <2>5. entry \in {"on", "stop_entry"}
    BY <1>0, <2>1 DEF Stopping, TypeOK
  <2>6. Stopping'
    BY <2>2, <2>5 DEF Stopping
  <2>7. ASSUME NEW m \in Names, m \notin edited' PROVE Unedited(m)'
    <3>1. Unedited(m)
      BY <2>2, <2>7
    <3>2. CASE m # n
      BY <2>1, <2>2, <3>1, <3>2 DEF Unedited, InProgress
    <3>3. CASE m = n
      <4>1. late'[m] = 0
        BY <2>2, <2>5, <3>1 DEF Unedited
      <4>2. InProgress(m)' <= 1
        BY <4>1 DEF InProgress
      <4> QED
        BY <2>1, <2>2, <3>1, <3>3, <4>1, <4>2 DEF Unedited
    <3> QED
      BY <3>2, <3>3
  <2> QED
    BY <2>4, <2>6, <2>7
<1>2. CASE LateRunEnds(n)
  <2>1. /\ UNCHANGED <<config, entry, pass, jobs, edited, edits, failures>>
        /\ late[n] > 0 /\ late[n] \in Nat
        /\ late' = [late EXCEPT ![n] = late[n] - 1]
    BY <1>0, <1>2 DEF LateRunEnds, TypeOK
  <2>2. late' \in [Names -> Nat]
    BY <1>0, <2>1 DEF TypeOK
  <2>3. TypeOK'
    BY <1>0, <2>1, <2>2 DEF TypeOK
  <2>4. \A m \in Names : late'[m] = IF m = n THEN late[n] - 1 ELSE late[m]
    BY <1>0, <2>1 DEF TypeOK
  <2>6. Stopping'
    BY <2>1 DEF Stopping
  <2>7. ASSUME NEW m \in Names, m \notin edited' PROVE Unedited(m)'
    <3>1. Unedited(m)
      BY <2>1, <2>7
    <3>2. late'[m] <= late[m] /\ late'[m] \in Nat /\ late[m] \in Nat
      BY <1>0, <2>1, <2>2, <2>4 DEF TypeOK
    <3>3. InProgress(m)' <= InProgress(m) /\ InProgress(m) \in Nat /\ InProgress(m)' \in Nat
      BY <2>1, <3>2 DEF InProgress
    <3>4. InProgress(m)' <= 1
      BY <3>1, <3>3 DEF Unedited
    <3>5. entry' \in {"on", "stop_entry"} => late'[m] = 0
      BY <2>1, <3>1, <3>2 DEF Unedited
    <3> QED
      BY <2>1, <3>1, <3>4, <3>5 DEF Unedited
  <2> QED
    BY <2>3, <2>6, <2>7
<1> QED
  BY <1>1, <1>2 DEF Run

LEMMA StopInv == SchedulerInv /\ Stop => SchedulerInv'
<1> SUFFICES ASSUME SchedulerInv, Stop PROVE SchedulerInv'
  OBVIOUS
<1> USE DEF SchedulerInv, Rest
<1>0. TypeOK
  OBVIOUS
<1>1. CASE StopEntry
  <2>1. TypeOK'
    BY <1>0, <1>1 DEF StopEntry, TypeOK
  <2> QED
    BY <1>1, <2>1 DEF StopEntry, Stopping, Unedited, InProgress
<1>2. CASE StopJobs
  <2>1. late' \in [Names -> Nat]
    BY <1>0, <1>2, OutliveType DEF StopJobs
  <2>2. /\ pass = None /\ entry' = "stop_jobs"
        /\ UNCHANGED <<config, pass, edited, edits, failures>>
        /\ jobs' = [n \in Names |-> None]
    BY <1>2 DEF StopJobs, PassOver, Removed
  <2>3. TypeOK'
    BY <1>0, <2>1, <2>2 DEF TypeOK
  <2>4. Stopping'
    BY <2>2 DEF Stopping
  <2>5. ASSUME NEW n \in Names, n \notin edited' PROVE Unedited(n)'
    <3>1. Unedited(n)
      BY <2>2, <2>5
    <3>2. jobs'[n] = None
      BY <2>2
    <3>3. late'[n] = InProgress(n)
      BY <1>2, CountType, <1>0 DEF StopJobs, Outlive, Removed, InProgress
    <3>4. InProgress(n)' = late'[n]
      BY <2>1, <3>2 DEF InProgress
    <3> QED
      BY <2>2, <3>1, <3>2, <3>3, <3>4 DEF Unedited
  <2> QED
    BY <2>3, <2>4, <2>5
<1>3. CASE StopReturns
  <2>1. TypeOK'
    BY <1>0, <1>3 DEF StopReturns, TypeOK
  <2> QED
    BY <1>3, <2>1 DEF StopReturns, Stopping, Unedited, InProgress
<1> QED
  BY <1>1, <1>2, <1>3 DEF Stop

LEMMA EditInv ==
  ASSUME SchedulerInv, NEW n \in Names, NEW row \in Row \cup {None}, Edit(n, row)
  PROVE  SchedulerInv'
<1> USE DEF SchedulerInv, Rest
<1>1. TypeOK'
  <2>1. edits' \in 0 .. MaxEdits
    BY BoundAssumption DEF Edit, TypeOK
  <2> QED
    BY <2>1 DEF Edit, TypeOK
<1>2. Stopping'
  BY DEF Edit, Stopping
<1>3. ASSUME NEW m \in Names, m \notin edited' PROVE Unedited(m)'
  <2>1. m # n /\ Unedited(m)
    BY <1>3 DEF Edit
  <2>2. config'[m] = config[m]
    BY <2>1 DEF Edit, TypeOK
  <2> QED
    BY <2>1, <2>2 DEF Edit, Unedited, InProgress
<1> QED
  BY <1>1, <1>2, <1>3

LEMMA InvNext == SchedulerInv /\ [Next]_vars => SchedulerInv'
<1>1. SchedulerInv /\ Next => SchedulerInv'
  BY HandleInv, TickInv, RunInv, StopInv, EditInv DEF Next
<1>2. SchedulerInv /\ UNCHANGED vars => SchedulerInv'
  BY DEF vars, SchedulerInv, TypeOK, Stopping, Unedited, InProgress
<1> QED
  BY <1>1, <1>2

-----------------------------------------------------------------------------
(* The theorems. *)

\* The jobs and counters of the scheduler stay what they are meant to be, however
\* passes, runs, edits and a stop interleave.
THEOREM SchedulerInvariant == Spec => []SchedulerInv
BY InvInit, InvNext, PTL DEF Spec

\* After Scheduler.Stop has removed the jobs no run of any task begins, whichever pass, run
\* or edit was under way; what was running then can only come to an end.
THEOREM NothingBeginsAfterStop == Spec => NoRunAfterStop
<1>1. ASSUME SchedulerInv, [Next]_vars, NEW n \in Names,
             entry \in {"stop_jobs", "stopped"}
      PROVE  InProgress(n)' <= InProgress(n)
  <2>1. pass = None /\ \A m \in Names : jobs[m] = None
    BY <1>1 DEF SchedulerInv, Stopping
  <2>2. late[n] \in Nat /\ InProgress(n) = late[n]
    BY <1>1, <2>1, CountType DEF SchedulerInv, InProgress
  <2>3. CASE Handle
    BY <1>1, <2>1, <2>3 DEF Handle, ReadConfigs, ReadConfigsFails, Apply
  <2>4. CASE Tick
    <3>1. jobs'[n] = None /\ late'[n] = late[n]
      BY <2>1, <2>4 DEF Tick
    <3> QED
      BY <2>2, <3>1 DEF InProgress
  <2>5. CASE Stop
    <3>1. StopReturns
      BY <1>1, <2>5 DEF Stop, StopEntry, StopJobs
    <3> QED
      BY <2>2, <3>1 DEF StopReturns, InProgress
  <2>6. ASSUME NEW m \in Names, Run(m) PROVE InProgress(n)' <= InProgress(n)
    <3>1. LateRunEnds(m)
      BY <2>1, <2>6 DEF Run, RunBegins, RunFails, RunEnds, Due
    <3>2. jobs'[n] = None
      BY <2>1, <3>1 DEF LateRunEnds
    <3>3. late'[n] \in {late[n], late[n] - 1}
      BY <1>1, <3>1 DEF LateRunEnds, SchedulerInv, TypeOK
    <3> QED
      BY <2>2, <3>2, <3>3 DEF InProgress
  <2>7. ASSUME NEW m \in Names, NEW row \in Row \cup {None}, Edit(m, row)
        PROVE  InProgress(n)' <= InProgress(n)
    BY <2>2, <2>7 DEF Edit, InProgress
  <2>8. CASE UNCHANGED vars
    BY <2>2, <2>8 DEF vars, InProgress
  <2> QED
    BY <1>1, <2>3, <2>4, <2>5, <2>6, <2>7, <2>8 DEF Next
<1>2. SchedulerInv /\ [Next]_vars =>
        [\A n \in Names : entry \in {"stop_jobs", "stopped"} =>
                           InProgress(n)' <= InProgress(n)]_vars
  BY <1>1
<1> QED
  BY <1>2, SchedulerInvariant, PTL DEF Spec, NoRunAfterStop

\* Two runs of a task at once in a process have an edit of its row behind them.
THEOREM NoOverlap == Spec => []OverlapsOnlyAfterEdit
<1>1. SchedulerInv => OverlapsOnlyAfterEdit
  <2> SUFFICES ASSUME SchedulerInv, NEW n \in Names, InProgress(n) > 1, n \notin edited
               PROVE  FALSE
    BY DEF OverlapsOnlyAfterEdit
  <2>1. InProgress(n) <= 1
    BY DEF SchedulerInv, Unedited
  <2>2. InProgress(n) \in Nat
    BY CountType DEF SchedulerInv
  <2> QED
    BY <2>1, <2>2
<1> QED
  BY <1>1, SchedulerInvariant, PTL
=============================================================================
