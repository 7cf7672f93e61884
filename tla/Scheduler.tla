----------------------------- MODULE Scheduler -----------------------------
(***************************************************************************)
(* One bot process: every few seconds a pass of Scheduler.Handle reads     *)
(* bot_schedule_config and makes the registered jobs agree with it; each   *)
(* job fires at its interval, reads its row once more and runs; Entry.Stop *)
(* ends the process.  Other processes do the same without knowing of this  *)
(* one.                                                                    *)
(*                                                                         *)
(* gocron is modelled by what the code relies on: in singleton mode a job  *)
(* has one run at a time and keeps what came due meanwhile; RemoveByTags   *)
(* does not wait for a run; Stop waits for the runs of jobs that are still *)
(* registered, and for no others.                                          *)
(***************************************************************************)
EXTENDS Integers, FiniteSets

CONSTANTS
  Names,       \* rows of bot_schedule_config of the module, by task_name
  Tasks,       \* those getHandleFunc knows
  Intervals,   \* interval_seconds, in passes of the entry
  None,        \* no such row, no such job, no pass under way
  MaxEdits,    \* bound: how often rows are edited
  MaxFailures  \* bound: how many reads of the configuration fail

ASSUME NameAssumption == Tasks \subseteq Names

ASSUME IntervalAssumption == Intervals \subseteq Nat \ {0} /\ Intervals # {}

ASSUME BoundAssumption == MaxEdits \in Nat /\ MaxFailures \in Nat

Row == [enabled : BOOLEAN, strategy : BOOLEAN, interval : Intervals]

\* A registered job: the interval it was made with (configMap), the time since it
\* last came due, whether a run is due, and whether one is in progress.
Job == [interval : Intervals, age : Nat, due : BOOLEAN, running : BOOLEAN]

ASSUME NoneAssumption == /\ None \notin Row /\ None \notin Job
                         /\ None \notin [Names -> Row \cup {None}]

VARIABLES
  config,   \* bot_schedule_config
  entry,    \* the entry: started, and the steps of Stop
  pass,     \* Handle: the rows it has read, or None
  jobs,     \* jobMap, configMap and gocron's table
  late,     \* per name: runs in progress of jobs that have been removed
  edited,   \* history: names whose row has been edited
  edits,    \* how many edits there have been
  failures  \* how many reads have failed

vars == <<config, entry, pass, jobs, late, edited, edits, failures>>

TypeOK ==
  /\ config \in [Names -> Row \cup {None}]
  /\ entry \in {"on", "stop_entry", "stop_jobs", "stopped"}
  /\ pass \in {None} \cup [Names -> Row \cup {None}]
  /\ jobs \in [Names -> Job \cup {None}]
  /\ \A n \in Names : jobs[n] # None => jobs[n].age < jobs[n].interval
  /\ late \in [Names -> Nat]
  /\ edited \subseteq Names
  /\ edits \in 0 .. MaxEdits
  /\ failures \in 0 .. MaxFailures

\* The process starts with the rows as installed; Entry.Start is over.
Init ==
  /\ config \in [Names -> {None} \cup
                   [enabled : {TRUE}, strategy : {TRUE}, interval : Intervals]]
  /\ entry = "on"
  /\ pass = None
  /\ jobs = [n \in Names |-> None]
  /\ late = [n \in Names |-> 0]
  /\ edited = {} /\ edits = 0 /\ failures = 0

-----------------------------------------------------------------------------
(* A pass of Handle.  The entry has one at a time. *)

\* GetAllConfigs.
Selected(n) == config[n] # None /\ config[n].enabled /\ config[n].strategy

ReadConfigs ==
  /\ entry = "on" /\ pass = None
  /\ pass' = [n \in Names |-> IF Selected(n) THEN config[n] ELSE None]
  /\ UNCHANGED <<config, entry, jobs, late, edited, edits, failures>>

ReadConfigsFails ==
  /\ entry = "on" /\ pass = None /\ failures < MaxFailures
  /\ failures' = failures + 1
  /\ UNCHANGED <<config, entry, pass, jobs, late, edited, edits>>

NewJob(interval) ==
  [interval |-> interval, age |-> 0, due |-> FALSE, running |-> FALSE]

\* FAULT: the interval is not remembered.
Kept_Never(n) == FALSE

\* The job stays as it is: its row is there and the interval has not changed.
Kept(n) == jobs[n] # None /\ pass[n] # None /\ jobs[n].interval = pass[n].interval

\* FAULT: nothing is removed when no row is enabled.
Applied_NoRows ==
  IF \A n \in Names : pass[n] = None THEN jobs
  ELSE [n \in Names |-> IF Kept(n) THEN jobs[n]
                        ELSE IF pass[n] # None /\ n \in Tasks
                        THEN NewJob(pass[n].interval) ELSE None]

\* FAULT: a job gets its new interval without a new start.
Applied_InPlace ==
  [n \in Names |-> IF pass[n] # None /\ n \in Tasks
                   THEN IF jobs[n] # None
                        THEN [jobs[n] EXCEPT !.interval = pass[n].interval]
                        ELSE NewJob(pass[n].interval)
                   ELSE None]

\* Jobs without a row go, jobs with another interval are made anew, rows of
\* unknown tasks are passed over.
Applied ==
  [n \in Names |-> IF Kept(n) THEN jobs[n]
                   ELSE IF pass[n] # None /\ n \in Tasks
                   THEN NewJob(pass[n].interval) ELSE None]

\* A run in progress outlives its job.
Outlive(gone) ==
  late' = [n \in Names |->
             IF n \in gone /\ jobs[n] # None /\ jobs[n].running
             THEN late[n] + 1 ELSE late[n]]

Apply ==
  /\ pass # None
  /\ jobs' = Applied
  /\ Outlive({n \in Names : Applied[n] # jobs[n]})
  /\ pass' = None
  /\ UNCHANGED <<config, entry, edited, edits, failures>>

-----------------------------------------------------------------------------
(* Jobs. *)

\* Time passes; a job whose interval is over comes due.
Tick ==
  /\ jobs' = [n \in Names |->
       IF jobs[n] = None THEN None
       ELSE IF jobs[n].age + 1 < jobs[n].interval
       THEN [jobs[n] EXCEPT !.age = @ + 1]
       ELSE [jobs[n] EXCEPT !.age = 0, !.due = TRUE]]
  /\ UNCHANGED <<config, entry, pass, late, edited, edits, failures>>

\* GetConfigByModuleAndTask: the row may have been disabled since the last pass.
MayRun(n) == config[n] # None /\ config[n].enabled

Due(n) == jobs[n] # None /\ jobs[n].due /\ ~jobs[n].running

RunBegins(n) ==
  /\ Due(n)
  /\ jobs' = [jobs EXCEPT ![n].due = FALSE, ![n].running = MayRun(n)]
  /\ UNCHANGED <<config, entry, pass, late, edited, edits, failures>>

RunFails(n) ==
  /\ Due(n) /\ failures < MaxFailures
  /\ jobs' = [jobs EXCEPT ![n].due = FALSE]
  /\ failures' = failures + 1
  /\ UNCHANGED <<config, entry, pass, late, edited, edits>>

\* The handler returns, or panics and is caught.
RunEnds(n) ==
  /\ jobs[n] # None /\ jobs[n].running
  /\ jobs' = [jobs EXCEPT ![n].running = FALSE]
  /\ UNCHANGED <<config, entry, pass, late, edited, edits, failures>>

LateRunEnds(n) ==
  /\ late[n] > 0
  /\ late' = [late EXCEPT ![n] = @ - 1]
  /\ UNCHANGED <<config, entry, pass, jobs, edited, edits, failures>>

-----------------------------------------------------------------------------
(* Entry.Stop: the entry's own scheduler, then the jobs'. *)

StopEntry ==
  /\ entry = "on"
  /\ entry' = "stop_entry"
  /\ UNCHANGED <<config, pass, jobs, late, edited, edits, failures>>

\* FAULT: the pass in progress is not waited for.
PassOver_NotAwaited == TRUE

\* The entry's Stop waits for the pass in progress.
PassOver == pass = None

\* FAULT: the jobs stay registered.
Removed_Nothing == jobs

Removed == [n \in Names |-> None]

\* Scheduler.Stop takes the mutex and removes all jobs; runs in progress outlive them.
StopJobs ==
  /\ entry = "stop_entry" /\ PassOver
  /\ entry' = "stop_jobs"
  /\ jobs' = Removed
  /\ Outlive({n \in Names : Removed[n] # jobs[n]})
  /\ UNCHANGED <<config, pass, edited, edits, failures>>

\* gocron waits for the runs of registered jobs: after StopJobs there are none.
StopReturns ==
  /\ entry = "stop_jobs"
  /\ \A n \in Names : jobs[n] # None => ~jobs[n].running
  /\ entry' = "stopped"
  /\ UNCHANGED <<config, pass, jobs, late, edited, edits, failures>>

-----------------------------------------------------------------------------
\* An operator edits, inserts or deletes a row.
Edit(n, row) ==
  /\ edits < MaxEdits
  /\ row # config[n]
  /\ config' = [config EXCEPT ![n] = row]
  /\ edited' = edited \cup {n}
  /\ edits' = edits + 1
  /\ UNCHANGED <<entry, pass, jobs, late, failures>>

Handle == ReadConfigs \/ ReadConfigsFails \/ Apply

Run(n) == RunBegins(n) \/ RunFails(n) \/ RunEnds(n) \/ LateRunEnds(n)

Stop == StopEntry \/ StopJobs \/ StopReturns

Next == \/ Handle \/ Tick \/ Stop
        \/ \E n \in Names : Run(n)
        \/ \E n \in Names, row \in Row \cup {None} : Edit(n, row)

Spec == Init /\ [][Next]_vars

\* The entry goes on making passes and its clock does not stand still; a run ends,
\* and a stop that has begun goes on.
FairSpec ==
  /\ Spec
  /\ WF_vars(Handle) /\ WF_vars(Tick)
  /\ WF_vars(StopJobs) /\ WF_vars(StopReturns)
  /\ \A n \in Names : WF_vars(RunBegins(n)) /\ WF_vars(RunEnds(n))

-----------------------------------------------------------------------------
(* Properties. *)

InProgress(n) == late[n] + (IF jobs[n] # None /\ jobs[n].running THEN 1 ELSE 0)

\* Once Scheduler.Stop has removed the jobs no run begins: what was read before the stop
\* registers none, and nothing that came due is caught up with.  Runs that were in
\* progress go on, and Entry.Stop may return before they end.
NoRunAfterStop ==
  [][\A n \in Names : entry \in {"stop_jobs", "stopped"} =>
                        InProgress(n)' <= InProgress(n)]_vars

\* Within a process two runs of a task overlap only if its row was edited while
\* the process ran: a pass that finds nothing new leaves the job alone.
OverlapsOnlyAfterEdit ==
  \A n \in Names : InProgress(n) > 1 => n \in edited

\* Once StopJobs is done no pass is under way and no job registered.
Stopping == entry \in {"stop_jobs", "stopped"} =>
              pass = None /\ \A n \in Names : jobs[n] = None

\* A row that was not edited is the row its job was made from and every pass reads.
Unedited(n) ==
  /\ entry \in {"on", "stop_entry"} => late[n] = 0
  /\ InProgress(n) <= 1
  /\ config[n] # None => config[n].enabled /\ config[n].strategy
  /\ jobs[n] # None => config[n] # None /\ jobs[n].interval = config[n].interval
  /\ pass # None => pass[n] = config[n]

\* Together they are inductive: what a stop has given up, and why a pass leaves the
\* jobs of unedited rows alone.
SchedulerInv ==
  /\ TypeOK
  /\ Stopping
  /\ \A n \in Names : n \notin edited => Unedited(n)

\* The registered jobs are those of the table as it is.
Agree == \A n \in Names :
  IF Selected(n) /\ n \in Tasks
  THEN jobs[n] # None /\ jobs[n].interval = config[n].interval
  ELSE jobs[n] = None

\* The jobs follow the table: after the last edit they come to agree with it, and
\* stay so until the process is stopped.
ConfigApplied == <>[](entry = "on") => <>[]Agree

\* A task whose row is enabled, of either column, runs again and again, however
\* often passes look at it.
EnabledTasksRun ==
  \A n \in Tasks : <>[](entry = "on" /\ Selected(n))
                     => []<>(jobs[n] # None /\ jobs[n].running)

\* A stop comes to an end, though a pass may be reading the table and jobs running or
\* coming due meanwhile.
StopEnds == entry = "stop_entry" ~> entry = "stopped"
=============================================================================
