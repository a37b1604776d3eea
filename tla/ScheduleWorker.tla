--------------------------- MODULE ScheduleWorker ---------------------------
(***************************************************************************)
(* Scheduled tasks that run workflows (schedule/worker.go, service.go,     *)
(* store.go): workers of several server processes poll for due tasks,      *)
(* claim them by inserting a run, start and run the execution and record   *)
(* the run's end together with the task's next time; users enable,         *)
(* disable and run tasks by hand.                                          *)
(*                                                                         *)
(* Composed with the executions a run starts: their statuses move as       *)
(* ExecutionLifecycle allows (module WorkflowExecution implements it), at  *)
(* any time, whoever works on them.  An execution belongs to one run: a    *)
(* unique index on scheduledTaskRunId.                                     *)
(*                                                                         *)
(* Times are abstracted to whether next_run_at is unset, ahead or due.     *)
(* Not modelled: several workflows and their limits per organization, the  *)
(* agents a task may run instead, changes of a cron expression.            *)
(***************************************************************************)
EXTENDS Integers, FiniteSets, Functions

CONSTANTS
  Tasks,
  Runs,        \* ids for scheduled_task_runs
  Workers,     \* schedule workers and HTTP handlers
  Limit,       \* max_concurrent_executions, 1 for scheduled workflows
  NoRun, NoTask,
  EventBound   \* bound: statements that fail, processes that die, requests of users

ASSUME NamesAssumption == NoRun \notin Runs /\ NoTask \notin Tasks
ASSUME BoundsAssumption == Limit \in Nat \ {0} /\ EventBound \in Nat

VARIABLES
  task,      \* scheduled_tasks: enabled, next_run_at
  run,       \* scheduled_task_runs: task, status, by hand or not
  status,    \* status of the execution of each run
  proc,      \* what each worker is doing
  events,    \* bounded
  claims,    \* history: claims of each task since its next time was last set
  stale,     \* history: tasks claimed although a run of them had been inserted since the query
  hurt       \* history: tasks whose next time could not be recorded

vars == <<task, run, status, proc, events, claims, stale, hurt>>

Lifecycle == INSTANCE ExecutionLifecycle WITH Executions <- Runs

Idle == [pc |-> "idle", seen |-> {}, todo |-> {}, run |-> NoRun, task |-> NoTask, want |-> "absent"]

Init ==
  /\ task = [t \in Tasks |-> [enabled |-> TRUE, next |-> "ahead"]]
  /\ run = [r \in Runs |-> [task |-> NoTask, status |-> "absent", manual |-> FALSE]]
  /\ status = [r \in Runs |-> "absent"]
  /\ proc = [w \in Workers |-> Idle]
  /\ events = 0
  /\ claims = [t \in Tasks |-> 0] /\ stale = {} /\ hurt = {}

-----------------------------------------------------------------------------
At(w, pc) == proc[w].pc = pc
Go(w, state) == proc' = [proc EXCEPT ![w] = state]
Event == events < EventBound /\ events' = events + 1
Calm == UNCHANGED events
History == UNCHANGED <<claims, stale, hurt>>

RunningRuns(t) == {r \in Runs : run[r].task = t /\ run[r].status = "running"}

\* The claim's WHERE on the task's own row.
Due(t) == task[t].enabled /\ task[t].next = "due"

\* Mutant: a failed run keeps its task from being claimed.
NoneFailed(t) == Due(t) /\ \A r \in Runs : run[r].task = t => run[r].status \notin {"running", "failed"}

Claimable(t) == Due(t) /\ RunningRuns(t) = {}

Unused == {r \in Runs : run[r].status = "absent"}

\* runDueTasks: the snapshot of the claim's query, ...
Poll(w) ==
  /\ At(w, "idle")
  /\ \E t \in Tasks : Claimable(t)
  /\ Cardinality(Unused) >= Cardinality(Tasks)
  /\ Go(w, [Idle EXCEPT !.pc = "claim", !.seen = {t \in Tasks : Claimable(t)}])
  /\ Calm /\ History /\ UNCHANGED <<task, run, status>>

\* ... and its rows, locked: what changed in the task's own row since the snapshot is
\* seen, a run inserted since is not.
Claim(w) ==
  LET rows == {t \in proc[w].seen : Due(t)} IN
  /\ At(w, "claim")
  /\ \E new \in Injection(rows, Unused) :
       /\ run' = [r \in Runs |-> IF r \in Range(new)
                                 THEN [task |-> Inverse(new, rows, Range(new))[r], status |-> "running", manual |-> FALSE]
                                 ELSE run[r]]
       /\ Go(w, [Idle EXCEPT !.pc = "next", !.todo = Range(new)])
  /\ claims' = [t \in Tasks |-> claims[t] + IF t \in rows THEN 1 ELSE 0]
  /\ stale' = stale \cup {t \in rows : RunningRuns(t) # {}}
  /\ Calm /\ UNCHANGED <<task, status, hurt>>

\* The claimed runs, one after the other.
TakeNext(w) ==
  /\ At(w, "next")
  /\ \/ \E r \in proc[w].todo :
          Go(w, [proc[w] EXCEPT !.pc = "count", !.todo = @ \ {r}, !.run = r, !.task = run[r].task])
     \/ proc[w].todo = {} /\ Go(w, Idle)
  /\ Calm /\ History /\ UNCHANGED <<task, run, status>>

\* RunNow: count the running runs, ...
RunNow(w, t) ==
  /\ At(w, "idle") /\ Unused # {} /\ Event
  /\ Go(w, [Idle EXCEPT !.pc = "record", !.task = t,
              !.want = IF RunningRuns(t) = {} THEN "running" ELSE "queued"])
  /\ History /\ UNCHANGED <<task, run, status>>

\* ... then insert one.  A queued run is never started.
Record(w) ==
  /\ At(w, "record")
  /\ \E r \in Runs :
       /\ r \in Unused
       /\ run' = [run EXCEPT ![r] = [task |-> proc[w].task, status |-> proc[w].want, manual |-> TRUE]]
       /\ Go(w, IF proc[w].want = "queued" THEN Idle ELSE [Idle EXCEPT !.pc = "count", !.run = r, !.task = proc[w].task])
  /\ Calm /\ History /\ UNCHANGED <<task, status>>

-----------------------------------------------------------------------------
(* One run                                                                  *)

Then(w, pc) == [proc[w] EXCEPT !.pc = pc]

RunningExecutions == {r \in Runs : status[r] = "running"}

\* StartExecution counts the running executions, or fails before it creates one, ...
Count(w) ==
  /\ At(w, "count")
  /\ Go(w, [proc[w] EXCEPT !.pc = "create",
              !.want = IF Cardinality(RunningExecutions) >= Limit THEN "queued" ELSE "running"])
  /\ Calm /\ History /\ UNCHANGED <<task, run, status>>

StartFails(w) ==
  /\ At(w, "count")
  /\ Go(w, Then(w, "fail"))
  /\ Calm /\ History /\ UNCHANGED <<task, run, status>>

\* ... and creates it.  RunNow is done then.
Create(w) ==
  LET r == proc[w].run IN
  /\ At(w, "create")
  /\ status' = [status EXCEPT ![r] = proc[w].want]
  /\ Go(w, [proc[w] EXCEPT !.pc = IF run[r].manual THEN "complete" ELSE "run", !.want = "absent"])
  /\ Calm /\ History /\ UNCHANGED <<task, run>>

EndedBadly == {"failed", "cancelled", "timeout", "max_iterations"}
EndedWell == {"succeeded", "partial_success"}

MayComplete(s) == s \in EndedWell

\* RunExecutionUntilBlocked returns: the execution ended, is blocked, or an error.
ExecutionReturns(w) ==
  LET s == status[proc[w].run] IN
  /\ At(w, "run")
  /\ \/ MayComplete(s) /\ Go(w, Then(w, "complete"))
     \/ s \in EndedBadly /\ Go(w, Then(w, "fail"))
     \/ s \in {"queued", "paused", "running"} /\ ~MayComplete(s) /\ Go(w, Then(w, "next"))
  /\ Calm /\ History /\ UNCHANGED <<task, run, status>>

ExecutionErrs(w) ==
  /\ At(w, "run")
  /\ Go(w, Then(w, "fail"))
  /\ Calm /\ History /\ UNCHANGED <<task, run, status>>

\* Mutant: the next time is not set.
EndedOnly(w, st) ==
  /\ run' = [run EXCEPT ![proc[w].run].status = st]
  /\ UNCHANGED <<task, claims>>

\* The end of a run is recorded in one transaction with the task's next time, if the
\* run is still running.
Ended(w, st) ==
  LET r == proc[w].run  t == proc[w].task IN
  /\ run' = IF run[r].status = "running" THEN [run EXCEPT ![r].status = st] ELSE run
  /\ IF run[r].status = "running" /\ ~run[r].manual
     THEN task' = [task EXCEPT ![t].next = "ahead"] /\ claims' = [claims EXCEPT ![t] = 0]
     ELSE UNCHANGED <<task, claims>>

\* CompleteScheduledTaskRun, or CompleteManualScheduledTaskRun
Complete(w) ==
  /\ At(w, "complete")
  /\ Ended(w, "completed")
  /\ Go(w, IF run[proc[w].run].manual THEN Idle ELSE Then(w, "next"))
  /\ Calm /\ UNCHANGED <<status, stale, hurt>>

\* It fails: the run stays running.
CompleteFails(w) ==
  /\ At(w, "complete") /\ Event
  /\ Go(w, IF run[proc[w].run].manual THEN Idle ELSE Then(w, "next"))
  /\ hurt' = hurt \cup {proc[w].task}
  /\ UNCHANGED <<task, run, status, claims, stale>>

\* FailScheduledTaskRun; failManualRun has only the fallback.
Fail(w) ==
  /\ At(w, "fail")
  /\ IF run[proc[w].run].manual
     THEN Go(w, Then(w, "fallback")) /\ UNCHANGED <<task, run, claims>>
     ELSE Ended(w, "failed") /\ Go(w, Then(w, "next"))
  /\ Calm /\ UNCHANGED <<status, stale, hurt>>

FailFails(w) ==
  /\ At(w, "fail") /\ Event
  /\ Go(w, Then(w, "fallback"))
  /\ hurt' = hurt \cup {proc[w].task}
  /\ UNCHANGED <<task, run, status, claims, stale>>

\* UpdateScheduledTaskRun: whatever the run has become, and without a next time.
Fallback(w) ==
  LET r == proc[w].run IN
  /\ At(w, "fallback")
  /\ run' = [run EXCEPT ![r].status = "failed"]
  /\ Go(w, IF run[r].manual THEN Idle ELSE Then(w, "next"))
  /\ Calm /\ History /\ UNCHANGED <<task, status>>

Crash(w) ==
  /\ ~At(w, "idle") /\ Event
  /\ Go(w, Idle)
  /\ hurt' = hurt \cup {run[r].task : r \in (proc[w].todo \cup {proc[w].run}) \cap Runs}
  /\ UNCHANGED <<task, run, status, claims, stale>>

-----------------------------------------------------------------------------
(* Time, users, and the executions                                          *)

TimePasses(t) ==
  /\ task[t].next = "ahead"
  /\ task' = [task EXCEPT ![t].next = "due"]
  /\ Calm /\ History /\ UNCHANGED <<run, status, proc>>

\* UpdateEnabled: a task that is switched on gets a time ahead.
UpdateEnabled(t, on) ==
  /\ Event
  /\ task' = [task EXCEPT ![t] = [enabled |-> on, next |-> IF on THEN "ahead" ELSE "none"]]
  /\ claims' = [claims EXCEPT ![t] = 0]
  /\ UNCHANGED <<run, status, proc, stale, hurt>>

ExecutionMoves(r) ==
  /\ Lifecycle!Move(r)
  /\ Calm /\ History /\ UNCHANGED <<task, run, proc>>

Step(w) ==
  \/ Poll(w) \/ Claim(w) \/ TakeNext(w) \/ Record(w) \/ Count(w) \/ Create(w)
  \/ ExecutionReturns(w) \/ Complete(w) \/ Fail(w) \/ Fallback(w)

Faulty(w) ==
  \/ StartFails(w) \/ ExecutionErrs(w) \/ CompleteFails(w) \/ FailFails(w) \/ Crash(w)

Next ==
  \/ \E w \in Workers : Step(w) \/ Faulty(w) \/ \E t \in Tasks : RunNow(w, t)
  \/ \E t \in Tasks : TimePasses(t) \/ \E on \in BOOLEAN : UpdateEnabled(t, on)
  \/ \E r \in Runs : ExecutionMoves(r)

Spec == Init /\ [][Next]_vars

\* Workers tick for ever and finish what they began.
FairSpec == Spec /\ \A w \in Workers : WF_vars(Step(w))

-----------------------------------------------------------------------------
(* Properties                                                               *)

TaskType == [enabled : BOOLEAN, next : {"none", "ahead", "due"}]
RunType == [task : Tasks \cup {NoTask}, manual : BOOLEAN,
            status : {"absent", "running", "queued", "completed", "failed"}]
Working == {"count", "create", "run", "complete", "fail", "fallback"}
ProcType ==
  [pc : {"idle", "claim", "next", "record"} \cup Working,
   seen : SUBSET Tasks, todo : SUBSET Runs, run : Runs \cup {NoRun}, task : Tasks \cup {NoTask},
   want : {"absent", "running", "queued"}]

\* Every variable keeps its type.
TypeOK ==
  /\ task \in [Tasks -> TaskType]
  /\ run \in [Runs -> RunType]
  /\ status \in [Runs -> Lifecycle!Statuses]
  /\ proc \in [Workers -> ProcType]
  /\ events \in 0 .. EventBound
  /\ claims \in [Tasks -> Nat] /\ stale \subseteq Tasks /\ hurt \subseteq Tasks \cup {NoTask}

\* A time that has come is claimed once: a failed or finished run, a crash and a second
\* worker never have the task run again for it, unless the claim missed a run inserted
\* since its query, or the end of a run could not be recorded.
DueOnce == \A t \in Tasks \ (stale \cup hurt) : claims[t] <= 1

\* A claimed run that is recorded as completed had its execution run: it is not absent,
\* and not waiting in the queue.
CompletedRan ==
  \A r \in Runs :
    run[r].status = "completed" /\ ~run[r].manual => status[r] \notin {"absent", "queued"}

\* A task whose time has come is served, whatever workers died and whatever is queued by
\* hand: it gets a run, unless one of its runs is still running.
DueIsServed ==
  \A t \in Tasks :
    Due(t) ~> (~Due(t) \/ RunningRuns(t) # {} \/ Cardinality(Unused) < Cardinality(Tasks))

-----------------------------------------------------------------------------
(* What makes them inductive                                                *)

\* The runs a worker is responsible for.
Held(w) == proc[w].todo \cup (IF proc[w].pc \in Working THEN {proc[w].run} ELSE {})

\* A claimed run that is running: what a task waits for.
Claimed(r) == run[r].status = "running" /\ ~run[r].manual

\* What a worker has in hand is running, whatever it means to record is so.
HoldOK(w) ==
  /\ proc[w].pc = "record" => proc[w].want \in {"running", "queued"}
  /\ \A r \in proc[w].todo : Claimed(r)
  /\ proc[w].pc \in Working =>
       /\ proc[w].run \in Runs \ proc[w].todo
       /\ run[proc[w].run].status = "running"
       /\ run[proc[w].run].task = proc[w].task
       /\ Claimed(proc[w].run) =>
            /\ proc[w].pc = "complete" => status[proc[w].run] \notin {"absent", "queued"}
            /\ proc[w].pc = "fallback" => proc[w].task \in hurt

HoldInv == \A w \in Workers : HoldOK(w)

\* No two workers have a run in hand.
ApartInv == \A v, w \in Workers : v # w => Held(v) \cap Held(w) = {}

\* A time that was claimed and not yet left behind has a run that is still running.
ServedOK(t) ==
  \/ claims[t] = 0
  \/ claims[t] = 1 /\ \E r \in Runs : run[r].task = t /\ Claimed(r)

ServedInv == \A t \in Tasks \ (stale \cup hurt) : ServedOK(t)

ScheduleInv == TypeOK /\ HoldInv /\ ApartInv /\ ServedInv /\ CompletedRan
=============================================================================
