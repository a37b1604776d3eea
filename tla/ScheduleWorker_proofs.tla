----------------------- MODULE ScheduleWorker_proofs -----------------------
(***************************************************************************)
(* Theorems about ScheduleWorker, for any sets of tasks, runs and workers, *)
(* any limit and any number of faults and requests.                        *)
(***************************************************************************)
EXTENDS ScheduleWorker, TLAPS

-----------------------------------------------------------------------------
(* What the steps do                                                        *)

\* A move of an execution touches its own status only, and never takes it back to the
\* queue or out of existence.
LEMMA MoveEffect ==
  ASSUME TypeOK, NEW r \in Runs, Lifecycle!Move(r)
  PROVE  /\ status' \in [Runs -> Lifecycle!Statuses]
         /\ \A x \in Runs : status'[x] \in {"absent", "queued"} => status'[x] = status[x]
PROOF
  <1>1. PICK t \in Lifecycle!Transitions : status' = [status EXCEPT ![r] = t[3]]
    BY DEF Lifecycle!Move
  <1>2. t[3] \in Lifecycle!Statuses /\ t[3] \notin {"absent", "queued"}
    BY DEF Lifecycle!Transitions, Lifecycle!Statuses, Lifecycle!Final
  <1> QED BY <1>1, <1>2 DEF TypeOK

\* The inverse of an injection takes what it produced back to where it came from.
LEMMA InverseOfInjection ==
  ASSUME NEW S, NEW T, NEW f \in Injection(S, T)
  PROVE  /\ Range(f) \in SUBSET T
         /\ \A s \in S : f[s] \in Range(f) /\ Inverse(f, S, Range(f))[f[s]] = s
         /\ \A r \in Range(f) : Inverse(f, S, Range(f))[r] \in S
PROOF
  <1>1. f \in [S -> T] /\ \A s, t \in S : f[s] = f[t] => s = t
    BY DEF Injection, IsInjective
  <1>2. Range(f) \in SUBSET T /\ \A s \in S : f[s] \in Range(f) BY <1>1 DEF Range
  <1>3. \A s \in S : Inverse(f, S, Range(f))[f[s]] = s BY <1>1, <1>2 DEF Inverse
  <1>4. \A r \in Range(f) : \E s \in S : r = f[s] BY <1>1 DEF Range
  <1> QED BY <1>2, <1>3, <1>4

\* What a claim of these tasks writes.
Claims(w, rows, new) ==
  /\ run' = [r \in Runs |->
               IF r \in Range(new)
               THEN [task |-> Inverse(new, rows, Range(new))[r], status |-> "running", manual |-> FALSE]
               ELSE run[r]]
  /\ proc' = [proc EXCEPT ![w] = [Idle EXCEPT !.pc = "next", !.todo = Range(new)]]
  /\ claims' = [t \in Tasks |-> claims[t] + IF t \in rows THEN 1 ELSE 0]
  /\ stale' = stale \cup {t \in rows : RunningRuns(t) # {}}

\* It makes one running run for each of them, out of unused ones.
LEMMA ClaimMakes ==
  ASSUME TypeOK, NEW w \in Workers, NEW rows \in SUBSET Tasks, NEW new \in Injection(rows, Unused),
         Claims(w, rows, new)
  PROVE  /\ Range(new) \in SUBSET Unused
         /\ \A r \in Range(new) : /\ run'[r].task \in rows
                                  /\ run'[r].status = "running" /\ run'[r].manual = FALSE
         /\ \A t \in rows : \E r \in Range(new) : run'[r].task = t
         /\ \A r \in Runs \ Range(new) : run'[r] = run[r]
         /\ run' \in [Runs -> RunType]
PROOF
  <1> DEFINE taken == Range(new)
             back == Inverse(new, rows, Range(new))
  <1>1. /\ taken \in SUBSET Unused
        /\ \A t \in rows : new[t] \in taken /\ back[new[t]] = t
        /\ \A r \in taken : back[r] \in rows
    BY InverseOfInjection, Zenon
  <1>2. run' = [r \in Runs |-> IF r \in taken
                               THEN [task |-> back[r], status |-> "running", manual |-> FALSE]
                               ELSE run[r]]
    BY Zenon DEF Claims
  <1> HIDE DEF taken, back
  <1>3. taken \subseteq Runs BY <1>1 DEF Unused
  <1>4. ASSUME NEW r \in taken
        PROVE  /\ run'[r].task = back[r] /\ run'[r].status = "running" /\ run'[r].manual = FALSE
               /\ run'[r] \in RunType
    <2>1. run'[r] = [task |-> back[r], status |-> "running", manual |-> FALSE] BY <1>2, <1>3
    <2>2. back[r] \in Tasks BY <1>1
    <2> QED BY <2>1, <2>2 DEF RunType
  <1>5. \A r \in taken : run'[r].task \in rows BY <1>1, <1>4
  <1>6. \A t \in rows : \E r \in taken : run'[r].task = t
    <2> SUFFICES ASSUME NEW t \in rows PROVE run'[new[t]].task = t BY <1>1
    <2>1. new[t] \in taken /\ back[new[t]] = t BY <1>1
    <2> QED BY <1>4, <2>1
  <1>7. \A r \in Runs \ taken : run'[r] = run[r] BY <1>2
  <1>8. run' \in [Runs -> RunType]
    <2>1. \A r \in Runs : run'[r] \in RunType BY <1>4, <1>7 DEF TypeOK
    <2> QED BY <1>2, <2>1
  <1> QED BY <1>1, <1>4, <1>5, <1>6, <1>7, <1>8 DEF taken

LEMMA ClaimEffect ==
  ASSUME TypeOK, NEW w \in Workers, Claim(w)
  PROVE  \E rows \in SUBSET Tasks, taken \in SUBSET Unused :
           /\ \A r \in taken : /\ run'[r].task \in rows
                               /\ run'[r].status = "running" /\ run'[r].manual = FALSE
           /\ \A t \in rows : \E r \in taken : run'[r].task = t
           /\ \A r \in Runs \ taken : run'[r] = run[r]
           /\ run' \in [Runs -> RunType]
           /\ proc' = [proc EXCEPT ![w] = [Idle EXCEPT !.pc = "next", !.todo = taken]]
           /\ claims' = [t \in Tasks |-> claims[t] + IF t \in rows THEN 1 ELSE 0]
           /\ stale' = stale \cup {t \in rows : RunningRuns(t) # {}}
PROOF
  <1>1. PICK rows \in SUBSET Tasks : \E new \in Injection(rows, Unused) : Claims(w, rows, new)
    <2>1. {t \in proc[w].seen : Due(t)} \in SUBSET Tasks BY DEF TypeOK, ProcType
    <2> QED BY <2>1 DEF Claim, Go, Claims
  <1>2. PICK new \in Injection(rows, Unused) : Claims(w, rows, new) BY <1>1
  <1>3. /\ Range(new) \in SUBSET Unused
        /\ \A r \in Range(new) : /\ run'[r].task \in rows
                                 /\ run'[r].status = "running" /\ run'[r].manual = FALSE
        /\ \A t \in rows : \E r \in Range(new) : run'[r].task = t
        /\ \A r \in Runs \ Range(new) : run'[r] = run[r]
        /\ run' \in [Runs -> RunType]
    BY <1>2, ClaimMakes, Zenon
  <1>4. /\ proc' = [proc EXCEPT ![w] = [Idle EXCEPT !.pc = "next", !.todo = Range(new)]]
        /\ claims' = [t \in Tasks |-> claims[t] + IF t \in rows THEN 1 ELSE 0]
        /\ stale' = stale \cup {t \in rows : RunningRuns(t) # {}}
    BY <1>2, Zenon DEF Claims
  <1> Range(new) \in SUBSET Unused BY <1>3
  <1> WITNESS rows \in SUBSET Tasks, Range(new) \in SUBSET Unused
  <1> QED BY <1>3, <1>4, Zenon

-----------------------------------------------------------------------------
(* Types                                                                    *)

LEMMA InitType == Init => TypeOK
PROOF BY BoundsAssumption
      DEF Init, TypeOK, TaskType, RunType, ProcType, Working, Idle, Lifecycle!Statuses

\* Every record a worker moves to is one of these.
LEMMA GoType ==
  ASSUME TypeOK, NEW w \in Workers, NEW state \in ProcType, Go(w, state)
  PROVE  /\ proc' \in [Workers -> ProcType] /\ proc'[w] = state
         /\ \A v \in Workers : v # w => proc'[v] = proc[v]
PROOF BY DEF TypeOK, Go

LEMMA IdleType == Idle \in ProcType
PROOF BY DEF Idle, ProcType

LEMMA ThenType ==
  ASSUME TypeOK, NEW w \in Workers, NEW pc \in {"next"} \cup Working
  PROVE  /\ Then(w, pc) \in ProcType
         /\ Then(w, pc).pc = pc
         /\ Then(w, pc).todo = proc[w].todo
         /\ Then(w, pc).run = proc[w].run /\ Then(w, pc).task = proc[w].task
PROOF BY DEF TypeOK, Then, ProcType

\* The steps that leave runs, executions and tasks alone.
Quiet(w) ==
  \/ Poll(w) \/ TakeNext(w) \/ \E t \in Tasks : RunNow(w, t)
  \/ Count(w) \/ StartFails(w) \/ ExecutionReturns(w) \/ ExecutionErrs(w)
  \/ CompleteFails(w) \/ FailFails(w) \/ Crash(w)

\* Where they lead: a worker is idle again or begins, takes its next run, goes on with
\* the one it has.
QuietTo(w, state) ==
  \/ /\ state.pc \notin Working /\ state.todo = {}
     /\ state.pc = "record" => state.want \in {"running", "queued"}
  \/ /\ proc[w].pc = "next" /\ state.pc = "count"
     /\ \E r \in proc[w].todo :
          state.todo = proc[w].todo \ {r} /\ state.run = r /\ state.task = run[r].task
  \/ /\ proc[w].pc \in Working /\ state.pc \in {"next", "create", "complete", "fail", "fallback"}
     /\ state.todo = proc[w].todo /\ state.run = proc[w].run /\ state.task = proc[w].task
     /\ state.pc = "complete" => status[proc[w].run] \in EndedWell
     /\ state.pc = "fallback" => hurt' = hurt \cup {proc[w].task}

LEMMA QuietEffect ==
  ASSUME TypeOK, NEW w \in Workers, Quiet(w)
  PROVE  /\ UNCHANGED <<task, run, status, claims, stale>>
         /\ events' \in 0 .. EventBound
         /\ hurt' \in SUBSET (Tasks \cup {NoTask}) /\ hurt \subseteq hurt'
         /\ \E state \in ProcType : Go(w, state) /\ QuietTo(w, state)
PROOF
  <1>0. /\ proc[w] \in ProcType /\ events \in 0 .. EventBound /\ run \in [Runs -> RunType]
        /\ hurt \in SUBSET (Tasks \cup {NoTask})
    BY DEF TypeOK
  <1>1. UNCHANGED <<task, run, status, claims, stale>>
    <2>1. CASE Poll(w) \/ TakeNext(w) \/ Count(w) \/ StartFails(w)
      BY <2>1 DEF Poll, TakeNext, Count, StartFails, History
    <2>2. CASE ExecutionReturns(w) \/ ExecutionErrs(w) \/ \E t \in Tasks : RunNow(w, t)
      BY <2>2 DEF ExecutionReturns, ExecutionErrs, RunNow, History
    <2>3. CASE CompleteFails(w) \/ FailFails(w) \/ Crash(w)
      BY <2>3 DEF CompleteFails, FailFails, Crash
    <2> QED BY <2>1, <2>2, <2>3 DEF Quiet
  <1>2. events' \in 0 .. EventBound
    <2>1. CASE UNCHANGED events BY <1>0, <2>1
    <2>2. CASE events < EventBound /\ events' = events + 1 BY <1>0, <2>2, BoundsAssumption
    <2>3. CASE Poll(w) \/ TakeNext(w) \/ Count(w) \/ StartFails(w) \/ ExecutionReturns(w) \/ ExecutionErrs(w)
      BY <2>1, <2>3 DEF Poll, TakeNext, Count, StartFails, ExecutionReturns, ExecutionErrs, Calm
    <2>4. CASE CompleteFails(w) \/ FailFails(w) \/ Crash(w) \/ \E t \in Tasks : RunNow(w, t)
      BY <2>2, <2>4 DEF CompleteFails, FailFails, Crash, RunNow, Event
    <2> QED BY <2>3, <2>4 DEF Quiet
  <1>3. hurt' \in SUBSET (Tasks \cup {NoTask}) /\ hurt \subseteq hurt'
    <2>1. CASE Crash(w)
      <3>1. \A r \in Runs : run[r].task \in Tasks \cup {NoTask} BY <1>0 DEF RunType
      <3> QED BY <1>0, <2>1, <3>1 DEF Crash
    <2>2. CASE CompleteFails(w) \/ FailFails(w)
      BY <1>0, <2>2 DEF CompleteFails, FailFails, ProcType
    <2>3. CASE UNCHANGED hurt BY <1>0, <2>3
    <2> QED BY <2>1, <2>2, <2>3
            DEF Quiet, Poll, TakeNext, RunNow, Count, StartFails, ExecutionReturns,
                ExecutionErrs, History
  <1>4. \E state \in ProcType : Go(w, state) /\ QuietTo(w, state)
    <2>1. CASE Poll(w)
      <3>1. [Idle EXCEPT !.pc = "claim", !.seen = {t \in Tasks : Claimable(t)}] \in ProcType
        BY DEF Idle, ProcType
      <3>2. QuietTo(w, [Idle EXCEPT !.pc = "claim", !.seen = {t \in Tasks : Claimable(t)}])
        BY DEF QuietTo, Idle, Working
      <3> QED BY <2>1, <3>1, <3>2 DEF Poll
    <2>2. CASE TakeNext(w)
      <3>1. QuietTo(w, Idle) BY DEF QuietTo, Idle, Working
      <3>2. ASSUME NEW r \in proc[w].todo
            PROVE  LET s == [proc[w] EXCEPT !.pc = "count", !.todo = @ \ {r}, !.run = r, !.task = run[r].task]
                   IN s \in ProcType /\ (At(w, "next") => QuietTo(w, s))
        <4>1. r \in Runs /\ run[r].task \in Tasks \cup {NoTask} BY <1>0 DEF ProcType, RunType
        <4> QED BY <1>0, <4>1 DEF QuietTo, ProcType, Working, At
      <3> QED BY <2>2, <3>1, <3>2, IdleType DEF TakeNext
    <2>3. ASSUME NEW t \in Tasks, RunNow(w, t) PROVE \E state \in ProcType : Go(w, state) /\ QuietTo(w, state)
      <3>1. PICK want \in {"running", "queued"} :
              Go(w, [Idle EXCEPT !.pc = "record", !.task = t, !.want = want])
        BY <2>3 DEF RunNow
      <3>2. [Idle EXCEPT !.pc = "record", !.task = t, !.want = want] \in ProcType
        BY DEF Idle, ProcType
      <3>3. QuietTo(w, [Idle EXCEPT !.pc = "record", !.task = t, !.want = want])
        BY DEF QuietTo, Idle, Working
      <3> QED BY <3>1, <3>2, <3>3
    <2>4. CASE Count(w)
      <3>1. PICK want \in {"running", "queued"} :
              Go(w, [proc[w] EXCEPT !.pc = "create", !.want = want])
        BY <2>4 DEF Count
      <3>2. [proc[w] EXCEPT !.pc = "create", !.want = want] \in ProcType
        BY <1>0 DEF ProcType, Working
      <3>3. QuietTo(w, [proc[w] EXCEPT !.pc = "create", !.want = want])
        BY <1>0, <2>4 DEF QuietTo, ProcType, Working, Count, At
      <3> QED BY <3>1, <3>2, <3>3
    <2>5. CASE StartFails(w) \/ ExecutionErrs(w)
      <3>1. QuietTo(w, Then(w, "fail"))
        BY <2>5, ThenType DEF QuietTo, StartFails, ExecutionErrs, At, Working
      <3> QED BY <2>5, <3>1, ThenType DEF StartFails, ExecutionErrs, Working
    <2>6. CASE ExecutionReturns(w)
      <3>1. proc[w].pc = "run" BY <2>6 DEF ExecutionReturns, At
      <3>2. PICK pc \in {"complete", "fail", "next"} :
              Go(w, Then(w, pc)) /\ (pc = "complete" => status[proc[w].run] \in EndedWell)
        BY <2>6 DEF ExecutionReturns, MayComplete
      <3>3. QuietTo(w, Then(w, pc)) BY <3>1, <3>2, ThenType DEF QuietTo, Working
      <3> QED BY <3>2, <3>3, ThenType DEF Working
    <2>7. CASE CompleteFails(w)
      <3>1. QuietTo(w, Then(w, "next")) /\ QuietTo(w, Idle)
        BY <2>7, ThenType DEF QuietTo, CompleteFails, At, Working, Idle
      <3> QED BY <2>7, <3>1, ThenType, IdleType DEF CompleteFails
    <2>8. CASE FailFails(w)
      <3>1. QuietTo(w, Then(w, "fallback"))
        BY <2>8, ThenType DEF QuietTo, FailFails, At, Working
      <3> QED BY <2>8, <3>1, ThenType DEF FailFails, Working
    <2>9. CASE Crash(w)
      <3>1. QuietTo(w, Idle) BY DEF QuietTo, Idle, Working
      <3> QED BY <2>9, <3>1, IdleType DEF Crash
    <2> QED BY <2>1, <2>2, <2>3, <2>4, <2>5, <2>6, <2>7, <2>8, <2>9 DEF Quiet
  <1> QED BY <1>1, <1>2, <1>3, <1>4

\* The end of a run is written if it is still running, with the next time of its task if
\* it was claimed.
LEMMA EndedEffect ==
  ASSUME TypeOK, NEW w \in Workers, NEW st \in {"completed", "failed"}, Ended(w, st)
  PROVE  /\ task' \in [Tasks -> TaskType] /\ run' \in [Runs -> RunType] /\ claims' \in [Tasks -> Nat]
         /\ \A r \in Runs : r # proc[w].run => run'[r] = run[r]
         /\ proc[w].run \in Runs /\ run[proc[w].run].status = "running"
              => run'[proc[w].run] = [run[proc[w].run] EXCEPT !.status = st]
         /\ \A t \in Tasks : claims'[t] \in {0, claims[t]}
         /\ \A t \in Tasks : t = proc[w].task /\ Claimed(proc[w].run) => claims'[t] = 0
PROOF
  <1>1. run' \in [Runs -> RunType]
    <2>1. \A r \in Runs : [run[r] EXCEPT !.status = st] \in RunType BY DEF TypeOK, RunType
    <2>2. CASE run' = [run EXCEPT ![proc[w].run].status = st]
      <3>1. \A r \in Runs : run'[r] = IF r = proc[w].run THEN [run[r] EXCEPT !.status = st] ELSE run[r]
        BY <2>2 DEF TypeOK
      <3> QED BY <2>1, <2>2, <3>1 DEF TypeOK
    <2> QED BY <2>2 DEF Ended, TypeOK
  <1>2. task' \in [Tasks -> TaskType]
    <2>1. \A t \in Tasks : [task[t] EXCEPT !.next = "ahead"] \in TaskType BY DEF TypeOK, TaskType
    <2>2. CASE task' = [task EXCEPT ![proc[w].task].next = "ahead"]
      <3>1. \A t \in Tasks : task'[t] = IF t = proc[w].task THEN [task[t] EXCEPT !.next = "ahead"] ELSE task[t]
        BY <2>2 DEF TypeOK
      <3> QED BY <2>1, <2>2, <3>1 DEF TypeOK
    <2> QED BY <2>2 DEF Ended, TypeOK
  <1>3. /\ claims' \in [Tasks -> Nat]
        /\ \A t \in Tasks : claims'[t] \in {0, claims[t]}
        /\ \A t \in Tasks : t = proc[w].task /\ Claimed(proc[w].run) => claims'[t] = 0
    BY DEF Ended, TypeOK, Claimed
  <1>4. /\ \A r \in Runs : r # proc[w].run => run'[r] = run[r]
        /\ proc[w].run \in Runs /\ run[proc[w].run].status = "running"
             => run'[proc[w].run] = [run[proc[w].run] EXCEPT !.status = st]
    BY DEF Ended, TypeOK
  <1> QED BY <1>1, <1>2, <1>3, <1>4

LEMMA StepType == TypeOK /\ [Next]_vars => TypeOK'
PROOF
  <1> SUFFICES ASSUME TypeOK, [Next]_vars PROVE TypeOK' OBVIOUS
  <1>0. /\ \A w \in Workers : proc[w] \in ProcType
        /\ \A r \in Runs : run[r] \in RunType
        /\ events \in 0 .. EventBound
    BY DEF TypeOK
  <1>1. ASSUME NEW w \in Workers, Quiet(w) PROVE TypeOK'
    <2>1. proc' \in [Workers -> ProcType] BY <1>1, QuietEffect, GoType
    <2> QED BY <1>1, <2>1, QuietEffect DEF TypeOK
  <1>2. ASSUME NEW w \in Workers, Claim(w) PROVE TypeOK'
    <2>1. PICK rows \in SUBSET Tasks, taken \in SUBSET Unused :
            /\ run' \in [Runs -> RunType]
            /\ proc' = [proc EXCEPT ![w] = [Idle EXCEPT !.pc = "next", !.todo = taken]]
            /\ claims' = [t \in Tasks |-> claims[t] + IF t \in rows THEN 1 ELSE 0]
            /\ stale' = stale \cup {t \in rows : RunningRuns(t) # {}}
      BY <1>2, ClaimEffect
    <2>2. [Idle EXCEPT !.pc = "next", !.todo = taken] \in ProcType BY DEF Idle, ProcType, Unused
    <2>3. proc' \in [Workers -> ProcType] BY <2>1, <2>2 DEF TypeOK
    <2>4. claims' \in [Tasks -> Nat] /\ stale' \subseteq Tasks BY <2>1 DEF TypeOK
    <2> QED BY <1>2, <2>1, <2>3, <2>4 DEF Claim, Calm, TypeOK
  <1>3. ASSUME NEW w \in Workers, Record(w) PROVE TypeOK'
    <2>1. PICK r \in Runs :
            /\ run' = [run EXCEPT ![r] = [task |-> proc[w].task, status |-> proc[w].want, manual |-> TRUE]]
            /\ Go(w, IF proc[w].want = "queued" THEN Idle
                     ELSE [Idle EXCEPT !.pc = "count", !.run = r, !.task = proc[w].task])
      BY <1>3 DEF Record
    <2>2. [task |-> proc[w].task, status |-> proc[w].want, manual |-> TRUE] \in RunType
      BY <1>0 DEF RunType, ProcType
    <2>3. [Idle EXCEPT !.pc = "count", !.run = r, !.task = proc[w].task] \in ProcType
      BY <1>0 DEF Idle, ProcType, Working
    <2>4. proc' \in [Workers -> ProcType] BY <2>1, <2>3, IdleType, GoType
    <2> QED BY <1>3, <2>1, <2>2, <2>4 DEF Record, Calm, History, TypeOK
  <1>4. ASSUME NEW w \in Workers, Create(w) PROVE TypeOK'
    <2>1. PICK pc \in {"complete", "run"} : Go(w, [proc[w] EXCEPT !.pc = pc, !.want = "absent"])
      BY <1>4 DEF Create
    <2>2. [proc[w] EXCEPT !.pc = pc, !.want = "absent"] \in ProcType BY <1>0 DEF ProcType, Working
    <2>3. proc' \in [Workers -> ProcType] BY <2>1, <2>2, GoType
    <2>4. proc[w].want \in Lifecycle!Statuses BY <1>0 DEF ProcType, Lifecycle!Statuses
    <2> QED BY <1>4, <2>3, <2>4 DEF Create, Calm, History, TypeOK
  <1>5. ASSUME NEW w \in Workers, Complete(w) \/ Fail(w) PROVE TypeOK'
    <2>1. \/ Go(w, Idle) \/ Go(w, Then(w, "next")) \/ Go(w, Then(w, "fallback"))
      BY <1>5 DEF Complete, Fail
    <2>2. proc' \in [Workers -> ProcType] BY <2>1, ThenType, IdleType, GoType DEF Working
    <2>3. CASE \E st \in {"completed", "failed"} : Ended(w, st)
      BY <1>5, <2>2, <2>3, EndedEffect DEF Complete, Fail, Calm, TypeOK
    <2>4. CASE UNCHANGED <<task, run, claims>> BY <1>5, <2>2, <2>4 DEF Complete, Fail, Calm, TypeOK
    <2> QED BY <1>5, <2>3, <2>4 DEF Complete, Fail
  <1>6. ASSUME NEW w \in Workers, Fallback(w) PROVE TypeOK'
    <2>1. Go(w, Idle) \/ Go(w, Then(w, "next")) BY <1>6 DEF Fallback
    <2>2. proc' \in [Workers -> ProcType] BY <2>1, ThenType, IdleType, GoType
    <2>3. \A r \in Runs : [run[r] EXCEPT !.status = "failed"] \in RunType BY <1>0 DEF RunType
    <2>4. run' = [run EXCEPT ![proc[w].run].status = "failed"] BY <1>6 DEF Fallback
    <2>5. \A r \in Runs : run'[r] = IF r = proc[w].run THEN [run[r] EXCEPT !.status = "failed"] ELSE run[r]
      BY <2>4 DEF TypeOK
    <2>6. run' \in [Runs -> RunType] BY <1>0, <2>3, <2>4, <2>5 DEF TypeOK
    <2> QED BY <1>6, <2>2, <2>6 DEF Fallback, Calm, History, TypeOK
  <1>7. ASSUME NEW t \in Tasks, TimePasses(t) PROVE TypeOK'
    <2>1. [task[t] EXCEPT !.next = "due"] \in TaskType BY DEF TypeOK, TaskType
    <2> QED BY <1>7, <2>1 DEF TimePasses, Calm, History, TypeOK
  <1>8. ASSUME NEW t \in Tasks, NEW on \in BOOLEAN, UpdateEnabled(t, on) PROVE TypeOK'
    <2>1. [enabled |-> on, next |-> IF on THEN "ahead" ELSE "none"] \in TaskType BY DEF TaskType
    <2> QED BY <1>8, <2>1, BoundsAssumption DEF UpdateEnabled, Event, TypeOK
  <1>9. ASSUME NEW r \in Runs, ExecutionMoves(r) PROVE TypeOK'
    BY <1>9, MoveEffect DEF ExecutionMoves, Calm, History, TypeOK
  <1>10. CASE UNCHANGED vars BY <1>10 DEF vars, TypeOK
  <1> QED BY <1>1, <1>2, <1>3, <1>4, <1>5, <1>6, <1>7, <1>8, <1>9, <1>10
          DEF Next, Step, Faulty, Quiet

-----------------------------------------------------------------------------
(* The invariant                                                            *)

\* What a step of a worker does to the others, to the runs and to what is promised.
Good(w) ==
  /\ \A v \in Workers : v # w => proc'[v] = proc[v]
  /\ \A r \in Runs : r \notin Held(w) /\ run[r].status # "absent" => run'[r] = run[r]
  /\ Held(w)' \subseteq Held(w) \cup Unused
  /\ \A r \in Runs : status'[r] \in {"absent", "queued"} => status'[r] = status[r] \/ r \in Held(w)
  /\ hurt \subseteq hurt'
  /\ HoldOK(w)'
  /\ \A r \in Runs : r \in Held(w) \/ run[r].status = "absent" =>
       (run'[r].status = "completed" /\ ~run'[r].manual => status'[r] \notin {"absent", "queued"})
  /\ ServedInv'

LEMMA HeldIsRunning ==
  ASSUME TypeOK, HoldInv, NEW w \in Workers
  PROVE  \A r \in Held(w) : r \in Runs /\ run[r].status = "running"
PROOF BY DEF HoldInv, HoldOK, Held, TypeOK, ProcType, Claimed

LEMMA GoodKeeps ==
  ASSUME ScheduleInv, TypeOK', NEW w \in Workers, Good(w)
  PROVE  ScheduleInv'
PROOF
  <1>0. TypeOK /\ HoldInv /\ ApartInv /\ CompletedRan BY DEF ScheduleInv
  <1>1. \A v \in Workers : \A r \in Held(v) : r \in Runs /\ run[r].status = "running"
    BY <1>0, HeldIsRunning
  <1>2. ASSUME NEW v \in Workers, v # w PROVE HoldOK(v)' /\ Held(v)' = Held(v) /\ Held(v) \cap Held(w)' = {}
    <2>1. proc'[v] = proc[v] /\ Held(v)' = Held(v) BY <1>2 DEF Good, Held
    <2>2. Held(v) \cap Held(w) = {} BY <1>0, <1>2 DEF ApartInv
    <2>3. \A r \in Held(v) : run'[r] = run[r] BY <1>1, <2>2 DEF Good
    <2>4. Held(v) \cap Held(w)' = {} BY <1>1, <2>2 DEF Good, Unused
    <2>5. \A r \in proc[v].todo : r \in Held(v) /\ Claimed(r) BY <1>0 DEF HoldInv, HoldOK, Held
    <2>6. \A r \in Held(v) : Claimed(r)' = Claimed(r) BY <2>3 DEF Claimed
    <2>7. \A r \in proc'[v].todo : Claimed(r)' BY <2>1, <2>5, <2>6
    <2>8. ASSUME proc'[v].pc \in Working
          PROVE  /\ proc'[v].run \in Runs \ proc'[v].todo
                 /\ run'[proc'[v].run].status = "running"
                 /\ run'[proc'[v].run].task = proc'[v].task
                 /\ Claimed(proc[v].run)' =>
                      /\ proc'[v].pc = "complete" => status'[proc'[v].run] \notin {"absent", "queued"}
                      /\ proc'[v].pc = "fallback" => proc'[v].task \in hurt'
      <3>1. proc[v].run \in Held(v) BY <2>1, <2>8 DEF Held
      <3>2. run'[proc[v].run] = run[proc[v].run] BY <2>3, <3>1
      <3>3. /\ proc[v].run \in Runs \ proc[v].todo
            /\ run[proc[v].run].status = "running"
            /\ run[proc[v].run].task = proc[v].task
            /\ Claimed(proc[v].run) =>
                 /\ proc[v].pc = "complete" => status[proc[v].run] \notin {"absent", "queued"}
                 /\ proc[v].pc = "fallback" => proc[v].task \in hurt
        BY <1>0, <2>1, <2>8 DEF HoldInv, HoldOK
      <3>4. proc[v].run \notin Held(w) BY <2>2, <3>1
      <3>5. Claimed(proc[v].run)' = Claimed(proc[v].run) BY <2>1, <3>2 DEF Claimed
      <3>6. status'[proc[v].run] \in {"absent", "queued"} => status'[proc[v].run] = status[proc[v].run]
        BY <3>3, <3>4 DEF Good
      <3>7. hurt \subseteq hurt' BY DEF Good
      <3> QED BY <2>1, <3>2, <3>3, <3>5, <3>6, <3>7
    <2>9. HoldOK(v)' BY <1>0, <2>1, <2>7, <2>8 DEF HoldInv, HoldOK
    <2> QED BY <2>1, <2>4, <2>9
  <1>3. HoldInv' BY <1>2 DEF Good, HoldInv
  <1>4. ApartInv' BY <1>0, <1>2 DEF ApartInv
  <1>5. CompletedRan'
    <2> SUFFICES ASSUME NEW r \in Runs, run'[r].status = "completed", ~run'[r].manual
                 PROVE  status'[r] \notin {"absent", "queued"}
      BY DEF CompletedRan
    <2>1. CASE r \in Held(w) \/ run[r].status = "absent" BY <2>1 DEF Good
    <2>2. CASE r \notin Held(w) /\ run[r].status # "absent"
      <3>1. run'[r] = run[r] BY <2>2 DEF Good
      <3>2. status[r] \notin {"absent", "queued"} BY <1>0, <3>1 DEF CompletedRan
      <3> QED BY <2>2, <3>2 DEF Good
    <2> QED BY <2>1, <2>2
  <1>6. ServedInv' BY DEF Good
  <1> QED BY <1>3, <1>4, <1>5, <1>6 DEF ScheduleInv

\* A step that leaves the claimed runs of a task as they are, or counts none, keeps
\* what its time is owed.
LEMMA ServedKeeps ==
  ASSUME ServedInv, TypeOK, hurt \subseteq hurt', stale \subseteq stale',
         \A t \in Tasks \ (stale' \cup hurt') :
           \/ claims'[t] = 0
           \/ claims'[t] = claims[t] /\ \A r \in Runs : run[r].task = t /\ Claimed(r) => run'[r] = run[r]
  PROVE  ServedInv'
PROOF
  <1> SUFFICES ASSUME NEW t \in Tasks \ (stale' \cup hurt') PROVE ServedOK(t)' BY DEF ServedInv
  <1>1. ServedOK(t) BY DEF ServedInv
  <1>2. CASE claims'[t] = 0 BY <1>2 DEF ServedOK
  <1>3. CASE /\ claims'[t] = claims[t]
             /\ \A r \in Runs : run[r].task = t /\ Claimed(r) => run'[r] = run[r]
    <2>1. CASE claims[t] = 0 BY <1>3, <2>1 DEF ServedOK
    <2>2. ASSUME NEW r \in Runs, run[r].task = t, Claimed(r), claims[t] = 1 PROVE ServedOK(t)'
      <3>1. run'[r] = run[r] BY <1>3, <2>2
      <3>2. run'[r].task = t /\ Claimed(r)' BY <2>2, <3>1 DEF Claimed
      <3> QED BY <1>3, <2>2, <3>2 DEF ServedOK
    <2> QED BY <1>1, <2>1, <2>2 DEF ServedOK
  <1> QED BY <1>2, <1>3

LEMMA InitInv == Init => ScheduleInv
PROOF
  <1> SUFFICES ASSUME Init PROVE ScheduleInv OBVIOUS
  <1>1. TypeOK BY InitType
  <1>2. HoldInv /\ ApartInv
    <2>1. \A w \in Workers : proc[w] = Idle BY DEF Init
    <2> QED BY <2>1 DEF HoldInv, HoldOK, ApartInv, Held, Idle, Working
  <1>3. ServedInv /\ CompletedRan BY DEF Init, ServedInv, ServedOK, CompletedRan
  <1> QED BY <1>1, <1>2, <1>3 DEF ScheduleInv

LEMMA QuietIsGood ==
  ASSUME ScheduleInv, NEW w \in Workers, Quiet(w)
  PROVE  Good(w)
PROOF
  <1>0. /\ TypeOK /\ HoldInv /\ ServedInv /\ CompletedRan
        /\ HoldOK(w)
    BY DEF ScheduleInv, HoldInv
  <1>1. /\ UNCHANGED <<task, run, status, claims, stale>> /\ hurt \subseteq hurt'
        /\ \E state \in ProcType : Go(w, state) /\ QuietTo(w, state)
    BY <1>0, QuietEffect
  <1>2. PICK state \in ProcType : Go(w, state) /\ QuietTo(w, state) BY <1>1
  <1>3. proc'[w] = state /\ \A v \in Workers : v # w => proc'[v] = proc[v]
    BY <1>0, <1>2, GoType
  <1>4. Held(w)' \subseteq Held(w)
    BY <1>2, <1>3 DEF QuietTo, Held, Working
  <1>5. \A r : Claimed(r)' = Claimed(r) BY <1>1 DEF Claimed
  <1>6. HoldOK(w)'
    <2>1. CASE /\ state.pc \notin Working /\ state.todo = {}
               /\ state.pc = "record" => state.want \in {"running", "queued"}
      BY <1>3, <2>1 DEF HoldOK
    <2>2. ASSUME NEW r \in proc[w].todo, state.pc = "count", state.todo = proc[w].todo \ {r},
                 state.run = r, state.task = run[r].task
          PROVE  HoldOK(w)'
      <3>1. /\ \A x \in proc[w].todo : Claimed(x)
            /\ r \in Runs /\ run[r].status = "running"
        BY <1>0, <2>2 DEF HoldOK, TypeOK, ProcType, Claimed
      <3>2. \A x \in proc'[w].todo : Claimed(x)' BY <1>3, <1>5, <2>2, <3>1
      <3>3. /\ proc'[w].run = r /\ proc'[w].pc = "count" /\ proc'[w].task = run[r].task
            /\ r \notin proc'[w].todo /\ run' = run
        BY <1>1, <1>3, <2>2
      <3> QED BY <3>1, <3>2, <3>3 DEF HoldOK
    <2>3. CASE /\ proc[w].pc \in Working /\ state.pc \in {"next", "create", "complete", "fail", "fallback"}
               /\ state.todo = proc[w].todo /\ state.run = proc[w].run /\ state.task = proc[w].task
               /\ state.pc = "complete" => status[proc[w].run] \in EndedWell
               /\ state.pc = "fallback" => hurt' = hurt \cup {proc[w].task}
      <3>1. \A x \in proc'[w].todo : Claimed(x)' BY <1>0, <1>3, <1>5, <2>3 DEF HoldOK
      <3>2. /\ proc'[w].run = proc[w].run /\ proc'[w].task = proc[w].task /\ proc'[w].todo = proc[w].todo
            /\ run' = run /\ status' = status
        BY <1>1, <1>3, <2>3
      <3>3. /\ proc'[w].run \in Runs \ proc'[w].todo
            /\ run'[proc'[w].run].status = "running"
            /\ run'[proc'[w].run].task = proc'[w].task
        BY <1>0, <2>3, <3>2 DEF HoldOK
      <3>4. /\ proc'[w].pc = "complete" => status'[proc'[w].run] \notin {"absent", "queued"}
            /\ proc'[w].pc = "fallback" => proc'[w].task \in hurt'
        BY <1>3, <2>3, <3>2 DEF EndedWell
      <3>5. proc'[w].pc # "record" BY <1>3, <2>3
      <3> QED BY <3>1, <3>3, <3>4, <3>5 DEF HoldOK
    <2> QED BY <1>2, <2>1, <2>2, <2>3 DEF QuietTo
  <1>7. ServedInv' BY <1>0, <1>1, ServedKeeps
  <1>8. \A r \in Runs : r \in Held(w) \/ run[r].status = "absent" => run'[r].status # "completed"
    BY <1>0, <1>1, HeldIsRunning
  <1> QED BY <1>1, <1>3, <1>4, <1>6, <1>7, <1>8 DEF Good

LEMMA ClaimIsGood ==
  ASSUME ScheduleInv, NEW w \in Workers, Claim(w)
  PROVE  Good(w)
PROOF
  <1>0. TypeOK /\ HoldInv /\ ServedInv BY DEF ScheduleInv
  <1>1. PICK rows \in SUBSET Tasks, taken \in SUBSET Unused :
          /\ \A r \in taken : /\ run'[r].task \in rows
                              /\ run'[r].status = "running" /\ run'[r].manual = FALSE
          /\ \A t \in rows : \E r \in taken : run'[r].task = t
          /\ \A r \in Runs \ taken : run'[r] = run[r]
          /\ run' \in [Runs -> RunType]
          /\ proc' = [proc EXCEPT ![w] = [Idle EXCEPT !.pc = "next", !.todo = taken]]
          /\ claims' = [t \in Tasks |-> claims[t] + IF t \in rows THEN 1 ELSE 0]
          /\ stale' = stale \cup {t \in rows : RunningRuns(t) # {}}
    BY <1>0, ClaimEffect, Zenon
  <1>2. UNCHANGED <<status, hurt>> BY DEF Claim
  <1>3. /\ proc'[w].pc = "next" /\ proc'[w].todo = taken
        /\ \A v \in Workers : v # w => proc'[v] = proc[v]
    BY <1>0, <1>1 DEF TypeOK, Idle
  <1>4. Held(w)' \subseteq Unused /\ HoldOK(w)'
    BY <1>1, <1>3 DEF Held, HoldOK, Working, Claimed
  <1>5. \A r \in Runs : run[r].status # "absent" => run'[r] = run[r] BY <1>1 DEF Unused
  <1>6. \A r \in Runs : r \in Held(w) \/ run[r].status = "absent" => run'[r].status # "completed"
    BY <1>0, <1>1, HeldIsRunning
  <1>7. ServedInv'
    <2> SUFFICES ASSUME NEW t \in Tasks \ (stale' \cup hurt') PROVE ServedOK(t)' BY DEF ServedInv
    <2>1. ServedOK(t) /\ claims[t] \in Nat BY <1>0, <1>1, <1>2 DEF ServedInv, TypeOK
    <2>2. CASE t \in rows
      <3>1. RunningRuns(t) = {} BY <1>1, <2>2
      <3>2. claims[t] = 0 BY <2>1, <3>1 DEF ServedOK, RunningRuns, Claimed
      <3>3. claims'[t] = 1 BY <1>1, <2>2, <3>2
      <3>4. PICK r \in taken : run'[r].task = t BY <1>1, <2>2
      <3>5. r \in Runs /\ Claimed(r)' BY <1>1, <3>4 DEF Claimed, Unused
      <3> QED BY <3>3, <3>4, <3>5 DEF ServedOK
    <2>3. CASE t \notin rows
      <3>1. claims'[t] = claims[t] BY <1>1, <2>1, <2>3
      <3>2. CASE claims[t] = 0 BY <3>1, <3>2 DEF ServedOK
      <3>3. ASSUME NEW r \in Runs, run[r].task = t, Claimed(r), claims[t] = 1 PROVE ServedOK(t)'
        <4>1. run'[r] = run[r] BY <1>5, <3>3 DEF Claimed
        <4>2. run'[r].task = t /\ Claimed(r)' BY <3>3, <4>1 DEF Claimed
        <4> QED BY <3>1, <3>3, <4>2 DEF ServedOK
      <3> QED BY <2>1, <3>2, <3>3 DEF ServedOK
    <2> QED BY <2>2, <2>3
  <1> QED BY <1>2, <1>3, <1>4, <1>5, <1>6, <1>7 DEF Good

LEMMA RecordIsGood ==
  ASSUME ScheduleInv, NEW w \in Workers, Record(w)
  PROVE  Good(w)
PROOF
  <1>0. TypeOK /\ HoldInv /\ ServedInv /\ proc[w] \in ProcType BY DEF ScheduleInv, TypeOK
  <1>1. PICK r \in Unused :
          /\ run' = [run EXCEPT ![r] = [task |-> proc[w].task, status |-> proc[w].want, manual |-> TRUE]]
          /\ Go(w, IF proc[w].want = "queued" THEN Idle
                   ELSE [Idle EXCEPT !.pc = "count", !.run = r, !.task = proc[w].task])
    BY DEF Record
  <1>2. UNCHANGED <<status, hurt, stale, claims>> BY DEF Record, History
  <1>3. /\ r \in Runs /\ run[r].status = "absent"
        /\ run'[r] = [task |-> proc[w].task, status |-> proc[w].want, manual |-> TRUE]
        /\ \A x \in Runs : x # r => run'[x] = run[x]
    BY <1>0, <1>1 DEF Unused, TypeOK
  <1>4. /\ proc'[w] = IF proc[w].want = "queued" THEN Idle
                      ELSE [Idle EXCEPT !.pc = "count", !.run = r, !.task = proc[w].task]
        /\ \A v \in Workers : v # w => proc'[v] = proc[v]
    BY <1>0, <1>1 DEF Go, TypeOK
  <1>5. Held(w)' \subseteq Unused BY <1>1, <1>4 DEF Held, Idle, Working
  <1>6. HoldOK(w)'
    <2>1. CASE proc[w].want = "queued" BY <1>4, <2>1 DEF HoldOK, Idle, Working
    <2>2. CASE proc[w].want # "queued"
      <3>1. proc[w].want = "running"
        BY <1>0, <2>2 DEF Record, At, HoldInv, HoldOK
      <3> QED BY <1>3, <1>4, <2>2, <3>1 DEF HoldOK, Idle, Claimed
    <2> QED BY <2>1, <2>2
  <1>7. ServedInv' BY <1>0, <1>2, <1>3, ServedKeeps DEF Claimed
  <1>8. \A x \in Runs : x \in Held(w) \/ run[x].status = "absent" => run'[x].status # "completed"
    BY <1>0, <1>3, HeldIsRunning DEF ProcType
  <1> QED BY <1>2, <1>3, <1>4, <1>5, <1>6, <1>7, <1>8 DEF Good

LEMMA CreateIsGood ==
  ASSUME ScheduleInv, NEW w \in Workers, Create(w)
  PROVE  Good(w)
PROOF
  <1>0. TypeOK /\ HoldInv /\ ServedInv /\ HoldOK(w) /\ proc[w] \in ProcType
    BY DEF ScheduleInv, TypeOK, HoldInv
  <1>1. /\ UNCHANGED <<task, run, claims, stale, hurt>>
        /\ status' = [status EXCEPT ![proc[w].run] = proc[w].want]
        /\ proc[w].pc = "create"
    BY DEF Create, At, History
  <1>2. PICK pc \in {"complete", "run"} :
          /\ Go(w, [proc[w] EXCEPT !.pc = pc, !.want = "absent"])
          /\ pc = "complete" => run[proc[w].run].manual
    BY DEF Create
  <1>3. /\ proc'[w].pc = pc /\ proc'[w].todo = proc[w].todo
        /\ proc'[w].run = proc[w].run /\ proc'[w].task = proc[w].task
        /\ \A v \in Workers : v # w => proc'[v] = proc[v]
    BY <1>0, <1>2 DEF Go, TypeOK, ProcType
  <1>4. Held(w)' = Held(w) BY <1>1, <1>3 DEF Held, Working
  <1>5. \A r : Claimed(r)' = Claimed(r) BY <1>1 DEF Claimed
  <1>6. \A r \in Runs : status'[r] # status[r] => r \in Held(w)
    BY <1>0, <1>1 DEF TypeOK, Held, Working
  <1>7. HoldOK(w)'
    <2>1. \A r \in proc'[w].todo : Claimed(r)' BY <1>0, <1>3, <1>5 DEF HoldOK
    <2>2. /\ proc'[w].run \in Runs \ proc'[w].todo
          /\ run'[proc'[w].run].status = "running"
          /\ run'[proc'[w].run].task = proc'[w].task
      BY <1>0, <1>1, <1>3 DEF HoldOK, Working
    <2>3. proc'[w].pc = "complete" => ~Claimed(proc[w].run)' BY <1>1, <1>2, <1>3 DEF Claimed
    <2>4. proc'[w].pc \notin {"record", "fallback"} BY <1>3
    <2> QED BY <1>3, <2>1, <2>2, <2>3, <2>4 DEF HoldOK
  <1>8. ServedInv' BY <1>0, <1>1, ServedKeeps
  <1>9. \A r \in Runs : r \in Held(w) \/ run[r].status = "absent" => run'[r].status # "completed"
    BY <1>0, <1>1, HeldIsRunning
  <1> QED BY <1>1, <1>3, <1>4, <1>6, <1>7, <1>8, <1>9 DEF Good

\* A worker that is done with its run, or stays with it as it is.
LEMMA AfterRun ==
  ASSUME NEW w \in Workers, TypeOK, HoldOK(w), proc[w].pc \in Working,
         \A r \in Runs : r # proc[w].run => run'[r] = run[r],
         Go(w, Idle) \/ Go(w, Then(w, "next"))
  PROVE  /\ \A v \in Workers : v # w => proc'[v] = proc[v]
         /\ Held(w)' \subseteq Held(w)
         /\ HoldOK(w)'
PROOF
  <1>0. proc[w] \in ProcType BY DEF TypeOK
  <1>1. CASE Go(w, Idle)
    <2>1. proc'[w] = Idle /\ \A v \in Workers : v # w => proc'[v] = proc[v] BY <1>1 DEF Go, TypeOK
    <2> QED BY <2>1 DEF Held, HoldOK, Idle, Working
  <1>2. CASE Go(w, Then(w, "next"))
    <2>1. /\ proc'[w].pc = "next" /\ proc'[w].todo = proc[w].todo
          /\ \A v \in Workers : v # w => proc'[v] = proc[v]
      BY <1>0, <1>2 DEF Go, Then, TypeOK, ProcType
    <2>2. \A r \in proc[w].todo : r \in Runs /\ r # proc[w].run /\ Claimed(r)
      BY <1>0 DEF HoldOK, ProcType
    <2>3. \A r \in proc'[w].todo : Claimed(r)' BY <2>1, <2>2 DEF Claimed
    <2> QED BY <2>1, <2>3 DEF Held, HoldOK, Working
  <1> QED BY <1>1, <1>2

LEMMA CompleteIsGood ==
  ASSUME ScheduleInv, NEW w \in Workers, Complete(w)
  PROVE  Good(w)
PROOF
  <1>0. TypeOK /\ HoldInv /\ ServedInv /\ HoldOK(w) BY DEF ScheduleInv, HoldInv
  <1>1. /\ UNCHANGED <<status, stale, hurt>> /\ Ended(w, "completed") /\ proc[w].pc = "complete"
        /\ Go(w, Idle) \/ Go(w, Then(w, "next"))
    BY DEF Complete, At
  <1>2. /\ proc[w].run \in Runs /\ run[proc[w].run].status = "running"
        /\ run[proc[w].run].task = proc[w].task
        /\ Claimed(proc[w].run) => status[proc[w].run] \notin {"absent", "queued"}
    BY <1>0, <1>1 DEF HoldOK, Working
  <1>3. /\ \A r \in Runs : r # proc[w].run => run'[r] = run[r]
        /\ run'[proc[w].run] = [run[proc[w].run] EXCEPT !.status = "completed"]
        /\ \A t \in Tasks : claims'[t] \in {0, claims[t]}
        /\ \A t \in Tasks : t = proc[w].task /\ Claimed(proc[w].run) => claims'[t] = 0
    BY <1>0, <1>1, <1>2, EndedEffect
  <1>4. /\ \A v \in Workers : v # w => proc'[v] = proc[v]
        /\ Held(w)' \subseteq Held(w)
        /\ HoldOK(w)'
    BY <1>0, <1>1, <1>3, AfterRun DEF Working
  <1>5. proc[w].run \in Held(w) BY <1>1 DEF Held, Working
  <1>6. run'[proc[w].run].manual = run[proc[w].run].manual BY <1>0, <1>2, <1>3 DEF TypeOK, RunType
  <1>7. \A r \in Runs : r \in Held(w) \/ run[r].status = "absent" =>
          (run'[r].status = "completed" /\ ~run'[r].manual => status'[r] \notin {"absent", "queued"})
    <2> SUFFICES ASSUME NEW r \in Runs, r \in Held(w) \/ run[r].status = "absent",
                        run'[r].status = "completed", ~run'[r].manual
                 PROVE  status'[r] \notin {"absent", "queued"}
      OBVIOUS
    <2>1. r = proc[w].run BY <1>0, <1>3, HeldIsRunning
    <2> QED BY <1>1, <1>2, <1>6, <2>1 DEF Claimed
  <1>8. ServedInv'
    <2>1. ASSUME NEW t \in Tasks
          PROVE  \/ claims'[t] = 0
                 \/ claims'[t] = claims[t] /\ \A r \in Runs : run[r].task = t /\ Claimed(r) => run'[r] = run[r]
      BY <1>2, <1>3
    <2> QED BY <1>0, <1>1, <2>1, ServedKeeps
  <1> QED BY <1>1, <1>3, <1>4, <1>5, <1>7, <1>8 DEF Good

LEMMA FailIsGood ==
  ASSUME ScheduleInv, NEW w \in Workers, Fail(w)
  PROVE  Good(w)
PROOF
  <1>0. TypeOK /\ HoldInv /\ ServedInv /\ HoldOK(w) BY DEF ScheduleInv, HoldInv
  <1>1. UNCHANGED <<status, stale, hurt>> /\ proc[w].pc = "fail" BY DEF Fail, At
  <1>2. /\ proc[w].run \in Runs \ proc[w].todo /\ run[proc[w].run].status = "running"
        /\ run[proc[w].run].task = proc[w].task
    BY <1>0, <1>1 DEF HoldOK, Working
  <1>3. proc[w].run \in Held(w) BY <1>1 DEF Held, Working
  <1>4. CASE /\ run[proc[w].run].manual /\ Go(w, Then(w, "fallback"))
             /\ UNCHANGED <<task, run, claims>>
    <2>1. /\ proc'[w].pc = "fallback" /\ proc'[w].todo = proc[w].todo
          /\ proc'[w].run = proc[w].run /\ proc'[w].task = proc[w].task
          /\ \A v \in Workers : v # w => proc'[v] = proc[v]
      BY <1>0, <1>4, ThenType DEF Go, TypeOK, Working
    <2>2. Held(w)' = Held(w) BY <1>1, <2>1 DEF Held, Working
    <2>3. ~Claimed(proc[w].run)' /\ \A r : Claimed(r)' = Claimed(r)
      <3>1. run' = run /\ proc'[w].run = proc[w].run BY <1>4, <2>1
      <3>2. \A r : Claimed(r)' = Claimed(r) BY <3>1 DEF Claimed
      <3> QED BY <1>4, <3>1, <3>2 DEF Claimed
    <2>4. HoldOK(w)' BY <1>0, <1>2, <1>4, <2>1, <2>3 DEF HoldOK
    <2>5. ServedInv' BY <1>0, <1>1, <1>4, ServedKeeps
    <2>6. \A r \in Runs : r \in Held(w) \/ run[r].status = "absent" => run'[r].status # "completed"
      BY <1>0, <1>4, HeldIsRunning
    <2> QED BY <1>1, <1>4, <2>1, <2>2, <2>4, <2>5, <2>6 DEF Good
  <1>5. CASE Ended(w, "failed") /\ Go(w, Then(w, "next"))
    <2>1. /\ \A r \in Runs : r # proc[w].run => run'[r] = run[r]
          /\ run'[proc[w].run] = [run[proc[w].run] EXCEPT !.status = "failed"]
          /\ \A t \in Tasks : claims'[t] \in {0, claims[t]}
          /\ \A t \in Tasks : t = proc[w].task /\ Claimed(proc[w].run) => claims'[t] = 0
      BY <1>0, <1>2, <1>5, EndedEffect
    <2>2. /\ \A v \in Workers : v # w => proc'[v] = proc[v]
          /\ Held(w)' \subseteq Held(w)
          /\ HoldOK(w)'
      BY <1>0, <1>1, <1>5, <2>1, AfterRun DEF Working
    <2>3. run'[proc[w].run].status = "failed" BY <1>0, <1>2, <2>1 DEF TypeOK, RunType
    <2>4. \A r \in Runs : r \in Held(w) \/ run[r].status = "absent" => run'[r].status # "completed"
      BY <1>0, <2>1, <2>3, HeldIsRunning
    <2>5. ServedInv'
      <3>1. ASSUME NEW t \in Tasks
            PROVE  \/ claims'[t] = 0
                   \/ claims'[t] = claims[t] /\ \A r \in Runs : run[r].task = t /\ Claimed(r) => run'[r] = run[r]
        BY <1>2, <2>1
      <3> QED BY <1>0, <1>1, <3>1, ServedKeeps
    <2> QED BY <1>1, <1>3, <2>1, <2>2, <2>4, <2>5 DEF Good
  <1> QED BY <1>4, <1>5 DEF Fail

LEMMA FallbackIsGood ==
  ASSUME ScheduleInv, NEW w \in Workers, Fallback(w)
  PROVE  Good(w)
PROOF
  <1>0. TypeOK /\ HoldInv /\ ServedInv /\ HoldOK(w) BY DEF ScheduleInv, HoldInv
  <1>1. /\ UNCHANGED <<status, task, claims, stale, hurt>> /\ proc[w].pc = "fallback"
        /\ run' = [run EXCEPT ![proc[w].run].status = "failed"]
        /\ Go(w, Idle) \/ Go(w, Then(w, "next"))
    BY DEF Fallback, At, History
  <1>2. /\ proc[w].run \in Runs /\ run[proc[w].run].task = proc[w].task
        /\ Claimed(proc[w].run) => proc[w].task \in hurt
    BY <1>0, <1>1 DEF HoldOK, Working
  <1>3. /\ \A r \in Runs : r # proc[w].run => run'[r] = run[r]
        /\ run'[proc[w].run].status = "failed"
    BY <1>0, <1>1, <1>2 DEF TypeOK, RunType
  <1>4. /\ \A v \in Workers : v # w => proc'[v] = proc[v]
        /\ Held(w)' \subseteq Held(w)
        /\ HoldOK(w)'
    BY <1>0, <1>1, <1>3, AfterRun DEF Working
  <1>5. proc[w].run \in Held(w) BY <1>1 DEF Held, Working
  <1>6. \A r \in Runs : r \in Held(w) \/ run[r].status = "absent" => run'[r].status # "completed"
    BY <1>0, <1>3, HeldIsRunning
  <1>7. ServedInv' BY <1>0, <1>1, <1>2, <1>3, ServedKeeps
  <1> QED BY <1>1, <1>3, <1>4, <1>5, <1>6, <1>7 DEF Good

\* Steps that no worker takes change no run.
LEMMA OthersKeep ==
  ASSUME ScheduleInv, TypeOK', UNCHANGED <<run, proc, stale, hurt>>,
         \A r \in Runs : status'[r] \in {"absent", "queued"} => status'[r] = status[r],
         \A t \in Tasks : claims'[t] \in {0, claims[t]}
  PROVE  ScheduleInv'
PROOF
  <1>0. TypeOK /\ HoldInv /\ ApartInv /\ ServedInv /\ CompletedRan BY DEF ScheduleInv
  <1>1. \A w \in Workers : Held(w)' = Held(w) BY DEF Held
  <1>2. \A r : Claimed(r)' = Claimed(r) BY DEF Claimed
  <1>3. ASSUME NEW w \in Workers PROVE HoldOK(w)'
    <2>1. HoldOK(w) BY <1>0 DEF HoldInv
    <2>2. proc'[w] = proc[w] /\ run' = run /\ hurt' = hurt OBVIOUS
    <2> QED BY <1>2, <2>1, <2>2 DEF HoldOK
  <1>4. HoldInv' /\ ApartInv' BY <1>0, <1>1, <1>3 DEF HoldInv, ApartInv
  <1>5. ServedInv' BY <1>0, ServedKeeps
  <1>6. CompletedRan' BY <1>0 DEF CompletedRan
  <1> QED BY <1>4, <1>5, <1>6 DEF ScheduleInv

LEMMA StepInv == ScheduleInv /\ [Next]_vars => ScheduleInv'
PROOF
  <1> SUFFICES ASSUME ScheduleInv, [Next]_vars PROVE ScheduleInv' OBVIOUS
  <1>0. TypeOK /\ TypeOK' BY StepType DEF ScheduleInv
  <1>1. ASSUME NEW w \in Workers,
               \/ Quiet(w) \/ Claim(w) \/ Record(w) \/ Create(w)
               \/ Complete(w) \/ Fail(w) \/ Fallback(w)
        PROVE  ScheduleInv'
    <2>1. Good(w)
      BY <1>1, QuietIsGood, ClaimIsGood, RecordIsGood, CreateIsGood, CompleteIsGood, FailIsGood, FallbackIsGood
    <2> QED BY <1>0, <2>1, GoodKeeps
  <1>2. ASSUME NEW t \in Tasks, TimePasses(t) PROVE ScheduleInv'
    BY <1>0, <1>2, OthersKeep DEF TimePasses, History
  <1>3. ASSUME NEW t \in Tasks, NEW on \in BOOLEAN, UpdateEnabled(t, on) PROVE ScheduleInv'
    <2>1. \A x \in Tasks : claims'[x] \in {0, claims[x]} BY <1>0, <1>3 DEF UpdateEnabled, TypeOK
    <2> QED BY <1>0, <1>3, <2>1, OthersKeep DEF UpdateEnabled
  <1>4. ASSUME NEW r \in Runs, ExecutionMoves(r) PROVE ScheduleInv'
    <2>1. \A x \in Runs : status'[x] \in {"absent", "queued"} => status'[x] = status[x]
      BY <1>0, <1>4, MoveEffect DEF ExecutionMoves
    <2> QED BY <1>0, <1>4, <2>1, OthersKeep DEF ExecutionMoves, History
  <1>5. CASE UNCHANGED vars BY <1>0, <1>5, OthersKeep DEF vars
  <1> QED BY <1>1, <1>2, <1>3, <1>4, <1>5 DEF Next, Step, Faulty, Quiet

-----------------------------------------------------------------------------
(* Theorems                                                                 *)

\* Every variable keeps its type.
THEOREM TypeCorrect == Spec => []TypeOK
PROOF BY InitType, StepType, PTL DEF Spec

\* The inductive invariant: no two workers have a run in hand, what they have is
\* running, and a claimed time keeps a running run until it is left behind.
THEOREM ScheduleInvariant == Spec => []ScheduleInv
PROOF BY InitInv, StepInv, PTL DEF Spec

\* A time that has come is claimed once, but for a stale claim or a lost record.
THEOREM ClaimedOnce == Spec => []DueOnce
PROOF
  <1>1. ScheduleInv => DueOnce BY DEF ScheduleInv, ServedInv, ServedOK, DueOnce
  <1> QED BY <1>1, ScheduleInvariant, PTL

\* A claimed run is recorded as completed only if its execution left the queue.
THEOREM CompletedRunsRan == Spec => []CompletedRan
PROOF
  <1>1. ScheduleInv => CompletedRan BY DEF ScheduleInv
  <1> QED BY <1>1, ScheduleInvariant, PTL
=============================================================================
