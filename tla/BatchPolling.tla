---------------------------- MODULE BatchPolling ----------------------------
(***************************************************************************)
(* Polling of provider batches (relay/batch_polling_worker.go and the jobs *)
(* of relay/store.go).  POST /v1/batch registers a job once the provider   *)
(* has accepted the batch; workers of several server processes claim due   *)
(* jobs under a lease, ask the provider and finalise what has ended: the   *)
(* usage row, the billing session, the API token's used quota, the job.    *)
(*                                                                         *)
(* Each statement is a step that may fail; a commit may be reported as     *)
(* failed; a process may die between two steps.  A claim is one statement. *)
(* Time is abstract: due says that available_at has passed, whether that   *)
(* is the delay of a retry or the lease of a claim.                        *)
(*                                                                         *)
(* The request settles its session before it registers the job (router.go, *)
(* module RelayRouter), so the worker's settlement and refund of it are    *)
(* refused: AfterUsage.  A second registration of a batch changes only the *)
(* amounts of its job, which are not modelled.                             *)
(***************************************************************************)
EXTENDS Naturals, FiniteSets

CONSTANTS
  Batches,
  Workers,
  NoWorker,
  Limit,           \* jobs claimed at once
  MaxJobAttempts   \* max_attempts, 5 in the code

ASSUME WorkersAssumption == NoWorker \notin Workers
ASSUME BoundsAssumption == Limit \in Nat \ {0} /\ MaxJobAttempts \in Nat \ {0}

VARIABLES
  provider,     \* what the provider says of a batch
  job,          \* relay_batch_polling_jobs
  usageStatus,  \* status of the request's usage row
  corrected,    \* history: corrections of the token's used quota on behalf of the batch
  proc          \* what each worker is doing; todo: its copies of claimed jobs

pollingVars == <<provider, job, usageStatus, corrected, proc>>

\* session and token: the request had a billing session, held quota of an API token.
Absent == [status |-> "absent", attempts |-> 0, lockedBy |-> NoWorker, due |-> FALSE,
           session |-> FALSE, token |-> FALSE]
Idle == [pc |-> "idle", todo |-> {}, batch |-> {}]

PollingInit ==
  /\ provider = [b \in Batches |-> "in_progress"]
  /\ job = [b \in Batches |-> Absent]
  /\ usageStatus = [b \in Batches |-> "requested"]
  /\ corrected = [b \in Batches |-> 0]
  /\ proc = [w \in Workers |-> Idle]

Final == {"succeeded", "dead_letter"}
Attempts == 1..(MaxJobAttempts + 1)

-----------------------------------------------------------------------------
(* The provider, the request and the clock                                  *)

ProviderEnds(b) ==
  /\ provider[b] = "in_progress"
  /\ \E s \in {"completed", "failed"} : provider' = [provider EXCEPT ![b] = s]
  /\ UNCHANGED <<job, usageStatus, corrected, proc>>

RegisterBatchPolling(b) ==
  /\ job[b].status = "absent"
  /\ \E session, token \in BOOLEAN :
       job' = [job EXCEPT ![b] = [@ EXCEPT !.status = "pending", !.due = TRUE,
                                          !.session = session, !.token = token]]
  /\ UNCHANGED <<provider, usageStatus, corrected, proc>>

\* available_at passes: a retry is due, or a lease has expired.
Due(b) ==
  /\ job[b].status \in {"failed", "processing"} /\ ~job[b].due
  /\ job' = [job EXCEPT ![b].due = TRUE]
  /\ UNCHANGED <<provider, usageStatus, corrected, proc>>

-----------------------------------------------------------------------------
(* Claims                                                                   *)

\* Mutant: a job whose lease has expired is not claimed again.
ClaimableUnleased(b) ==
  job[b].status \in {"pending", "failed"} /\ job[b].due /\ job[b].attempts <= MaxJobAttempts

Claimable(b) ==
  /\ job[b].status \in {"pending", "failed", "processing"}
  /\ job[b].due /\ job[b].attempts <= MaxJobAttempts

Leased(b, w, n) ==
  [job[b] EXCEPT !.status = "processing", !.attempts = n, !.lockedBy = w, !.due = FALSE]

\* Mutant: taking over an expired lease is not counted as an attempt.
ClaimedUncounted(b, w) ==
  Leased(b, w, IF job[b].status = "processing" THEN job[b].attempts ELSE job[b].attempts + 1)

Claimed(b, w) == Leased(b, w, job[b].attempts + 1)

\* Of more due jobs than the limit any may be taken: their order is not modelled.
ClaimBatchPollingJobs(w) ==
  LET open == {b \in Batches : Claimable(b)}
  IN /\ proc[w] = Idle /\ open # {}
     /\ \E taken \in SUBSET open :
          /\ Cardinality(taken) = Limit \/ (taken = open /\ Cardinality(open) <= Limit)
          /\ job' = [b \in Batches |-> IF b \in taken THEN Claimed(b, w) ELSE job[b]]
          /\ proc' = [proc EXCEPT ![w].todo = {<<b, Claimed(b, w).attempts>> : b \in taken}]
     /\ UNCHANGED <<provider, usageStatus, corrected>>

-----------------------------------------------------------------------------
(* One job of a worker: b, in its copy at attempt n                         *)

JobAt(w, pc, b, n) == proc[w].pc = pc /\ proc[w].batch = {<<b, n>>}
JobGo(w, pc) == proc' = [proc EXCEPT ![w].pc = pc]

\* RetrieveBatch; an error, a refusal by the readiness check before it and a batch
\* still in progress all lead to a mark that retries.
RetrieveBatch(w) ==
  /\ proc[w].pc = "idle"
  /\ \E c \in proc[w].todo, next \in {"retry", "finalise"} :
       /\ next = "finalise" => provider[c[1]] # "in_progress"
       /\ proc' = [proc EXCEPT ![w] = [pc |-> next, todo |-> @.todo \ {c}, batch |-> {c}]]
  /\ UNCHANGED <<provider, job, usageStatus, corrected>>

Outcome(b) == IF provider[b] = "completed" THEN "success" ELSE "error"

\* Settle and Refund of the session are refused: it is not preauthorized any more.
AfterUsage(b) == IF job[b].session THEN "retry" ELSE IF job[b].token THEN "token" ELSE "mark"

\* ReplaceRelayUsage, then the session, which does not change, ...
ReplaceUsage(w) ==
  \E b \in Batches, n \in Attempts :
    /\ JobAt(w, "finalise", b, n)
    /\ \/ usageStatus' = [usageStatus EXCEPT ![b] = Outcome(b)] /\ JobGo(w, AfterUsage(b))
       \/ /\ usageStatus' \in {usageStatus, [usageStatus EXCEPT ![b] = Outcome(b)]}
          /\ JobGo(w, "retry")
    /\ UNCHANGED <<provider, job, corrected>>

\* Mutant: the job is marked although the token's quota was not corrected.
AfterTokenAlways(ok) == "mark"

AfterToken(ok) == IF ok THEN "mark" ELSE "retry"

\* ... then the token: SettleRelayAPITokenQuota of a completed batch,
\* RefundRelayAPITokenQuota of a failed one.
CorrectToken(w) ==
  \E b \in Batches, n \in Attempts, done, ok \in BOOLEAN :
    /\ JobAt(w, "token", b, n) /\ (ok => done)
    /\ corrected' = IF done THEN [corrected EXCEPT ![b] = @ + 1] ELSE corrected
    /\ JobGo(w, AfterToken(ok))
    /\ UNCHANGED <<provider, job, usageStatus>>

\* Mutant: a mark does not ask who holds the job.
MatchesAny(b, w) == TRUE

\* The WHERE of every mark: locked_by is emptied by each of them.
Matches(b, w) == job[b].lockedBy = w

\* A mark: refused when the job has passed to another worker, and it may fail.  When
\* an ended job is due is not kept: nothing reads it.
Mark(w, b, status) ==
  /\ \/ /\ Matches(b, w)
        /\ job' = [job EXCEPT ![b] = [@ EXCEPT !.status = status, !.lockedBy = NoWorker,
                                               !.due = FALSE]]
     \/ UNCHANGED job
  /\ proc' = [proc EXCEPT ![w] = [@ EXCEPT !.pc = "idle", !.batch = {}]]
  /\ UNCHANGED <<provider, usageStatus, corrected>>

\* MarkBatchPollingJobSucceeded, or DeadLetter for a batch that failed.
MarkEnded(w) ==
  \E b \in Batches, n \in Attempts :
    /\ JobAt(w, "mark", b, n)
    /\ Mark(w, b, IF provider[b] = "completed" THEN "succeeded" ELSE "dead_letter")

\* recordFailedJob: also for a batch that is still in progress.
RecordFailedJob(w) ==
  \E b \in Batches, n \in Attempts :
    /\ JobAt(w, "retry", b, n)
    /\ Mark(w, b, IF n >= MaxJobAttempts THEN "dead_letter" ELSE "failed")

\* recordReadinessDeniedJob: the check before the provider, a finaliser, a final
\* status or a dead letter refuses; retried whatever the number of attempts.
RecordReadinessDeniedJob(w) ==
  \E b \in Batches, n \in Attempts, pc \in {"finalise", "mark", "retry"} :
    JobAt(w, pc, b, n) /\ Mark(w, b, "failed")

\* The process dies and restarts.
WorkerCrash(w) ==
  /\ proc[w] # Idle
  /\ proc' = [proc EXCEPT ![w] = Idle]
  /\ UNCHANGED <<provider, job, usageStatus, corrected>>

-----------------------------------------------------------------------------
Work(w) ==
  \/ RetrieveBatch(w) \/ ReplaceUsage(w) \/ CorrectToken(w)
  \/ MarkEnded(w) \/ RecordFailedJob(w) \/ RecordReadinessDeniedJob(w)

PollingNext ==
  \/ \E b \in Batches : ProviderEnds(b) \/ RegisterBatchPolling(b) \/ Due(b)
  \/ \E w \in Workers : ClaimBatchPollingJobs(w) \/ Work(w) \/ WorkerCrash(w)

PollingSpec == PollingInit /\ [][PollingNext]_pollingVars

\* Run polls at every tick and handles each job it claimed; leases and delays
\* expire.  Registration, the provider, refusals and crashes are under no
\* fairness.
Fairness ==
  /\ \A b \in Batches : WF_pollingVars(Due(b))
  /\ \A w \in Workers : WF_pollingVars(ClaimBatchPollingJobs(w)) /\ WF_pollingVars(Work(w))

PollingFairSpec == PollingSpec /\ Fairness

-----------------------------------------------------------------------------
JobType ==
  [status : {"absent", "pending", "processing", "failed"} \cup Final,
   attempts : 0..(MaxJobAttempts + 1), lockedBy : Workers \cup {NoWorker}, due : BOOLEAN,
   session : BOOLEAN, token : BOOLEAN]
ProcType ==
  [pc : {"idle", "finalise", "token", "mark", "retry"},
   todo : SUBSET (Batches \X Attempts), batch : SUBSET (Batches \X Attempts)]

PollingTypeOK ==
  /\ provider \in [Batches -> {"in_progress", "completed", "failed"}]
  /\ job \in [Batches -> JobType]
  /\ usageStatus \in [Batches -> {"requested", "success", "error"}]
  /\ corrected \in [Batches -> Nat]
  /\ proc \in [Workers -> ProcType]

\* A job that ended was finalised: the usage row says how the batch ended and
\* the token was corrected, also when workers whose leases expired, dead ones
\* and failed statements came in between; a dead letter may instead have used up
\* its attempts.
EndIsFinalised ==
  \A b \in Batches :
    \/ job[b].status \notin Final
    \/ job[b].status = "dead_letter" /\ job[b].attempts >= MaxJobAttempts
    \/ /\ usageStatus[b] = Outcome(b) /\ provider[b] # "in_progress"
       /\ (job[b].status = "succeeded") = (provider[b] = "completed")
       /\ job[b].token => corrected[b] > 0

\* The token's correction has no receipt: a worker that dies, or loses its lease,
\* between the correction and the mark makes the next one repeat it.  No more
\* than one correction is made per attempt, also by workers that overlap.
CorrectionsAreCounted ==
  \A b \in Batches : corrected[b] <= job[b].attempts

\* Ended jobs are held by nobody; unregistered ones were never claimed.
JobsInv ==
  \A b \in Batches :
    /\ job[b].status \in Final => job[b].lockedBy = NoWorker
    /\ job[b].status = "absent" => job[b].attempts = 0

Held(w) == proc[w].todo \cup proc[w].batch

\* Every copy is of an attempt that was counted, and no two workers hold one copy.
CopiesInv ==
  /\ \A w \in Workers :
       /\ \A c \in Held(w) : c[2] <= job[c[1]].attempts
       /\ proc[w].todo \cap proc[w].batch = {}
       /\ proc[w].pc = "idle" => proc[w].batch = {}
  /\ \A v, w \in Workers : v # w => Held(v) \cap Held(w) = {}

\* What a worker knows of the job it is finalising stays true.
ProgressInv ==
  \A w \in Workers, b \in Batches, n \in Attempts : proc[w].batch = {<<b, n>>} =>
    /\ proc[w].pc \in {"finalise", "token", "mark"} => provider[b] # "in_progress"
    /\ proc[w].pc \in {"token", "mark"} => usageStatus[b] = Outcome(b)
    /\ proc[w].pc = "mark" /\ job[b].token => corrected[b] > 0

\* Copies whose batch's token is still to be corrected.
ToCorrect(w) ==
  proc[w].todo \cup (IF proc[w].pc \in {"finalise", "token"} THEN proc[w].batch ELSE {})
Uncorrected(b) == {n \in Attempts : \E w \in Workers : <<b, n>> \in ToCorrect(w)}

CountInv ==
  \A b \in Batches : corrected[b] + Cardinality(Uncorrected(b)) <= job[b].attempts

\* The inductive invariant behind EndIsFinalised, CorrectionsAreCounted and EndIsFinal.
PollingInv ==
  /\ PollingTypeOK /\ JobsInv /\ CopiesInv /\ ProgressInv /\ CountInv /\ EndIsFinalised

\* The late mark of a worker that lost its lease never changes an ended job.
EndIsFinal ==
  [][\A b \in Batches : job[b].status \in Final => job'[b] = job[b]]_pollingVars

\* No job is polled for ever or forgotten while it has attempts left: it ends, or
\* its last attempt was refused or died and it is never claimed again.
PollingEnds ==
  \A b \in Batches :
    job[b].status # "absent" ~> job[b].status \in Final \/ job[b].attempts > MaxJobAttempts
=============================================================================
