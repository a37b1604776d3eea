------------------------- MODULE QuotaCompensation -------------------------
(***************************************************************************)
(* Compensation of relay requests that were denied after their quota was   *)
(* reserved (relay/quota_compensation.go, and the refunds of               *)
(* relay/api_token.go and quota/service.go it calls).                      *)
(*                                                                         *)
(* The process serving a request arms a durable job, then refunds each     *)
(* scope and marks it; workers on every node claim due jobs under a lease  *)
(* and do the same for what is left.  Both are agents here: each has a set *)
(* of tasks still to try and, between a refund and the statement that      *)
(* records its outcome, a report.  Each database statement or transaction  *)
(* is a step; it may fail, and it may succeed and be reported as failed.   *)
(*                                                                         *)
(* Time is abstract: due says that available_at has passed.  The order of  *)
(* the jobs in a claimed batch is left open.  refunds is history: the      *)
(* times a token's used_quota was lowered on behalf of a request.          *)
(***************************************************************************)
EXTENDS Naturals, FiniteSets

CONSTANTS
  Requests,     \* denied requests; the route attempt id gives each its own job
  Workers,
  Required,     \* the scopes a request reserved quota in
  Precision,    \* how the request's amount survives NUMERIC(15,6)
  Shared,       \* requests whose billing session another request settles
  NoWorker, NoReport,
  Limit,        \* jobs a worker claims at once
  OverrunBound  \* bound: leases that expire under a live worker

Scopes == {"organization", "api_token"}
Tasks == {t \in Requests \X Scopes : t[2] \in Required[t[1]]}
Agents == Requests \cup Workers

ASSUME AgentsAssumption == Requests \cap Workers = {} /\ NoWorker \notin Agents
ASSUME RequiredAssumption == Required \in [Requests -> (SUBSET Scopes) \ {{}}]
ASSUME PrecisionAssumption == Precision \in [Requests -> {"exact", "inexact", "vanishing"}]
ASSUME SharedAssumption == Shared \subseteq Requests
ASSUME ReportAssumption == NoReport \notin Requests \X Scopes \X BOOLEAN
ASSUME BoundsAssumption == Limit \in Nat \ {0} /\ OverrunBound \in Nat

VARIABLES
  jobs,      \* relay_quota_compensation_jobs
  session,   \* status of the request's billing session
  receipts,  \* relay_api_token_quota_refund_receipts
  refunds,   \* history: times the token's quota was given back
  told,      \* what the process serving the request knows of its job
  todo,      \* tasks an agent has still to try
  report,    \* outcome an agent has still to record
  overruns   \* bounded by OverrunBound

compensationVars == <<jobs, session, receipts, refunds, told, todo, report, overruns>>

AbsentJob == [status |-> "absent", completed |-> {}, lockedBy |-> NoWorker, due |-> FALSE]

CompensationInit ==
  /\ jobs = [r \in Requests |-> AbsentJob]
  /\ session = [r \in Requests |-> "preauthorized"]
  /\ receipts = {}
  /\ refunds = [r \in Requests |-> 0]
  /\ told = [r \in Requests |-> "unarmed"]
  /\ todo = [a \in Agents |-> {}]
  /\ report = [a \in Agents |-> NoReport]
  /\ overruns = 0

-----------------------------------------------------------------------------
(* Helpers                                                                  *)

TasksOf(r) == {t \in Tasks : t[1] = r}

\* Mutant: failed jobs are not claimed again.
NotFailed(r) == jobs[r].status \in {"pending", "processing"} /\ jobs[r].due

\* Pending, failed or with an expired lease.
Claimable(r) == jobs[r].status \in {"pending", "failed", "processing"} /\ jobs[r].due

\* What a worker finds to do in its copy of a job: a vanishing amount was stored
\* as 0 and is passed over.
Unfinished(r) ==
  {t \in TasksOf(r) : /\ t[2] \notin jobs[r].completed
                      /\ ~(t[2] = "api_token" /\ Precision[r] = "vanishing")}

\* The WHERE clause of both marks: a worker's UPDATE matches the row it claimed;
\* the serving process sends no worker name and matches always.
Matches(a, r, s) == s \in Required[r] /\ (a \in Requests \/ jobs[r].lockedBy = a)

\* Mutant: one completed scope closes the job.
AnyDone(r, completed) == completed # {}

\* The job has nothing left to refund.
AllDone(r, completed) == Required[r] \subseteq completed

Idle(a) == todo[a] = {} /\ report[a] = NoReport

\* The organization's scope of a job comes before its token's.
NextTask(a, t) ==
  /\ report[a] = NoReport
  /\ t \in todo[a]
  /\ t[2] = "api_token" => <<t[1], "organization">> \notin todo[a]

-----------------------------------------------------------------------------
(* Arming                                                                   *)

\* ArmQuotaCompensation commits: the job exists (ON CONFLICT DO NOTHING) and is due.
\* When the commit is reported as an error the process falls back to direct refunds.
Arm(r) ==
  /\ told[r] = "unarmed"
  /\ jobs' = IF jobs[r].status = "absent"
             THEN [jobs EXCEPT ![r].status = "pending", ![r].due = TRUE]
             ELSE jobs
  /\ \E answer \in {"armed", "fallback"} : told' = [told EXCEPT ![r] = answer]
  /\ todo' = [todo EXCEPT ![r] = TasksOf(r)]
  /\ UNCHANGED <<session, receipts, refunds, report, overruns>>

ArmFails(r) ==
  /\ told[r] = "unarmed"
  /\ told' = [told EXCEPT ![r] = "fallback"]
  /\ todo' = [todo EXCEPT ![r] = TasksOf(r)]
  /\ UNCHANGED <<jobs, session, receipts, refunds, report, overruns>>

-----------------------------------------------------------------------------
(* Refunds                                                                  *)

\* Service.Refund: a refunded session answers success, a settled one refuses.
RefundSession(r) ==
  /\ session[r] # "settled"
  /\ session' = [session EXCEPT ![r] = "refunded"]
  /\ UNCHANGED <<receipts, refunds>>

\* RefundRelayAPITokenQuota, of the fallback: no receipt.
RefundRelayAPITokenQuota(r) ==
  /\ refunds' = [refunds EXCEPT ![r] = @ + 1]
  /\ UNCHANGED <<session, receipts>>

\* Mutant: the receipt is written and not consulted.
RefundEveryTime(a, r) ==
  /\ Precision[r] = "exact" \/ (Precision[r] = "inexact" /\ a \in Workers)
  /\ receipts' = receipts \cup {r}
  /\ refunds' = [refunds EXCEPT ![r] = @ + 1]
  /\ UNCHANGED session

\* Receipt and refund in one transaction.  The receipt stores the rounded amount
\* and compares it with the one given: the serving process gives the exact one, a
\* worker the rounded one of the job's row; a receipt of 0 is refused.
RefundRelayAPITokenQuotaOnce(a, r) ==
  /\ Precision[r] = "exact" \/ (Precision[r] = "inexact" /\ a \in Workers)
  /\ receipts' = receipts \cup {r}
  /\ refunds' = IF r \in receipts THEN refunds ELSE [refunds EXCEPT ![r] = @ + 1]
  /\ UNCHANGED session

RefundScope(a, t) ==
  IF t[2] = "organization" THEN RefundSession(t[1])
  ELSE IF a \in Requests /\ told[a] = "fallback" THEN RefundRelayAPITokenQuota(t[1])
  ELSE RefundRelayAPITokenQuotaOnce(a, t[1])

\* Mutant: the refund's error is not looked at.
AttemptAnyway(a, t, ok) ==
  /\ todo' = [todo EXCEPT ![a] = @ \ {t}]
  /\ report' = [report EXCEPT ![a] =
       IF a \in Requests /\ told[a] = "fallback" THEN NoReport ELSE <<t[1], t[2], TRUE>>]
  /\ UNCHANGED <<jobs, told, overruns>>

\* The agent takes up the task; the fallback records no outcome.
Attempt(a, t, ok) ==
  /\ todo' = [todo EXCEPT ![a] = @ \ {t}]
  /\ report' = [report EXCEPT ![a] =
       IF a \in Requests /\ told[a] = "fallback" THEN NoReport ELSE <<t[1], t[2], ok>>]
  /\ UNCHANGED <<jobs, told, overruns>>

RefundSucceeds(a, t) == NextTask(a, t) /\ RefundScope(a, t) /\ Attempt(a, t, TRUE)

\* An error: nothing was committed, or the answer to the commit was lost.
RefundFails(a, t) ==
  /\ NextTask(a, t)
  /\ RefundScope(a, t) \/ UNCHANGED <<session, receipts, refunds>>
  /\ Attempt(a, t, FALSE)

-----------------------------------------------------------------------------
(* Recording outcomes                                                       *)

\* MarkQuotaCompensationScopeSucceeded: the last scope closes the job, an earlier
\* one leaves it pending, due at once and still locked.
MarkScopeSucceeded(a, r, s) ==
  /\ report[a] = <<r, s, TRUE>>
  /\ IF Matches(a, r, s)
     THEN LET completed == jobs[r].completed \cup {s} IN
          jobs' = [jobs EXCEPT ![r] =
            IF AllDone(r, completed)
            THEN [status |-> "succeeded", completed |-> completed, lockedBy |-> NoWorker, due |-> TRUE]
            ELSE [@ EXCEPT !.status = "pending", !.completed = completed, !.due = TRUE]]
     ELSE UNCHANGED jobs
  /\ report' = [report EXCEPT ![a] = NoReport]
  /\ UNCHANGED <<session, receipts, refunds, told, todo, overruns>>

\* The UPDATE finds the row: the scope was not completed by somebody else.
MayFail(a, r, s) == Matches(a, r, s) /\ s \notin jobs[r].completed

\* MarkQuotaCompensationScopeFailed: unlocked, and due again in a minute.
MarkScopeFailed(a, r, s) ==
  /\ report[a] = <<r, s, FALSE>>
  /\ jobs' = IF MayFail(a, r, s)
             THEN [jobs EXCEPT ![r].status = "failed", ![r].lockedBy = NoWorker, ![r].due = FALSE]
             ELSE jobs
  /\ report' = [report EXCEPT ![a] = NoReport]
  /\ UNCHANGED <<session, receipts, refunds, told, todo, overruns>>

\* The statement fails; its error is dropped.
MarkLost(a) ==
  /\ report[a] # NoReport
  /\ report' = [report EXCEPT ![a] = NoReport]
  /\ UNCHANGED <<jobs, session, receipts, refunds, told, todo, overruns>>

-----------------------------------------------------------------------------
(* Workers, time and crashes                                                *)

\* ClaimQuotaCompensationJobs: the worker keeps a copy of what was unfinished.
Claim(w, batch) ==
  /\ Idle(w)
  /\ batch # {} /\ Cardinality(batch) <= Limit
  /\ \A r \in batch : Claimable(r)
  /\ jobs' = [r \in Requests |->
       IF r \in batch
       THEN [jobs[r] EXCEPT !.status = "processing", !.lockedBy = w, !.due = FALSE]
       ELSE jobs[r]]
  /\ todo' = [todo EXCEPT ![w] = UNION {Unfinished(r) : r \in batch}]
  /\ UNCHANGED <<session, receipts, refunds, told, report, overruns>>

\* The worker that claimed r is alive and has not finished with it.
Busy(w, r) ==
  /\ jobs[r].lockedBy = w
  /\ \/ \E s \in Scopes : <<r, s>> \in todo[w]
     \/ \E s \in Scopes, ok \in BOOLEAN : report[w] = <<r, s, ok>>

\* available_at passes.  A lease may expire under a worker that is only slow.
BecomeDue(r) ==
  /\ jobs[r].status \in {"processing", "failed"} /\ ~jobs[r].due
  /\ jobs' = [jobs EXCEPT ![r].due = TRUE]
  /\ IF \E w \in Workers : Busy(w, r)
     THEN overruns < OverrunBound /\ overruns' = overruns + 1
     ELSE UNCHANGED overruns
  /\ UNCHANGED <<session, receipts, refunds, told, todo, report>>

\* The process of the agent stops.  A worker starts again with nothing to do.
Crash(a) ==
  /\ ~Idle(a) \/ (a \in Requests /\ told[a] = "unarmed")
  /\ todo' = [todo EXCEPT ![a] = {}]
  /\ report' = [report EXCEPT ![a] = NoReport]
  /\ told' = IF a \in Requests /\ told[a] = "unarmed"
             THEN [told EXCEPT ![a] = "crashed"] ELSE told
  /\ UNCHANGED <<jobs, session, receipts, refunds, overruns>>

\* Another request answered with the same billing session settles it.
SettleElsewhere(r) ==
  /\ r \in Shared
  /\ session[r] = "preauthorized"
  /\ session' = [session EXCEPT ![r] = "settled"]
  /\ UNCHANGED <<jobs, receipts, refunds, told, todo, report, overruns>>

-----------------------------------------------------------------------------
CompensationNext ==
  \/ \E r \in Requests : Arm(r) \/ ArmFails(r) \/ BecomeDue(r) \/ SettleElsewhere(r)
  \/ \E w \in Workers, batch \in SUBSET Requests : Claim(w, batch)
  \/ \E a \in Agents :
       \/ \E t \in Tasks : RefundSucceeds(a, t) \/ RefundFails(a, t)
       \/ \E r \in Requests, s \in Scopes : MarkScopeSucceeded(a, r, s) \/ MarkScopeFailed(a, r, s)
       \/ MarkLost(a) \/ Crash(a)

CompensationSpec == CompensationInit /\ [][CompensationNext]_compensationVars

\* Workers tick for ever and time passes; a due job is claimed in the end; a
\* worker gets on with what it claimed; and a refund, or the statement that
\* records it for the worker that holds the job, works if tried again and again.
Fairness ==
  /\ \A r \in Requests :
       /\ WF_compensationVars(BecomeDue(r))
       /\ SF_compensationVars(\E w \in Workers, batch \in SUBSET Requests : r \in batch /\ Claim(w, batch))
  /\ \A w \in Workers :
       WF_compensationVars(MarkLost(w) \/ \E t \in Tasks : RefundSucceeds(w, t) \/ RefundFails(w, t))
  /\ \A t \in Tasks :
       /\ SF_compensationVars(\E w \in Workers : RefundSucceeds(w, t))
       /\ SF_compensationVars(\E w \in Workers : Matches(w, t[1], t[2]) /\ MarkScopeSucceeded(w, t[1], t[2]))

CompensationFairSpec == CompensationSpec /\ Fairness

-----------------------------------------------------------------------------
(* Properties                                                               *)

JobType ==
  [status : {"absent", "pending", "processing", "succeeded", "failed"},
   completed : SUBSET Scopes, lockedBy : Workers \cup {NoWorker}, due : BOOLEAN]

\* Every variable has its type.
CompensationTypeOK ==
  /\ jobs \in [Requests -> JobType]
  /\ session \in [Requests -> {"preauthorized", "refunded", "settled"}]
  /\ receipts \subseteq Requests
  /\ refunds \in [Requests -> Nat]
  /\ told \in [Requests -> {"unarmed", "armed", "fallback", "crashed"}]
  /\ todo \in [Agents -> SUBSET Tasks]
  /\ report \in [Agents -> (Requests \X Scopes \X BOOLEAN) \cup {NoReport}]
  /\ overruns \in 0 .. OverrunBound

Refunded(r, s) ==
  IF s = "organization" THEN session[r] = "refunded" ELSE r \in receipts

\* A job says a scope is done only when its reservation was given back, whoever
\* marked it and however stale the copy it worked from.
CompletedMeansRefunded ==
  \A r \in Requests : \A s \in jobs[r].completed : Refunded(r, s)

\* A job is closed exactly when every scope it owes is done: no order of marks
\* by the serving process and the workers closes it early or leaves it open.
ClosedMeansDone ==
  \A r \in Requests :
    jobs[r].status = "succeeded" <=> AllDone(r, jobs[r].completed)

\* A token's quota is given back once per request by all the processes that try,
\* unless the serving process was told that arming failed.
TokenRefundedOnce ==
  \A r \in Requests : refunds[r] > 1 => told[r] = "fallback"

\* A success that waits to be recorded is true: nobody undoes a refund.
ReportsAreTrue ==
  \A a \in Agents, r \in Requests, s \in Scopes : report[a] = <<r, s, TRUE>> => Refunded(r, s)

\* The process that serves a request handles no other.
OwnTasks ==
  \A r \in Requests : todo[r] \subseteq TasksOf(r)

\* Only a process told that arming failed refunds a token without a receipt.
RefundsAreReceipts ==
  \A r \in Requests :
    told[r] # "fallback" => refunds[r] = IF r \in receipts THEN 1 ELSE 0

\* The inductive invariant behind CompletedMeansRefunded, ClosedMeansDone and
\* TokenRefundedOnce: a mark is only as true as the report it records.
CompensationInv ==
  /\ CompensationTypeOK /\ CompletedMeansRefunded /\ ClosedMeansDone
  /\ ReportsAreTrue /\ OwnTasks /\ RefundsAreReceipts

\* Completed scopes stay completed and a closed job stays closed, whatever a slow
\* process or a worker with a stale copy marks later.
CompletedIsFinal ==
  [][\A r \in Requests :
       /\ jobs[r].completed \subseteq jobs'[r].completed
       /\ jobs[r].status = "succeeded" => jobs'[r].status = "succeeded"]_compensationVars

Promise ==
  INSTANCE CompensationPromise WITH
    returned <- {t \in Tasks : Refunded(t[1], t[2])},
    closed <- {r \in Requests : jobs[r].status = "succeeded"}

\* Jobs, receipts and sessions together do what compensation promises: scopes are
\* returned once each and a request is closed after the last of them.
PromiseKept == Promise!Spec

\* An armed job is closed in the end, whatever crashes, fails or overruns, unless
\* its amount rounds to nothing or its session was settled by another request.
ArmedIsClosed ==
  \A r \in Requests :
    (jobs[r].status # "absent") ~> \/ jobs[r].status = "succeeded"
                                   \/ session[r] = "settled"
                                   \/ "api_token" \in Required[r] /\ Precision[r] = "vanishing"
=============================================================================
