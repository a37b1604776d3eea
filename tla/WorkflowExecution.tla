------------------------- MODULE WorkflowExecution -------------------------
(***************************************************************************)
(* Workflow executions (workflow/service.go, node_executor.go, store.go):  *)
(* requests that start, run, pause, resume, cancel an execution and decide *)
(* about its failures, each a sequence of statements on the execution's    *)
(* status and on its append-only node rows.                                *)
(*                                                                         *)
(* Nothing claims an execution or a node: two requests may run the same    *)
(* execution.  A status is changed by reading it, asking the state machine *)
(* and writing it if it has not moved.  Statements may fail and processes  *)
(* may die between any two of them.                                        *)
(*                                                                         *)
(* A node's rows are abstracted to what the code reads of them: the latest *)
(* row's status, the highest attempt, whether some row is ready for the    *)
(* children and whether some row waited for the user.  Left open: what the *)
(* executors answer, when a retry is due, what the limits of time and      *)
(* tokens say.  Not modelled: branch conditions on edges, agents' approval *)
(* inside a node.  Queueing is module ScheduleWorker; a queued execution   *)
(* is started here by Promote.  wins, overlapped and faulted are history.  *)
(***************************************************************************)
EXTENDS Integers, FiniteSets

CONSTANTS
  Executions,
  Processes,      \* requests in progress: HTTP handlers and schedule workers
  Nodes,
  Definitions,    \* published definitions: edges, failure policy of each node, failureBranchNodeId,
                  \* forms (the nodes that ask the user: user_input, approval)
  MaxRetries,     \* of nodes with auto_retry
  MaxNodes,       \* max_node_executions
  Guard,          \* "workflow_resource_guard", the row of an exhausted budget
  NoNode, NoExecution,
  EventBound      \* bound: requests of users, statements that fail and processes that die

Strategies == {"auto_retry", "skip_on_failure", "failure_branch", "pause_on_failure"}

ASSUME DefinitionsAssumption ==
  Definitions \subseteq [edges : SUBSET (Nodes \X Nodes), policy : [Nodes -> Strategies],
                        branch : Nodes, forms : SUBSET Nodes]
ASSUME NodesAssumption == IsFiniteSet(Nodes)
ASSUME LimitsAssumption == MaxRetries \in Nat \ {0} /\ MaxNodes \in Nat \ {0}
ASSUME NamesAssumption ==
  Guard \notin Nodes /\ NoNode \notin Nodes \cup {Guard} /\ NoExecution \notin Executions
ASSUME BoundsAssumption == EventBound \in Nat

VARIABLES
  snapshot,    \* workflow_executions.workflow_snapshot: the definition an execution follows
  status,      \* workflow_executions.status
  rows,        \* number of node rows of each execution
  node,        \* what the node rows say of each node
  proc,        \* the request each process works on
  decisions, faults,  \* bounded
  wins,        \* history: rows of success that a run inserted for each node
  overlapped,  \* history: executions that two processes worked on at once
  faulted      \* history: executions a statement of which failed, or whose process died

vars == <<snapshot, status, rows, node, proc, decisions, faults, wins, overlapped, faulted>>

Lifecycle == INSTANCE ExecutionLifecycle

NodeIds == Nodes \cup {Guard}
Parents(e, n) == {m \in Nodes : <<m, n>> \in snapshot[e].edges}
StartNodes(e) == {n \in Nodes : Parents(e, n) = {}}

NoRow == [latest |-> "none", attempt |-> 0, ready |-> FALSE, waited |-> FALSE, branched |-> FALSE]

Idle ==
  [pc |-> "idle", kind |-> "none", exec |-> NoExecution, node |-> NoNode, attempt |-> 0,
   outcome |-> "none", seen |-> "absent", event |-> "none", then |-> "none",
   kids |-> {}, err |-> FALSE, lastErr |-> FALSE, ran |-> 0, before |-> 0]

Init ==
  /\ snapshot \in [Executions -> Definitions]
  /\ status = [e \in Executions |-> "absent"]
  /\ rows = [e \in Executions |-> 0]
  /\ node = [e \in Executions |-> [n \in NodeIds |-> NoRow]]
  /\ proc = [p \in Processes |-> Idle]
  /\ decisions = 0 /\ faults = 0
  /\ wins = [e \in Executions |-> [n \in NodeIds |-> 0]]
  /\ overlapped = {} /\ faulted = {}

-----------------------------------------------------------------------------
(* Helpers                                                                  *)

At(p, pc) == proc[p].pc = pc
Go(p, changes) == proc' = [proc EXCEPT ![p] = changes]

Ready == {"succeeded", "skipped"}

\* CreateNodeExecution: one more row of n.
Larger(a, b) == IF a >= b THEN a ELSE b
WithRow(r, st, attempt, waits) ==
  [r EXCEPT !.latest = st, !.attempt = Larger(@, attempt), !.ready = @ \/ st \in Ready, !.waited = @ \/ waits]
AddRow(e, n, st, attempt, waits) ==
  /\ node' = [node EXCEPT ![e][n] = WithRow(@, st, attempt, waits)]
  /\ rows' = [rows EXCEPT ![e] = @ + 1]

Exists(e, n) == node[e][n].latest # "none"

\* Mutant: a pending row that is no longer the latest counts.
AnyPending(e) == {n \in Nodes : Exists(e, n)}

\* nextRunnableWorkflowNodeID: pending nodes first, then retries that are due.
PendingNodes(e) == {n \in NodeIds : node[e][n].latest = "pending"}
DueNodes(e) == {n \in NodeIds : node[e][n].latest = "due"}
NextNodes(e) == IF PendingNodes(e) # {} THEN PendingNodes(e) ELSE DueNodes(e)

\* latestWorkflowNodesComplete
AllComplete(e) ==
  /\ \E n \in NodeIds : Exists(e, n)
  /\ \A n \in NodeIds : Exists(e, n) => node[e][n].latest \in Ready

\* completedWorkflowExecutionStatus
CompletionEvent(e) ==
  IF \E n \in NodeIds : node[e][n].latest = "skipped" THEN "partial_success" ELSE "complete"

\* Mutant: one parent is enough.
SomeParentReady(e, n) == \E m \in Parents(e, n) : node[e][m].ready

AllParentsReady(e, n) == Parents(e, n) # {} /\ \A m \in Parents(e, n) : node[e][m].ready

\* Mutant: joins are left out.
SingleChildren(e, n) ==
  {c \in Nodes : <<n, c>> \in snapshot[e].edges /\ ~Exists(e, c) /\ Parents(e, c) = {n}}

\* The children that seedReadyDownstreamNodes finds to insert.
ReadyChildren(e, n) ==
  {c \in Nodes : <<n, c>> \in snapshot[e].edges /\ ~Exists(e, c) /\ AllParentsReady(e, c)}

\* Requests that insert rows: a run, the answer to a form, a decision.
Mutating(p) == proc[p].kind \in {"run", "resume", "retry", "continue", "branch"}

\* p begins to work on e; is it alone?
Overlap(p, e) ==
  overlapped' =
    IF \E q \in Processes \ {p} : Mutating(q) /\ proc[q].exec = e THEN overlapped \cup {e} ELSE overlapped

Unhurt == UNCHANGED <<faults, faulted>>
Hurt(e) == decisions + faults < EventBound /\ faults' = faults + 1 /\ faulted' = faulted \cup {e}

-----------------------------------------------------------------------------
(* Requests                                                                 *)

\* StartExecution inserts the execution and its start nodes in one transaction; it is
\* run at once, or left to a later request.
Start(p, e) ==
  /\ At(p, "idle") /\ status[e] = "absent"
  /\ \E s \in {"running", "queued"} : status' = [status EXCEPT ![e] = s]
  /\ node' = [node EXCEPT ![e] = [n \in NodeIds |->
       IF n \in StartNodes(e) THEN WithRow(@[n], "pending", 1, FALSE) ELSE @[n]]]
  /\ rows' = [rows EXCEPT ![e] = Cardinality(StartNodes(e))]
  /\ \E auto \in BOOLEAN :
       Go(p, IF auto THEN [Idle EXCEPT !.pc = "look", !.kind = "run", !.exec = e] ELSE Idle)
  /\ Overlap(p, e)
  /\ Unhurt /\ UNCHANGED <<decisions, wins>>

\* PromoteQueuedExecutions starts it; nobody runs it.
Promote(e) ==
  /\ status[e] = "queued"
  /\ status' = [status EXCEPT ![e] = "running"]
  /\ UNCHANGED <<rows, node, proc, decisions, faults, wins, overlapped, faulted>>

Asked(p, e) ==
  /\ At(p, "idle") /\ status[e] # "absent"
  /\ decisions + faults < EventBound /\ decisions' = decisions + 1

\* PauseExecution, CancelExecution
AskStatus(p, e, event) ==
  /\ Asked(p, e)
  /\ Go(p, [Idle EXCEPT !.pc = "read", !.kind = event, !.exec = e, !.event = event, !.then = "end"])
  /\ Unhurt /\ UNCHANGED <<status, rows, node, wins, overlapped>>

\* ResumeExecution without input
Resume(p, e) ==
  /\ Asked(p, e) /\ status[e] = "paused"
  /\ Go(p, [Idle EXCEPT !.pc = "read", !.kind = "resume", !.exec = e, !.event = "resume", !.then = "look"])
  /\ Overlap(p, e)
  /\ Unhurt /\ UNCHANGED <<status, rows, node, wins>>

\* ResumeExecution with the user's answer to the latest form
Submit(p, e, n) ==
  /\ Asked(p, e) /\ status[e] = "paused"
  /\ node[e][n].waited
  /\ Go(p, [Idle EXCEPT !.pc = "check", !.kind = "resume", !.exec = e, !.node = n,
              !.attempt = node[e][n].attempt, !.outcome = "succeeded"])
  /\ Overlap(p, e)
  /\ Unhurt /\ UNCHANGED <<status, rows, node, wins>>

\* ResolvePausedFailure: fail; retry or continue with a row of n; or branch to a node
\* the user names, unless it has a row.
Decide(p, e, n, action) ==
  LET base == [Idle EXCEPT !.kind = action, !.exec = e, !.node = n, !.attempt = node[e][n].attempt,
                 !.event = "resume", !.then = "look"] IN
  /\ Asked(p, e) /\ status[e] = "paused"
  /\ node[e][n].latest = "failed"
  /\ \/ action = "fail" /\ Go(p, [base EXCEPT !.pc = "read", !.event = "fail", !.then = "end"])
     \/ action = "retry" /\ Go(p, [base EXCEPT !.pc = "insert"])
     \/ action = "continue" /\ Go(p, [base EXCEPT !.pc = "insert", !.then = "seed"])
     \/ action = "branch" /\ \E c \in Nodes :
          Go(p, [base EXCEPT !.pc = "branch", !.kids = IF Exists(e, c) THEN {} ELSE {c}])
  /\ Overlap(p, e)
  /\ Unhurt /\ UNCHANGED <<status, rows, node, wins>>

-----------------------------------------------------------------------------
(* One run: RunExecutionUntilBlocked                                        *)

\* Ask the state machine for event, then go on at then.
Transit(p, event, then) == [proc[p] EXCEPT !.pc = "read", !.event = event, !.then = then, !.seen = "absent"]
End(p, event) ==
  [Idle EXCEPT !.pc = "read", !.kind = "run", !.exec = proc[p].exec, !.event = event, !.then = "end"]

\* The head of the loop, on the execution as it was read last; any of NextNodes may be
\* the first of them.
Head(p, lastErr) ==
  LET e == proc[p].exec IN
  IF status[e] \notin Lifecycle!Runnable THEN {Idle}
  ELSE IF NextNodes(e) = {}
  THEN {IF AllComplete(e) /\ ~lastErr THEN End(p, CompletionEvent(e)) ELSE Idle}
  ELSE IF proc[p].ran >= MaxNodes THEN {End(p, "max_iterations")}
  ELSE {[Idle EXCEPT !.pc = "execute", !.kind = "run", !.exec = e, !.node = n, !.then = "back",
           !.lastErr = lastErr, !.ran = proc[p].ran, !.before = rows[e]] : n \in NextNodes(e)}

Look(p) ==
  /\ At(p, "look")
  /\ \E next \in Head(p, FALSE) : Go(p, next)
  /\ Unhurt /\ UNCHANGED <<status, rows, node, decisions, wins, overlapped>>

\* RunReadyNode: read the execution again and execute the node.  The guard's row has
\* no definition; a form waits, unless the state machine cannot pause the execution.
Execute(p) ==
  LET e == proc[p].exec  n == proc[p].node
      done == [proc[p] EXCEPT !.pc = "check", !.ran = @ + 1, !.attempt = node[e][n].attempt]
      form == n \in snapshot[e].forms  pausable == Lifecycle!Allowed(status[e], "pause") IN
  /\ At(p, "execute")
  /\ \/ /\ n = Guard \/ (form /\ ~pausable)
        /\ Go(p, [done EXCEPT !.pc = "back", !.attempt = 0, !.err = TRUE])
     \/ /\ form /\ pausable
        /\ Go(p, [done EXCEPT !.pc = "insert", !.outcome = "waiting"])
     \/ /\ n # Guard /\ ~form
        /\ \E o \in {"succeeded", "failed"} : Go(p, [done EXCEPT !.outcome = o])
  /\ Unhurt /\ UNCHANGED <<status, rows, node, decisions, wins, overlapped>>

Branch(e) == snapshot[e].branch

\* What follows an error: a run reads the execution again, other requests return.
Failed(p) ==
  IF proc[p].kind = "run" /\ proc[p].then # "end"
  THEN [proc[p] EXCEPT !.pc = "back", !.err = TRUE, !.event = "none", !.seen = "absent", !.kids = {}]
  ELSE Idle

\* RecordNodeStatus refuses an execution that has ended.
Check(p) ==
  LET e == proc[p].exec
      branches == proc[p].outcome = "failed" /\ snapshot[e].policy[proc[p].node] = "failure_branch" IN
  /\ At(p, "check")
  /\ Go(p, IF status[e] \in Lifecycle!Final THEN Failed(p)
           ELSE [proc[p] EXCEPT !.pc = "insert", !.seen = status[e],
                   !.kids = IF branches /\ ~Exists(e, Branch(e)) THEN {Branch(e)} ELSE {}])
  /\ Unhurt /\ UNCHANGED <<status, rows, node, decisions, wins, overlapped>>

Quiet == Unhurt /\ UNCHANGED <<status, decisions, overlapped>>

\* A row of success; the children are seeded next.
InsertSuccess(p) ==
  LET e == proc[p].exec  n == proc[p].node IN
  /\ At(p, "insert") /\ proc[p].outcome = "succeeded"
  /\ AddRow(e, n, "succeeded", proc[p].attempt, FALSE)
  /\ wins' = IF proc[p].kind = "run" THEN [wins EXCEPT ![e][n] = @ + 1] ELSE wins
  /\ Go(p, [proc[p] EXCEPT !.pc = "seed", !.attempt = 0, !.seen = "absent"])
  /\ Quiet

\* recordRuntimeUserInputWait: a pending row that waits, and a pause.
InsertWait(p) ==
  /\ At(p, "insert") /\ proc[p].outcome = "waiting"
  /\ AddRow(proc[p].exec, proc[p].node, "pending", proc[p].attempt, TRUE)
  /\ Go(p, [Transit(p, "pause", "back") EXCEPT !.err = TRUE, !.attempt = 0])
  /\ Quiet /\ UNCHANGED wins

\* Mutant: the check is off by one.
ExhaustedLate(attempt) == attempt > MaxRetries + 1

Exhausted(attempt) == attempt > MaxRetries

\* recordFailedNodeStatus: the row, and what the node's policy does next.
InsertFailure(p) ==
  LET e == proc[p].exec  n == proc[p].node  attempt == proc[p].attempt
      policy == snapshot[e].policy[n]
      Row(st, a) == AddRow(e, n, st, a, FALSE)
      Then(next) == Go(p, [next EXCEPT !.err = TRUE, !.attempt = 0, !.outcome = "none", !.seen = "absent"]) IN
  /\ At(p, "insert") /\ proc[p].outcome = "failed"
  /\ \/ /\ policy = "auto_retry" /\ Exhausted(attempt)
        /\ Row("failed", attempt) /\ Then(Transit(p, "fail", "back"))
     \/ /\ policy = "auto_retry" /\ ~Exhausted(attempt)
        /\ Row("retrying", attempt + 1)
        /\ Then(IF proc[p].seen = "running" THEN [proc[p] EXCEPT !.pc = "back"] ELSE Transit(p, "start", "back"))
     \/ /\ policy = "skip_on_failure"
        /\ Row("skipped", attempt) /\ Then(Transit(p, "partial_success", "seed"))
     \/ /\ policy = "failure_branch"
        /\ Row("failed", attempt) /\ Then([proc[p] EXCEPT !.pc = "branch"])
     \/ /\ policy = "pause_on_failure"
        /\ Row("failed", attempt) /\ Then(Transit(p, "pause", "back"))
  /\ Quiet /\ UNCHANGED wins

\* ResolvePausedFailure: try again, or go on without.
InsertDecision(p) ==
  LET e == proc[p].exec  n == proc[p].node  attempt == proc[p].attempt IN
  /\ At(p, "insert")
  /\ \/ proc[p].kind = "retry" /\ AddRow(e, n, "pending", attempt + 1, FALSE)
     \/ proc[p].kind = "continue" /\ AddRow(e, n, "skipped", attempt, FALSE)
  /\ Go(p, [proc[p] EXCEPT !.pc = "read"])
  /\ Quiet /\ UNCHANGED wins

\* seedReadyDownstreamNodes reads the rows, ...
Seed(p) ==
  /\ At(p, "seed")
  /\ Go(p, [proc[p] EXCEPT !.pc = "child", !.kids = ReadyChildren(proc[p].exec, proc[p].node)])
  /\ Quiet /\ UNCHANGED <<rows, node, wins>>

\* What follows when nothing is left to insert.
Inserted(p) ==
  CASE proc[p].kind = "run" -> [proc[p] EXCEPT !.pc = "back"]
    [] proc[p].kind = "continue" -> [proc[p] EXCEPT !.pc = "look"]
    [] OTHER -> Transit(p, "resume", "look")

\* ... and inserts one child after the other.
Child(p) ==
  /\ At(p, "child")
  /\ \/ \E c \in proc[p].kids :
          /\ AddRow(proc[p].exec, c, "pending", 1, FALSE)
          /\ Go(p, [proc[p] EXCEPT !.kids = @ \ {c}])
     \/ proc[p].kids = {} /\ Go(p, Inserted(p)) /\ UNCHANGED <<rows, node>>
  /\ Quiet /\ UNCHANGED wins

\* seedFailureBranchNode: its row names the error instead of the parents' output.
SeedBranch(p) ==
  LET e == proc[p].exec IN
  /\ At(p, "branch")
  /\ \/ \E c \in proc[p].kids :
          /\ node' = [node EXCEPT ![e][c] = [WithRow(@, "pending", 1, FALSE) EXCEPT !.branched = TRUE]]
          /\ rows' = [rows EXCEPT ![e] = @ + 1]
     \/ proc[p].kids = {} /\ UNCHANGED <<rows, node>>
  /\ Go(p, [Inserted(p) EXCEPT !.kids = {}])
  /\ Quiet /\ UNCHANGED wins

\* transitionExecutionStatus reads the status and asks the state machine, ...
Read(p) ==
  LET e == proc[p].exec IN
  /\ At(p, "read")
  /\ Go(p, IF Lifecycle!Allowed(status[e], proc[p].event)
           THEN [proc[p] EXCEPT !.pc = "write", !.seen = status[e]] ELSE Failed(p))
  /\ Quiet /\ UNCHANGED <<rows, node, wins>>

\* Mutant: the status is written whatever it has become.
StillSeen(p) == TRUE

Unmoved(p) == status[proc[p].exec] = proc[p].seen

\* ... and UpdateExecutionStatusIfCurrent writes, if it is still what was read.
Write(p) ==
  LET e == proc[p].exec IN
  /\ At(p, "write")
  /\ \/ /\ Unmoved(p)
        /\ status' = [status EXCEPT ![e] = Lifecycle!Target(proc[p].seen, proc[p].event)]
        /\ Go(p, IF proc[p].then = "end" THEN Idle
                 ELSE [proc[p] EXCEPT !.pc = proc[p].then, !.event = "none", !.seen = "absent"])
     \/ ~Unmoved(p) /\ Go(p, Failed(p)) /\ UNCHANGED status
  /\ Unhurt /\ UNCHANGED <<rows, node, decisions, wins, overlapped>>

\* RunReadyNode has returned: read the execution again.  After an error the loop goes
\* on if the node is retried or skipped, or if anything was inserted.
Back(p) ==
  LET e == proc[p].exec  runnable == status[e] \in Lifecycle!Runnable IN
  /\ At(p, "back")
  /\ \/ /\ ~proc[p].err
        /\ Go(p, IF runnable THEN [proc[p] EXCEPT !.pc = "limits", !.node = NoNode, !.outcome = "none", !.before = 0] ELSE Idle)
     \/ /\ proc[p].err /\ node[e][proc[p].node].latest \in {"retrying", "due", "skipped"}
        /\ \E next \in Head(p, FALSE) : Go(p, next)
     \/ /\ proc[p].err /\ node[e][proc[p].node].latest \notin {"retrying", "due", "skipped"}
        /\ \E next \in IF runnable /\ rows[e] > proc[p].before THEN Head(p, TRUE) ELSE {Idle} : Go(p, next)
  /\ Quiet /\ UNCHANGED <<rows, node, wins>>

\* CheckResourceLimits: nothing, too long, too many nodes, or too many tokens.
Limits(p) ==
  LET e == proc[p].exec IN
  /\ At(p, "limits")
  /\ \/ /\ \E next \in Head(p, proc[p].lastErr) : Go(p, next)
        /\ UNCHANGED <<rows, node>>
     \/ /\ status[e] = "running"
        /\ \E event \in {"timeout", "max_iterations"} : Go(p, End(p, event))
        /\ UNCHANGED <<rows, node>>
     \/ /\ status[e] = "running"
        /\ AddRow(e, Guard, "failed", 1, FALSE)
        /\ Go(p, End(p, "pause"))
  /\ Quiet /\ UNCHANGED wins

-----------------------------------------------------------------------------
(* Faults and time                                                          *)

\* A statement fails.
StatementFails(p) ==
  /\ ~At(p, "idle") /\ Hurt(proc[p].exec)
  /\ Go(p, IF proc[p].pc \in {"look", "back", "limits"} THEN Idle ELSE Failed(p))
  /\ UNCHANGED <<status, rows, node, decisions, wins, overlapped>>

\* The process dies, or the client's context is cancelled.
Crash(p) ==
  /\ ~At(p, "idle") /\ Hurt(proc[p].exec)
  /\ Go(p, Idle)
  /\ UNCHANGED <<status, rows, node, decisions, wins, overlapped>>

\* retryAt passes.
RetryDue(e, n) ==
  /\ node[e][n].latest = "retrying"
  /\ node' = [node EXCEPT ![e][n].latest = "due"]
  /\ UNCHANGED <<status, rows, proc, decisions, faults, wins, overlapped, faulted>>

-----------------------------------------------------------------------------
Step(p) ==
  \/ Look(p) \/ Execute(p) \/ Check(p)
  \/ InsertSuccess(p) \/ InsertWait(p) \/ InsertFailure(p) \/ InsertDecision(p)
  \/ Seed(p) \/ Child(p) \/ SeedBranch(p) \/ Read(p) \/ Write(p) \/ Back(p) \/ Limits(p)

Request(p, e) ==
  \/ Start(p, e)
  \/ \E event \in {"pause", "cancel"} : AskStatus(p, e, event)
  \/ Resume(p, e)
  \/ \E n \in Nodes : Submit(p, e, n)
  \/ \E n \in NodeIds, action \in {"retry", "continue", "fail", "branch"} : Decide(p, e, n, action)

Next ==
  /\ \/ \E p \in Processes : Step(p) \/ StatementFails(p) \/ Crash(p)
     \/ \E p \in Processes, e \in Executions : Request(p, e)
     \/ \E e \in Executions : Promote(e) \/ \E n \in NodeIds : RetryDue(e, n)
  /\ UNCHANGED snapshot

Spec == Init /\ [][Next]_vars

\* Processes go on by themselves and time passes; nobody is obliged to ask anything.
FairSpec ==
  /\ Spec
  /\ \A p \in Processes : WF_vars(Step(p) /\ UNCHANGED snapshot)
  /\ \A e \in Executions, n \in NodeIds : WF_vars(RetryDue(e, n) /\ UNCHANGED snapshot)

-----------------------------------------------------------------------------
(* Properties                                                               *)

Latest == {"none", "pending", "retrying", "due", "failed", "skipped", "succeeded"}
NodeRecords == [latest : Latest, attempt : Nat, ready : BOOLEAN, waited : BOOLEAN, branched : BOOLEAN]
Pcs == {"idle", "look", "execute", "check", "insert", "seed", "child", "branch", "read", "write", "back", "limits"}
Kinds == {"none", "run", "resume", "retry", "continue", "branch", "fail", "pause", "cancel"}
ProcRecords ==
  [pc : Pcs, kind : Kinds, exec : Executions \cup {NoExecution}, node : NodeIds \cup {NoNode},
   attempt : Nat, outcome : {"none", "succeeded", "failed", "waiting"}, seen : Lifecycle!Statuses,
   event : Lifecycle!Events \cup {"none"}, then : {"none", "end", "look", "seed", "back"},
   kids : SUBSET Nodes, err : BOOLEAN, lastErr : BOOLEAN, ran : Nat, before : Nat]

\* Every variable keeps its type.
TypeOK ==
  /\ snapshot \in [Executions -> Definitions]
  /\ status \in [Executions -> Lifecycle!Statuses]
  /\ rows \in [Executions -> Nat]
  /\ node \in [Executions -> [NodeIds -> NodeRecords]]
  /\ proc \in [Processes -> ProcRecords]
  /\ decisions \in 0 .. EventBound /\ faults \in 0 .. EventBound
  /\ wins \in [Executions -> [NodeIds -> Nat]]
  /\ overlapped \subseteq Executions /\ faulted \subseteq Executions

\* Whatever pauses, resumes, retries, faults and decisions happen, as long as one process
\* at a time works on an execution no node of it is run to success twice: its effects
\* (a message sent, a tool called) happen once.
OncePerNode ==
  \A e \in Executions \ overlapped : \A n \in NodeIds : wins[e][n] <= 1

\* "succeeded" means that nothing is left: with one process at a time and no fault, no
\* child whose parents are all ready was left without a row.
SuccessIsComplete ==
  \A e \in Executions \ (overlapped \cup faulted) :
    status[e] = "succeeded" /\ (\A p \in Processes : proc[p].exec # e) =>
      \A c \in Nodes : AllParentsReady(e, c) => Exists(e, c)

\* A join waits for all its parents, even with two runs at once and with faults: only a
\* node that a policy or a user branches to starts without them.
ChildrenAfterParents ==
  \A e \in Executions : \A c \in Nodes :
    Exists(e, c) /\ ~node[e][c].branched => \A m \in Parents(e, c) : node[e][m].ready

\* auto_retry ends: a node is tried at most MaxRetries + 1 times, and once more for each
\* decision of a user.
AttemptsBounded ==
  \A e \in Executions : \A n \in Nodes : node[e][n].attempt <= MaxRetries + 1 + decisions

\* Requests and runs that race, every one with a status it has read before, move an
\* execution only along the state machine, and never out of a final status.
LifecycleKept == Lifecycle!Spec

\* A node that waits for its next attempt gets it, as long as its execution is running.
RetriesHappen ==
  \A e \in Executions : \A n \in Nodes :
    (status[e] = "running" /\ node[e][n].latest = "retrying")
      ~> (node[e][n].latest \notin {"retrying", "due"} \/ status[e] # "running")

-----------------------------------------------------------------------------
(* What makes them inductive                                                *)

Bound(asked) == MaxRetries + 1 + asked

\* What a process has in hand, after so many decisions: it writes what the state machine
\* allowed, works on a node that has a row, inserts children whose parents are ready,
\* and a row's attempt is within the bound.
Fits(r, asked) ==
  /\ r.pc # "idle" => r.exec \in Executions
  /\ r.pc = "write" => Lifecycle!Allowed(r.seen, r.event)
  /\ r.pc \in {"read", "write"} => r.then # "none"
  /\ r.pc = "execute" => r.kind = "run"
  /\ r.pc \in {"execute", "check", "insert"} => r.node \in NodeIds /\ Exists(r.exec, r.node)
  /\ r.pc = "child" => \A c \in r.kids : AllParentsReady(r.exec, c)
  /\ r.pc \in {"check", "insert"} =>
       /\ r.kind \notin {"retry", "continue"} => r.attempt <= Bound(asked)
       /\ r.kind \in {"retry", "continue"} => r.attempt + 1 <= Bound(asked) /\ r.then # "none"

ProcInv == \A p \in Processes : Fits(proc[p], decisions)

\* AttemptsBounded, of the guard's rows too; only a node with a row waits for the user.
RowInv ==
  \A e \in Executions : \A n \in NodeIds :
    node[e][n].attempt <= Bound(decisions) /\ (node[e][n].waited => Exists(e, n))

ExecutionInv == TypeOK /\ ProcInv /\ RowInv /\ ChildrenAfterParents

\* What a request asks for stays with it: one that asks for a status does nothing else,
\* only a run fails or waits, and the guard is never executed.
Shaped(r) ==
  /\ r.kind = "none" <=> r.pc = "idle"
  /\ r.kind \in {"fail", "pause", "cancel"} => r.pc \in {"idle", "read", "write"} /\ r.then = "end"
  /\ r.pc \in {"check", "insert"} =>
       /\ r.outcome \in {"failed", "waiting"} => r.kind = "run"
       /\ r.kind = "run" => r.node # Guard

\* A process that works alone on e is not about to repeat a success of e's nodes, and
\* what it is about to insert is not there yet.
Clean(r, e) ==
  /\ r.pc \in {"execute", "check", "insert"} /\ r.kind \in {"run", "retry", "continue"} =>
       wins[e][r.node] = 0
  /\ r.pc \in {"execute", "insert", "child", "branch"} => \A c \in r.kids : ~Exists(e, c)

Works(p, e) == Mutating(p) /\ proc[p].exec = e

\* A node that was run to success has no later row than that success.
OnceInv ==
  /\ \A p \in Processes :
       /\ Shaped(proc[p])
       /\ proc[p].pc # "idle" => status[proc[p].exec] # "absent"
  /\ \A e \in Executions : status[e] = "absent" => \A n \in NodeIds : wins[e][n] = 0
  /\ \A e \in Executions : wins[e][Guard] = 0
  /\ \A e \in Executions \ overlapped :
       /\ \A p, q \in Processes : Works(p, e) /\ Works(q, e) => p = q
       /\ \A p \in Processes : Works(p, e) => Clean(proc[p], e)
       /\ \A n \in NodeIds : wins[e][n] <= 1 /\ (wins[e][n] # 0 => node[e][n].latest = "succeeded")

\* A child of ready parents has no row: somebody is about to insert it, or one of its
\* parents was skipped, which the execution does not survive as a success.
Missing(e, c) == AllParentsReady(e, c) /\ ~Exists(e, c)
Finished(e) == \A c \in Nodes : ~Missing(e, c)
Owes(r, e, c) == (r.pc = "seed" /\ r.node \in Parents(e, c)) \/ (r.pc = "child" /\ c \in r.kids)
PassedBy(e, c) == \E m \in Parents(e, c) : node[e][m].latest = "skipped"

\* Only the end of a run completes an execution; forms wait and do not fail.
Asks(r) ==
  /\ r.event = "complete" => r.pc \in {"read", "write"} /\ r.kind = "run" /\ r.then = "end"
  /\ r.pc \in {"check", "insert"} =>
       /\ r.outcome = "waiting" => r.node \in snapshot[r.exec].forms
       /\ r.outcome = "failed" \/ r.kind \in {"retry", "continue"} => r.node \notin snapshot[r.exec].forms

Forms(e) ==
  \A n \in NodeIds :
    /\ node[e][n].waited => n \in snapshot[e].forms
    /\ n \in snapshot[e].forms => node[e][n].latest \in {"none", "pending", "succeeded"}

\* r works on a node that is not skipped, so that what was skipped stays so.
Unskipped(r, e) == r.pc \in {"execute", "check", "insert"} => node[e][r.node].latest # "skipped"

\* Nothing is missing when a run decides to complete, nor from then on.
SuccessInv ==
  /\ \A p \in Processes : Asks(proc[p])
  /\ \A e \in Executions : Forms(e) /\ (status[e] = "absent" => \A n \in NodeIds : node[e][n] = NoRow)
  /\ \A e \in Executions \ overlapped : \A p \in Processes : Works(p, e) => Unskipped(proc[p], e)
  /\ \A e \in Executions \ (overlapped \cup faulted) :
       /\ \A c \in Nodes : Missing(e, c) =>
            PassedBy(e, c) \/ \E p \in Processes : Works(p, e) /\ Owes(proc[p], e, c)
       /\ \A p \in Processes : proc[p].event = "complete" /\ proc[p].exec = e => Finished(e)
       /\ status[e] = "succeeded" => Finished(e) /\ \A p \in Processes : ~Works(p, e)
=============================================================================
