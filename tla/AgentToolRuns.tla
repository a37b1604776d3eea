--------------------------- MODULE AgentToolRuns ---------------------------
(***************************************************************************)
(* A run of an agent with tools (agent/runner.go, agent/service.go): the   *)
(* model is asked, the tools it calls are executed one after the other and *)
(* their results shown to it, until it answers, an iteration or a token    *)
(* limit is reached, something fails, or a tool needs a user's approval.   *)
(* Approving, rejecting or retrying a tool run and raising the token       *)
(* budget are requests of their own, that go on with the loop.             *)
(*                                                                         *)
(* A request is a sequence of statements, none in a transaction, on the    *)
(* run's row and on those of its tool runs; UpdateToolRun reads a row and  *)
(* writes it back.  Nothing claims a tool run: two requests may work on    *)
(* one.  Many errors of a statement are dropped (_ = r.failRun(...)).      *)
(*                                                                         *)
(* A tool is one of three classes, standing for what decideToolApproval    *)
(* makes of its risk level, the agent's mode and its overrides.  What      *)
(* models and tools answer is open.  Not modelled: memory, skills and the  *)
(* choice of a model, streaming, events, attempt counts.                   *)
(***************************************************************************)
EXTENDS Integers, Sequences, FiniteSets

CONSTANTS
  Requests,        \* HTTP requests the servers handle at a time
  Replies,         \* what a model may call: sequences of classes
  MaxIterations,   \* of the agent: times the model may be asked in a run
  MaxTools,        \* bound: tool runs
  FaultBound       \* bound: statements that fail, processes that die

Classes == {"safe", "medium", "dangerous"}

ASSUME BoundsAssumption == MaxIterations \in Nat \ {0} /\ MaxTools \in Nat /\ FaultBound \in Nat
ASSUME RepliesAssumption == Replies \subseteq Seq(Classes) \ {<<>>}

ToolRuns == 1..MaxTools   \* ids, in the order of creation

VARIABLES
  run,       \* agent_runs: status, iteration_count
  tool,      \* agent_tool_runs: status, approval, class
  made,      \* ids used
  answered,  \* the tool runs whose result is a message of the conversation
  req,       \* what each request is doing
  faults,
  asked,     \* history: how often the model was asked
  consent,   \* history: the tool runs a user approved
  wrong      \* history: what went wrong, see the properties

vars == <<run, tool, made, answered, req, faults, asked, consent, wrong>>

NoRow == [status |-> "absent", approval |-> "pending", class |-> "safe"]
Idle == [pc |-> "idle", iter |-> 0, at |-> 0, calls |-> <<>>, tool |-> 0, todo |-> <<>>, then |-> "idle", row |-> NoRow]

Init ==
  /\ run = [status |-> "none", iterations |-> 0]
  /\ tool = [t \in ToolRuns |-> NoRow]
  /\ made = 0 /\ answered = {}
  /\ req = [p \in Requests |-> Idle]
  /\ faults = 0 /\ asked = 0 /\ consent = {} /\ wrong = {}

-----------------------------------------------------------------------------
At(p, pc) == req[p].pc = pc
Busy == {p \in Requests : ~At(p, "idle")}
Go(p, state) == req' = [req EXCEPT ![p] = state]

\* Statements still to come; "best" ones are sent and their errors dropped.
Write(state, todo, then) ==
  [state EXCEPT !.pc = IF todo = <<>> THEN then ELSE "write", !.todo = todo, !.then = then, !.row = NoRow]
Patched(row, patch) == [f \in DOMAIN row |-> IF f \in DOMAIN patch THEN patch[f] ELSE row[f]]
SetTool(t, patch) == [kind |-> "tool", tool |-> t, patch |-> patch, best |-> FALSE]
SetRun(patch) == [kind |-> "run", patch |-> patch, best |-> FALSE]
Best(statement) == [statement EXCEPT !.best = TRUE]

\* failRun, failRunWithStatus
Stop(p, status, iterations) ==
  Write(Idle, <<Best(SetRun([status |-> status, iterations |-> iterations]))>>, "idle")

Statement(p) == Head(req[p].todo)
Rest(p) == IF req[p].then = "idle" /\ Len(req[p].todo) = 1 THEN Idle
           ELSE Write(req[p], Tail(req[p].todo), req[p].then)

StoreRun(p) ==
  /\ At(p, "write") /\ Statement(p).kind = "run"
  /\ run' = Patched(run, Statement(p).patch)
  /\ Go(p, Rest(p))
  /\ UNCHANGED <<tool, made, answered, faults, asked, consent, wrong>>

\* UpdateToolRun reads the row, ...
ReadTool(p) ==
  /\ At(p, "write") /\ Statement(p).kind = "tool"
  /\ Go(p, [req[p] EXCEPT !.pc = "store", !.row = Patched(tool[Statement(p).tool], Statement(p).patch)])
  /\ UNCHANGED <<run, tool, made, answered, faults, asked, consent, wrong>>

\* ... and writes it whole.
StoreTool(p) ==
  /\ At(p, "store")
  /\ tool' = [tool EXCEPT ![Statement(p).tool] = req[p].row]
  /\ Go(p, Rest(p))
  /\ UNCHANGED <<run, made, answered, faults, asked, consent, wrong>>

Faulty == faults < FaultBound /\ faults' = faults + 1

\* The process dies, or a statement fails whose error ends the request.
Fault(p) ==
  /\ p \in Busy /\ Faulty
  /\ Go(p, Idle)
  /\ UNCHANGED <<run, tool, made, answered, asked, consent, wrong>>

\* An error that is dropped.
Dropped(p) ==
  /\ At(p, "write") /\ Statement(p).best /\ Faulty
  /\ Go(p, Rest(p))
  /\ UNCHANGED <<run, tool, made, answered, asked, consent, wrong>>

\* The tool run cannot be created, or its result not be recorded: the run fails.
RecordFails(p) ==
  /\ \/ At(p, "call") /\ req[p].calls # <<>>
     \/ At(p, "write") /\ Statement(p).kind = "tool" /\ Statement(p).patch = [status |-> "completed"]
  /\ Faulty
  /\ Go(p, Stop(p, "failed", req[p].at))
  /\ UNCHANGED <<run, tool, made, answered, asked, consent, wrong>>

-----------------------------------------------------------------------------
(* The loop                                                                 *)

Made == 1..made

\* RunWithTools
Start(p) ==
  /\ run.status = "none"
  /\ run' = [status |-> "running", iterations |-> 0]
  /\ Go(p, [Idle EXCEPT !.pc = "ask"])
  /\ UNCHANGED <<tool, made, answered, faults, asked, consent, wrong>>

\* No iteration is left, or the tools cannot be listed.
NotAsked(p) ==
  /\ At(p, "ask")
  /\ \/ req[p].iter >= MaxIterations /\ Go(p, Stop(p, "max_iterations_reached", req[p].iter))
     \/ req[p].iter < MaxIterations /\ Go(p, Stop(p, "failed", req[p].iter))
  /\ UNCHANGED <<run, tool, made, answered, faults, asked, consent, wrong>>

\* The model is asked: an error, too many tokens, an answer, or calls of tools.
Ask(p) ==
  LET next == req[p].iter + 1 IN
  /\ At(p, "ask") /\ req[p].iter < MaxIterations
  /\ asked' = asked + 1
  /\ wrong' = wrong \cup IF Made \subseteq answered THEN {} ELSE {"unanswered"}
  /\ \/ \E end \in {"failed", "token_budget_exceeded"} : Go(p, Stop(p, end, next))
     \/ Go(p, Write(Idle, <<SetRun([status |-> "completed", iterations |-> next])>>, "idle"))
     \/ \E calls \in Replies :
          /\ made + Len(calls) <= MaxTools
          /\ Go(p, [req[p] EXCEPT !.pc = "call", !.calls = calls, !.at = next])
  /\ UNCHANGED <<run, tool, made, answered, faults, consent>>

\* Mutant: any tool run of a medium tool counts as its approval.
SeenMedium(class) ==
  class = "dangerous" \/ (class = "medium" /\ \A t \in Made : tool[t].class # "medium")

\* decideToolApproval: a medium tool needs no second approval in a conversation.
RequiresApproval(class) ==
  \/ class = "dangerous"
  \/ class = "medium" /\ \A t \in Made : ~(tool[t].class = "medium" /\ tool[t].approval = "approved")

\* Mutant: the iterations spent are not recorded when a run waits.
WaitingPatchOnly(at) == [status |-> "pending_approval"]

WaitingPatch(at) == [status |-> "pending_approval", iterations |-> at]

\* handleStructuredToolCalls: one tool run for the next call.  If it is to be approved the
\* calls that follow it in the reply are forgotten.
Call(p) ==
  LET class == Head(req[p].calls)
      waits == RequiresApproval(class)
  IN
  /\ At(p, "call") /\ req[p].calls # <<>>
  /\ made < MaxTools /\ made' = made + 1
  /\ tool' = [tool EXCEPT ![made + 1] =
       [status |-> IF waits THEN "pending_approval" ELSE "running",
        approval |-> IF waits THEN "pending" ELSE "not_required", class |-> class]]
  /\ Go(p, IF waits THEN Write(Idle, <<Best(SetRun(WaitingPatch(req[p].at)))>>, "idle")
           ELSE [req[p] EXCEPT !.pc = "execute", !.calls = Tail(@), !.tool = made + 1, !.then = "call"])
  /\ UNCHANGED <<run, answered, faults, asked, consent, wrong>>

\* All calls of the reply have been executed.
NextIteration(p) ==
  /\ At(p, "call") /\ req[p].calls = <<>>
  /\ Go(p, [Idle EXCEPT !.pc = "ask", !.iter = req[p].at])
  /\ UNCHANGED <<run, tool, made, answered, faults, asked, consent, wrong>>

Unapproved(t) ==
  CASE tool[t].class = "safe" -> FALSE
    [] tool[t].class = "dangerous" -> t \notin consent
    [] tool[t].class = "medium" -> \A u \in consent : tool[u].class # "medium"

\* Mutant: a failed tool does not end its run.
GoOnAfterFailure(p, t) == Write(req[p], <<Best(SetTool(t, [status |-> "failed"]))>>, req[p].then)

AfterFailure(p, t) ==
  Write(Idle, <<Best(SetTool(t, [status |-> "failed"])), Best(SetRun([status |-> "failed", iterations |-> req[p].at]))>>, "idle")

\* ExecuteTool, and the message with its result; a tool run the user was asked about then
\* lets its run go on.
Execute(p) ==
  LET t == req[p].tool
      done == <<SetTool(t, [status |-> "completed"])>>
      resume == <<SetRun([status |-> "running"])>>
  IN
  /\ At(p, "execute")
  /\ wrong' = wrong \cup IF Unapproved(t) THEN {"unapproved"} ELSE {}
  /\ \/ /\ answered' = answered \cup {t}
        /\ Go(p, Write(req[p], IF req[p].then = "call" THEN done ELSE done \o resume, req[p].then))
     \/ answered' = answered /\ Go(p, AfterFailure(p, t))
  /\ UNCHANGED <<run, tool, made, faults, asked, consent>>

-----------------------------------------------------------------------------
(* Decisions                                                                *)

Begin(p, state) ==
  /\ Go(p, state)
  /\ wrong' = wrong \cup IF Busy # {} THEN {"mixed"} ELSE {}
  /\ UNCHANGED <<run, tool, made, answered, faults, asked>>

ApproveToolRun(p) ==
  /\ At(p, "idle") /\ run.status = "pending_approval"
  /\ \E t \in Made :
       /\ tool[t].status = "pending_approval" /\ tool[t].approval = "pending"
       /\ Begin(p, Write([Idle EXCEPT !.tool = t], <<SetTool(t, [status |-> "running", approval |-> "approved"])>>, "load"))
       /\ consent' = consent \cup {t}

\* executePersistedToolRun reads the run again.
Load(p) ==
  /\ At(p, "load")
  /\ Go(p, [req[p] EXCEPT !.pc = "execute", !.iter = run.iterations, !.at = run.iterations, !.then = "ask"])
  /\ UNCHANGED <<run, tool, made, answered, faults, asked, consent, wrong>>

RejectToolRun(p) ==
  /\ At(p, "idle") /\ run.status = "pending_approval"
  /\ \E t \in Made :
       /\ tool[t].status = "pending_approval" /\ tool[t].approval = "pending"
       /\ Begin(p, Write(Idle, <<SetTool(t, [status |-> "rejected", approval |-> "rejected"]),
                                 Best(SetRun([status |-> "failed"]))>>, "idle"))
       /\ UNCHANGED consent

MayRetry(t) == tool[t].status = "failed"

\* RetryToolRun; one that failed before it was decided is to be decided again.
RetryToolRun(p) ==
  /\ At(p, "idle") /\ run.status \in {"failed", "pending_approval"}
  /\ \E t \in Made :
       /\ MayRetry(t)
       /\ Begin(p, IF tool[t].approval = "pending"
                   THEN Write(Idle, <<SetRun([status |-> "pending_approval"]),
                                      SetTool(t, [status |-> "pending_approval", approval |-> "pending"])>>, "idle")
                   ELSE Write([Idle EXCEPT !.tool = t],
                              <<SetTool(t, [status |-> "running", approval |-> tool[t].approval])>>, "load"))
       /\ UNCHANGED consent

ContinueRunWithTokenBudget(p) ==
  /\ At(p, "idle") /\ run.status = "token_budget_exceeded"
  /\ Begin(p, Write([Idle EXCEPT !.iter = run.iterations], <<SetRun([status |-> "running"])>>, "ask"))
  /\ UNCHANGED consent

-----------------------------------------------------------------------------
Next ==
  \E p \in Requests :
    \/ Start(p) \/ NotAsked(p) \/ Ask(p) \/ Call(p) \/ NextIteration(p) \/ Execute(p)
    \/ StoreRun(p) \/ ReadTool(p) \/ StoreTool(p) \/ Load(p)
    \/ Fault(p) \/ Dropped(p) \/ RecordFails(p)
    \/ ApproveToolRun(p) \/ RejectToolRun(p) \/ RetryToolRun(p) \/ ContinueRunWithTokenBudget(p)

Spec == Init /\ [][Next]_vars

-----------------------------------------------------------------------------
Quiet == Busy = {}
Alone == "mixed" \notin wrong
Pending == {t \in Made : tool[t].status = "pending_approval"}

RunStatuses ==
  {"none", "running", "pending_approval", "completed", "failed", "max_iterations_reached",
   "token_budget_exceeded"}
ToolStatuses == {"absent", "pending_approval", "running", "completed", "failed", "rejected"}
Approvals == {"pending", "not_required", "approved", "rejected"}
Runs == [status : RunStatuses, iterations : Nat]
RunPatches ==
  LET new == RunStatuses \ {"none"} IN [status : new] \cup [status : new, iterations : Nat]
Rows == [status : ToolStatuses, approval : Approvals, class : Classes]
ToolPatches == [status : ToolStatuses] \cup [status : ToolStatuses, approval : Approvals]
Statements ==
  [kind : {"tool"}, tool : ToolRuns, patch : ToolPatches, best : BOOLEAN]
    \cup [kind : {"run"}, patch : RunPatches, best : BOOLEAN]
RequestStates ==
  [pc : {"idle", "ask", "call", "execute", "write", "store", "load"}, iter : Nat, at : Nat,
   calls : Seq(Classes), tool : ToolRuns \cup {0}, todo : Seq(Statements),
   then : {"idle", "ask", "call", "load"}, row : Rows]

\* Every variable keeps its type; what is remembered of tool runs is of those that exist.
TypeOK ==
  /\ run \in Runs
  /\ tool \in [ToolRuns -> Rows]
  /\ made \in 0..MaxTools
  /\ answered \subseteq ToolRuns /\ consent \subseteq Made
  /\ req \in [Requests -> RequestStates]
  /\ faults \in 0..FaultBound /\ asked \in Nat
  /\ wrong \subseteq {"unapproved", "unanswered", "mixed"}

\* A dangerous tool runs only after a user approved that call, and a medium one only after a
\* user approved one of its calls: whatever overlaps, fails or is retried.
ApprovedBeforeExecuted == "unapproved" \notin wrong

\* When the model is asked again every tool run's result is in the conversation, whatever was
\* retried or died before.
AnsweredBeforeAsked == Alone => "unanswered" \notin wrong

\* Without faults, a run waits for approval when, and only when, one tool run can be decided:
\* a user is never left with a run that waits for nothing, nor with a call he cannot decide.
WaitingIsDecidable ==
  Quiet /\ Alone /\ faults = 0 =>
    /\ run.status = "pending_approval" <=> Pending # {}
    /\ Cardinality(Pending) <= 1

\* A completed run has left no tool run open or failed.
CompletedIsFinished == Alone /\ run.status = "completed" => \A t \in Made : tool[t].status = "completed"

\* Approvals, retries and raised budgets do not let a run ask the model more often than its
\* agent allows.
AsksAreBounded == Alone /\ faults = 0 => asked <= MaxIterations

-----------------------------------------------------------------------------
(* What makes ApprovedBeforeExecuted inductive                              *)

\* The user approved it, or need not.
Cleared(t) == t \in Made /\ ~Unapproved(t)

\* A row says that it failed only if it was executed, and that it was approved only if a
\* user did.
Honest(row, t) ==
  /\ row.class = tool[t].class
  /\ row.status = "failed" => Cleared(t)
  /\ row.approval = "approved" => t \in consent

\* So does a statement that is still to be sent.
Sound(statement) ==
  statement.kind = "tool" =>
    /\ statement.tool \in Made
    /\ statement.patch.status = "failed" => Cleared(statement.tool)
    /\ "approval" \in DOMAIN statement.patch =>
         (statement.patch.approval = "approved" => statement.tool \in consent)

\* What a request is about to execute, to send, and to write back.
Trusted(state) ==
  /\ state.pc \in {"execute", "load"} => Cleared(state.tool)
  /\ state.pc \in {"write", "store"} =>
       /\ state.todo # <<>> /\ \A i \in 1..Len(state.todo) : Sound(state.todo[i])
       /\ state.then = "load" => Cleared(state.tool)
  /\ state.pc = "store" =>
       Head(state.todo).kind = "tool" /\ Honest(state.row, Head(state.todo).tool)

ApprovalInv ==
  /\ \A t \in Made : Honest(tool[t], t)
  /\ \A p \in Requests : Trusted(req[p])
  /\ ApprovedBeforeExecuted

-----------------------------------------------------------------------------
(* What makes AnsweredBeforeAsked and CompletedIsFinished inductive         *)

Unfinished == {t \in Made : tool[t].status # "completed"}
Over == {"completed", "token_budget_exceeded"}

\* What is still to be sent by a request that nobody disturbs is about the one tool run
\* that is not finished; the loop goes on when it is.
OrderlyStatement(state, i) ==
  LET statement == state.todo[i]  status == statement.patch.status IN
  /\ statement.kind = "tool" =>
       /\ Unfinished = {statement.tool}
       /\ status = "completed" <=> state.then \in {"ask", "call"}
       /\ status = "completed" => statement.tool \in answered /\ i = 1
  /\ statement.kind = "run" =>
       /\ status \in Over => Unfinished = {}
       /\ state.then # "idle" => state.then = "ask" /\ status = "running" /\ i = Len(state.todo)
  /\ state.then # "idle" => ~statement.best

OrderlyTodo(state) ==
  /\ \A i \in 1..Len(state.todo) : OrderlyStatement(state, i)
  /\ state.then = "load" => Unfinished = {state.tool} /\ Len(state.todo) = 1
  /\ state.then = "ask" =>
       /\ state.todo[Len(state.todo)].kind = "run"
       /\ state.todo[1].kind = "run" => Unfinished = {}
  /\ state.then = "call" => run.status \notin Over

Orderly(state) ==
  /\ state.pc \in {"ask", "call"} => Unfinished = {} /\ run.status \notin Over
  /\ state.pc \in {"execute", "load"} => Unfinished = {state.tool}
  /\ state.pc = "execute" => state.then \in {"ask", "call"}
  /\ state.pc \in {"write", "store"} => OrderlyTodo(state)
  /\ state.pc = "store" => state.row.status = Head(state.todo).patch.status

\* At most one tool run is not finished, and none when the run is over.
InOrder ==
  /\ \A t, u \in Unfinished : t = u
  /\ \A t \in Made : tool[t].status = "completed" => t \in answered
  /\ run.status \in Over => Unfinished = {}

AloneInv ==
  /\ run.status = "none" => made = 0 /\ Busy = {}
  /\ Alone =>
       /\ \A p, q \in Busy : p = q
       /\ InOrder
       /\ \A p \in Requests : Orderly(req[p])
       /\ "unanswered" \notin wrong

-----------------------------------------------------------------------------
(* What makes WaitingIsDecidable and AsksAreBounded inductive               *)

Waits == run.status = "pending_approval"
Places(state, kind) == {i \in 1..Len(state.todo) : state.todo[i].kind = kind}
Counts(state, i) == "iterations" \in DOMAIN state.todo[i].patch

\* What the run will be when the statements of a request are sent: it will have counted
\* the questions asked, and wait if a tool run does.
WillCount(state) ==
  \/ \E i \in Places(state, "run") : Counts(state, i) /\ state.todo[i].patch.iterations = asked
  \/ (\A i \in Places(state, "run") : ~Counts(state, i)) /\ run.iterations = asked
WillWait(state) ==
  \/ \E i \in Places(state, "run") : state.todo[i].patch.status = "pending_approval"
  \/ Places(state, "run") = {} /\ Waits
WillPend(state) ==
  \/ \E i \in Places(state, "tool") : state.todo[i].patch.status = "pending_approval"
  \/ Places(state, "tool") = {} /\ Pending # {}

SettledTodo(state) ==
  /\ \A i, j \in 1..Len(state.todo) : state.todo[i].kind = state.todo[j].kind => i = j
  /\ state.then = "idle" => WillCount(state) /\ (WillWait(state) <=> WillPend(state))
  /\ state.then = "ask" => state.iter = asked
  /\ state.then = "call" => state.at = asked /\ ~Waits
  /\ state.then = "load" => run.iterations = asked

Settled(state) ==
  /\ state.pc = "idle" => run.iterations = asked /\ (Waits <=> Pending # {})
  /\ state.pc = "ask" => state.iter = asked /\ ~Waits
  /\ state.pc = "call" => state.at = asked /\ ~Waits
  /\ state.pc = "execute" =>
       /\ state.at = asked
       /\ state.then = "call" => ~Waits
       /\ state.then = "ask" => state.iter = asked
  /\ state.pc = "load" => run.iterations = asked
  /\ state.pc \in {"write", "store"} => SettledTodo(state)

SettledInv ==
  /\ run.status = "none" => asked = 0
  /\ Alone /\ faults = 0 =>
       /\ asked <= MaxIterations
       /\ Busy = {} => Settled(Idle)
       /\ \A p \in Busy : Settled(req[p])
=============================================================================
