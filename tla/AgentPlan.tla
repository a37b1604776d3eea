----------------------------- MODULE AgentPlan -----------------------------
(***************************************************************************)
(* The plan of an agent's planning run (agent/service.go, agent/store.go): *)
(* StartPlanningRun writes the steps of a plan, users approve, edit, move, *)
(* insert, delete, execute, skip and retry them, and the run is completed  *)
(* when every step is done.                                                *)
(*                                                                         *)
(* Steps refer to each other by index.  An edit that moves steps is a      *)
(* series of statements, none in a transaction: the steps go to indices    *)
(* above the plan's, then to their new ones (a unique index forbids two    *)
(* steps at one), and the dependencies are rewritten last.  UpdatePlanStep *)
(* reads a whole row and writes it back.  A request is a sequence of such  *)
(* writes; the reads at its start are one action.                          *)
(*                                                                         *)
(* What a model or a tool answers is an open choice.  Not modelled: titles *)
(* and inputs of steps, the messages and the tool runs a step leaves       *)
(* behind, access control.                                                 *)
(***************************************************************************)
EXTENDS Integers, Sequences, FiniteSets

CONSTANTS
  Requests,    \* HTTP requests the servers handle at a time
  Tools,
  Plans,       \* plans a model may answer: sequences of [tool, deps]
  Policies,    \* the sets of tools that need approval, one after the other: an agent is edited
  MaxSteps,    \* bound: steps ever created
  EditBound,   \* bound: edits of the plan
  DepBound,    \* bound: steps that a user makes a step depend on
  FaultBound   \* bound: requests that die or whose next statement fails

NoTool == ""

ASSUME BoundsAssumption ==
  MaxSteps \in Nat \ {0} /\ EditBound \in Nat /\ DepBound \in Nat /\ FaultBound \in Nat
ASSUME ToolsAssumption == NoTool \notin Tools
ASSUME PlansAssumption ==
  \A p \in Plans : p \in Seq([tool : Tools, deps : SUBSET (Nat \ {0})]) /\ Len(p) <= MaxSteps
ASSUME PoliciesAssumption == Policies \in Seq(SUBSET Tools) /\ Policies # <<>>

Steps == 1..MaxSteps    \* ids; a request names those of the rows it is going to insert at its start

VARIABLES
  run,      \* agent_runs.status
  steps,    \* agent_plan_steps; index 0: no such row
  made,     \* ids named
  policy,   \* position in Policies
  req,      \* what each request is doing
  edits, faults,
  plan,     \* history: the steps in the order the users left them
  needs,    \* history: the steps each step was made to depend on
  consent,  \* history: the tool of each step that a user has approved
  wrong     \* history: what went wrong, see the properties

vars == <<run, steps, made, policy, req, edits, faults, plan, needs, consent, wrong>>
history == <<plan, needs, consent, wrong>>

NoRow == [index |-> 0, status |-> "pending", approval |-> "pending", deps |-> {}, tool |-> NoTool]
Idle == [pc |-> "idle", op |-> "none", step |-> 0, todo |-> <<>>, row |-> NoRow, then |-> "idle"]

Init ==
  /\ run = "none"
  /\ steps = [s \in Steps |-> NoRow]
  /\ made = 0 /\ policy = 1
  /\ req = [p \in Requests |-> Idle]
  /\ edits = 0 /\ faults = 0
  /\ plan = <<>> /\ needs = [s \in Steps |-> {}]
  /\ consent = [s \in Steps |-> NoTool]
  /\ wrong = {}

-----------------------------------------------------------------------------
(* The plan as a request reads it                                           *)

Live == {s \in Steps : steps[s].index > 0}
Index(s) == steps[s].index
\* The k-th step of S has k - 1 before it.
InOrder(S) == [k \in 1..Cardinality(S) |-> CHOOSE s \in S : Cardinality({t \in S : Index(t) < Index(s)}) = k - 1]
Order == InOrder(Live)
MaxIndex == IF Live = {} THEN 0 ELSE Index(CHOOSE s \in Live : \A t \in Live : Index(t) <= Index(s))
AtIndex(i) == {s \in Live : Index(s) = i}
At(p, pc) == req[p].pc = pc

Done(s) == steps[s].status \in {"completed", "skipped"}
Adjustable(s) == steps[s].status \in {"pending", "approved"}
Replaceable(s) == steps[s].status \in {"pending", "approved", "failed"}
Executable(s) ==
  \/ steps[s].status = "approved"
  \/ steps[s].status = "pending" /\ steps[s].approval = "not_required"

\* What a step waits for, by index: the steps it depends on, or every earlier one.
Wanted(s) == IF steps[s].deps # {} THEN steps[s].deps ELSE {Index(t) : t \in {u \in Live : Index(u) < Index(s)}}

\* Mutant: a step waits for the steps it depends on to be started.
PriorStarted(s) == \A i \in Wanted(s) : \E t \in AtIndex(i) : steps[t].status \notin {"pending", "approved"}

\* ensurePriorPlanStepsDone
PriorDone(s) == Index(s) \notin Wanted(s) /\ \A i \in Wanted(s) : \E t \in AtIndex(i) : Done(t)

Risky == Policies[policy]
FirstApproval(tool) == IF tool \in Risky THEN "pending" ELSE "not_required"

-----------------------------------------------------------------------------
(* Requests                                                                 *)

Busy == {p \in Requests : ~At(p, "idle")}
Go(p, state) == req' = [req EXCEPT ![p] = state]
End(p) == Go(p, Idle)
Work == {"execute", "skip", "retry"}

\* Two requests at once that the code does not keep apart: one edits the plan, or both work
\* on one step.
Mixes(p, op, s) ==
  IF \E q \in Busy \ {p} : op \notin Work \/ req[q].op \notin Work \/ req[q].step = s THEN {"mixed"} ELSE {}

Handle(p, op, s, todo, then) ==
  Go(p, [Idle EXCEPT !.pc = "write", !.op = op, !.step = s, !.todo = todo, !.then = then])

Begin(p, op, s, todo, then) == Handle(p, op, s, todo, then) /\ wrong' = wrong \cup Mixes(p, op, s)

\* A statement: what it is, of which step, the fields it sets and the row they are of.
Set(s, fields, row) == [kind |-> "set", step |-> s, fields |-> fields, row |-> row, run |-> "none"]
SetRun(status) == [kind |-> "run", step |-> 0, fields |-> {}, row |-> NoRow, run |-> status]
Delete(s) == [kind |-> "delete", step |-> s, fields |-> {}, row |-> NoRow, run |-> "none"]
Insert(s, i, tool, deps) ==
  [kind |-> "create", step |-> s, fields |-> {}, run |-> "none",
   row |-> [NoRow EXCEPT !.index = i, !.tool = tool, !.deps = deps]]
InsertAll(first, specs) ==
  [k \in 1..Len(specs) |-> Insert(made + k, first + k - 1, specs[k].tool, specs[k].deps)]

\* What an answer asks for: each of its steps to depend on the ones at the indices it names.
\* It may name indices that are no step's.
Answered(specs, list) ==
  [s \in Steps |-> IF s \in made + 1..made + Len(specs) THEN {list[d] : d \in specs[s - made].deps \cap DOMAIN list}
                   ELSE needs[s]]
Loose(specs, list) == IF \A k \in DOMAIN specs : specs[k].deps \subseteq DOMAIN list THEN {} ELSE {"loose"}

\* StartPlanningRun: the row, then the steps of the answer; or no answer, or no tokens left.
Start(p) ==
  /\ run = "none"
  /\ run' = "running"
  /\ \/ \E specs \in Plans :
          /\ Handle(p, "start", 0, InsertAll(1, specs) \o <<SetRun("pending_approval")>>, "idle")
          /\ made' = Len(specs)
          /\ plan' = [k \in 1..Len(specs) |-> k]
          /\ needs' = Answered(specs, plan')
          /\ wrong' = wrong \cup Mixes(p, "start", 0) \cup Loose(specs, plan')
     \/ \E end \in {"failed", "token_budget_exceeded"} :
          Begin(p, "start", 0, <<SetRun(end)>>, "idle") /\ UNCHANGED <<made, plan, needs>>
  /\ UNCHANGED <<steps, policy, edits, faults, consent>>

\* A step that cannot be created: the run has failed.
StartFails(p) ==
  /\ At(p, "write") /\ req[p].op = "start"
  /\ Head(req[p].todo).kind = "create"
  /\ faults < FaultBound /\ faults' = faults + 1
  /\ Handle(p, "start", 0, <<SetRun("failed")>>, "idle")
  /\ UNCHANGED <<run, steps, made, policy, edits, history>>

-----------------------------------------------------------------------------
(* Statements                                                               *)

Next1(p) == Head(req[p].todo)
Then(p) ==
  IF Len(req[p].todo) > 1 THEN [req[p] EXCEPT !.pc = "write", !.todo = Tail(@), !.row = NoRow]
  ELSE IF req[p].then = "idle" THEN Idle
  ELSE [req[p] EXCEPT !.pc = req[p].then, !.todo = <<>>, !.row = IF req[p].then = "work" THEN @ ELSE NoRow]

\* An update sets the fields it names.
Patched(old, w) ==
  [index |-> IF "index" \in w.fields THEN w.row.index ELSE old.index,
   status |-> IF "status" \in w.fields THEN w.row.status ELSE old.status,
   approval |-> IF "approval" \in w.fields THEN w.row.approval ELSE old.approval,
   deps |-> IF "deps" \in w.fields THEN w.row.deps ELSE old.deps,
   tool |-> IF "tool" \in w.fields THEN w.row.tool ELSE old.tool]

\* UpdatePlanStep reads the row; it is gone: an error.
ReadRow(p) ==
  /\ At(p, "write") /\ Next1(p).kind = "set"
  /\ Go(p, IF Next1(p).step \in Live
           THEN [req[p] EXCEPT !.pc = "store", !.row = Patched(steps[Next1(p).step], Next1(p))]
           ELSE Idle)
  /\ UNCHANGED <<run, steps, made, policy, edits, faults, history>>

\* ... and writes it whole.  The unique index may refuse; a row that has gone is not missed,
\* except by ExecutePlanStep, which looks at what it has written.
StoreRow(p) ==
  LET s == Next1(p).step IN
  /\ At(p, "store")
  /\ IF AtIndex(req[p].row.index) \subseteq {s}
     THEN /\ steps' = IF s \in Live THEN [steps EXCEPT ![s] = req[p].row] ELSE steps
          /\ Go(p, IF s \notin Live /\ req[p].op # "edit" THEN Idle ELSE Then(p))
     ELSE End(p) /\ UNCHANGED steps
  /\ UNCHANGED <<run, made, policy, edits, faults, history>>

StoreRun(p) ==
  /\ At(p, "write") /\ Next1(p).kind = "run"
  /\ run' = Next1(p).run
  /\ Go(p, Then(p))
  /\ UNCHANGED <<steps, made, policy, edits, faults, history>>

DeleteRow(p) ==
  /\ At(p, "write") /\ Next1(p).kind = "delete"
  /\ steps' = [steps EXCEPT ![Next1(p).step] = NoRow]
  /\ Go(p, IF Next1(p).step \in Live THEN Then(p) ELSE Idle)
  /\ UNCHANGED <<run, made, policy, edits, faults, history>>

CreateRow(p) ==
  LET row == Next1(p).row IN
  /\ At(p, "write") /\ Next1(p).kind = "create"
  /\ IF AtIndex(row.index) = {}
     THEN /\ steps' = [steps EXCEPT ![Next1(p).step] = [row EXCEPT !.approval = FirstApproval(row.tool)]]
          /\ Go(p, Then(p))
     ELSE End(p) /\ UNCHANGED steps
  /\ UNCHANGED <<run, made, policy, edits, faults, history>>

\* The process dies, the client goes away or a statement fails.
Fault(p) ==
  /\ p \in Busy /\ faults < FaultBound
  /\ faults' = faults + 1
  /\ End(p)
  /\ UNCHANGED <<run, steps, made, policy, edits, history>>

-----------------------------------------------------------------------------
(* Edits of the plan.  A refused request changes nothing.                   *)

Edit == run = "pending_approval" /\ edits < EditBound /\ edits' = edits + 1

Spare(n) == made + n <= MaxSteps /\ made' = made + n

\* A step that moves is to be approved again.
Move(s, i) ==
  Set(s, {"index"} \cup IF steps[s].approval = "approved" THEN {"status", "approval"} ELSE {}, [NoRow EXCEPT !.index = i])

\* Mutant: the buffer starts at the last index.
BufferAtLast(list) == [k \in 1..Len(list) |-> Move(list[k], MaxIndex + k - 1)]

Buffer(list) == [k \in 1..Len(list) |-> Move(list[k], MaxIndex + k)]
Shift(list, by) == [k \in 1..Len(list) |-> Move(list[k], Index(list[k]) + by)]

\* rewritePlanStepDependencies, to[i] being what index i has become.
NewDeps(deps, to) == {to[i] : i \in deps}
Rewrite(S, to) ==
  LET list == InOrder({s \in S : NewDeps(steps[s].deps, to) # steps[s].deps})
  IN [k \in 1..Len(list) |-> Set(list[k], {"deps"}, [NoRow EXCEPT !.deps = NewDeps(steps[list[k]].deps, to)])]

DepChoices(self) == {deps \in SUBSET {Index(s) : s \in Live \ {self}} : Cardinality(deps) <= DepBound}
ById(deps) == UNION {AtIndex(i) : i \in deps}

With(s, at) == [k \in 1..(Len(plan) + 1) |-> IF k < at THEN plan[k] ELSE IF k = at THEN s ELSE plan[k - 1]]
Without(s) ==
  IF \A k \in DOMAIN plan : plan[k] # s THEN plan
  ELSE LET at == CHOOSE k \in DOMAIN plan : plan[k] = s
       IN [k \in 1..(Len(plan) - 1) |-> IF k < at THEN plan[k] ELSE plan[k + 1]]

\* CreatePlanStepDraft, after a step, which may be the last.
CreatePlanStepDraft(p) ==
  At(p, "idle") /\ Edit /\ Spare(1) /\
  \E anchor \in IF Live = {} THEN {0} ELSE Live, tool \in Tools, deps \in DepChoices(0) :
    LET at == IF anchor = 0 THEN 1 ELSE Index(anchor) + 1
        shifted == {s \in Live : Index(s) >= at}
        to == [i \in Nat |-> IF \E s \in shifted : Index(s) = i THEN i + 1 ELSE i]
    IN
    /\ anchor # 0 => Adjustable(anchor)
    /\ \A s \in shifted : Adjustable(s)
    /\ Begin(p, "edit", 0,
         Buffer(InOrder(shifted)) \o <<Insert(made + 1, at, tool, NewDeps(deps, to))>>
           \o Shift(InOrder(shifted), 1) \o Rewrite(Live, to),
         "idle")
    /\ plan' = With(made + 1, IF at <= Len(plan) + 1 THEN at ELSE Len(plan) + 1)
    /\ needs' = [needs EXCEPT ![made + 1] = ById(deps)]
    /\ UNCHANGED <<run, steps, policy, faults, consent>>

\* MovePlanStep, up or down past a neighbour.
MovePlanStep(p) ==
  At(p, "idle") /\ Edit /\
  \E s, t \in Live :
    LET to == [i \in Nat |-> IF i = Index(s) THEN Index(t) ELSE IF i = Index(t) THEN Index(s) ELSE i] IN
    /\ s # t /\ \A u \in Live : ~(Index(u) > Index(s) /\ Index(u) < Index(t)) /\ ~(Index(u) < Index(s) /\ Index(u) > Index(t))
    /\ Adjustable(s) /\ Adjustable(t)
    /\ Begin(p, "edit", s,
         <<Move(s, MaxIndex + 1), Move(t, Index(s)), Move(s, Index(t))>> \o Rewrite(Live, to),
         "idle")
    /\ plan' = [k \in DOMAIN plan |-> IF plan[k] = s THEN t ELSE IF plan[k] = t THEN s ELSE plan[k]]
    /\ UNCHANGED <<run, steps, made, policy, faults, needs, consent>>

\* DeletePlanStepDraft: not a step another one depends on, nor one before an executed one.
DeletePlanStepDraft(p) ==
  At(p, "idle") /\ Edit /\
  \E s \in Live :
    LET later == {t \in Live : Index(t) > Index(s)}
        to == [i \in Nat |-> IF \E t \in later : Index(t) = i THEN i - 1 ELSE i]
    IN
    /\ Adjustable(s) /\ \A t \in later : Adjustable(t)
    /\ \A t \in Live \ {s} : Index(s) \notin steps[t].deps
    /\ Handle(p, "edit", s,
         <<Delete(s)>> \o Buffer(InOrder(later)) \o Shift(InOrder(later), -1) \o Rewrite(Live \ {s}, to),
         "idle")
    /\ plan' = Without(s)
    /\ wrong' = wrong \cup Mixes(p, "edit", s) \cup IF \A t \in Live \ {s} : Done(t) THEN {"trimmed"} ELSE {}
    /\ UNCHANGED <<run, steps, made, policy, faults, needs, consent>>

\* Mutant: an update leaves an approval as it is.
UpdatePatchOnly(s, tool, deps) == Set(s, {"tool", "deps"}, [NoRow EXCEPT !.tool = tool, !.deps = deps])

UpdatePatch(s, tool, deps) ==
  LET row == [NoRow EXCEPT !.tool = tool, !.deps = deps] IN
  IF "approved" \in {steps[s].status, steps[s].approval} THEN Set(s, {"tool", "deps", "status", "approval"}, row)
  ELSE Set(s, {"tool", "deps", "approval"}, [row EXCEPT !.approval = FirstApproval(tool)])

UpdatePlanStepDraft(p) ==
  At(p, "idle") /\ Edit /\
  \E s \in Live, tool \in Tools : \E deps \in DepChoices(s) \cup {steps[s].deps} :
    /\ deps = steps[s].deps \/ tool = steps[s].tool
    /\ Adjustable(s)
    /\ Begin(p, "edit", s, <<UpdatePatch(s, tool, deps)>>, "idle")
    /\ needs' = [needs EXCEPT ![s] = ById(deps)]
    /\ UNCHANGED <<run, steps, made, policy, faults, plan, consent>>

\* AdjustPlanSteps: a model answers other steps for those that are not done.
AdjustPlanSteps(p) ==
  LET prefix == {s \in Live : Done(s)}
      rest == InOrder(Live \ prefix)
  IN
  At(p, "idle") /\ Edit /\
  \E specs \in Plans :
    /\ Live # prefix /\ specs # <<>>
    /\ \A s \in Live \ prefix : Replaceable(s) /\ \A t \in prefix : Index(t) < Index(s)
    /\ Spare(Len(specs))
    /\ Handle(p, "edit", 0,
         [k \in 1..Len(rest) |-> Delete(rest[k])] \o InsertAll(Cardinality(prefix) + 1, specs)
           \o <<SetRun("pending_approval")>>,
         "idle")
    /\ plan' = InOrder(prefix) \o [k \in 1..Len(specs) |-> made + k]
    /\ needs' = Answered(specs, plan')
    /\ wrong' = wrong \cup Mixes(p, "edit", 0) \cup Loose(specs, plan')
    /\ UNCHANGED <<run, steps, policy, faults, consent>>

ApprovePlanStep(p) ==
  At(p, "idle") /\ run = "pending_approval" /\
  \E s \in Live :
    /\ steps[s].status = "pending" /\ steps[s].approval # "rejected"
    /\ Begin(p, "edit", s,
         <<Set(s, {"status", "approval"}, [NoRow EXCEPT !.status = "approved", !.approval = "approved"])>>, "idle")
    /\ consent' = [consent EXCEPT ![s] = steps[s].tool]
    /\ UNCHANGED <<run, steps, made, policy, edits, faults, plan, needs>>

\* The agent is edited: other tools need approval.
EditAgent ==
  /\ policy < Len(Policies) /\ policy' = policy + 1
  /\ wrong' = wrong \cup IF Busy # {} THEN {"mixed"} ELSE {}
  /\ UNCHANGED <<run, steps, made, req, edits, faults, plan, needs, consent>>

-----------------------------------------------------------------------------
(* Work on a step                                                           *)

SetStatus(s, status) == Set(s, {"status"}, [NoRow EXCEPT !.status = status])

\* ExecutePlanStep: a step that needs no approval is looked at again, by what its agent says
\* now.
Rejudge(s) == steps[s].status = "pending" /\ steps[s].tool \in Risky

ExecutePlanStep(p) ==
  /\ run = "pending_approval" /\ (At(p, "idle") \/ At(p, "execute"))
  /\ \E s \in Live :
       /\ At(p, "execute") => s = req[p].step
       /\ Executable(s)
       /\ \/ /\ Rejudge(s)
             /\ Begin(p, "execute", s, <<Set(s, {"approval"}, NoRow)>>, "idle")
          \/ /\ ~Rejudge(s) /\ PriorDone(s)
             /\ Begin(p, IF req[p].op = "continue" THEN "continue" ELSE "execute", s, <<SetStatus(s, "running")>>, "work")
  /\ UNCHANGED <<run, steps, made, policy, edits, faults, plan, needs, consent>>

\* RetryPlanStep and ContinuePlanningRun end when the step may not be executed.
ExecuteRefused(p) ==
  /\ At(p, "execute")
  /\ LET s == req[p].step IN
     run # "pending_approval" \/ s \notin Live \/ ~Executable(s) \/ (~Rejudge(s) /\ ~PriorDone(s))
  /\ End(p)
  /\ UNCHANGED <<run, steps, made, policy, edits, faults, history>>

Before(s) == {plan[i] : i \in {j \in DOMAIN plan : \E k \in DOMAIN plan : plan[k] = s /\ j < k}}
Early(s) == \E t \in IF needs[s] # {} THEN needs[s] ELSE Before(s) : t \in Live /\ ~Done(t)
Unapproved(s, tool) == tool \in Risky /\ consent[s] # tool

\* The step's tool, or its prompt: the row written last says which.
Run(p) ==
  LET s == req[p].step
      Ends(todo, then) == Handle(p, req[p].op, s, todo, then)
  IN
  /\ At(p, "work")
  /\ \/ Ends(<<SetStatus(s, "completed")>>, "settle")
     \/ Ends(<<SetStatus(s, "failed")>>, "idle")
     \/ Ends(<<SetStatus(s, "failed"), SetRun("token_budget_exceeded")>>, "idle")
  /\ wrong' = wrong \cup (IF Early(s) THEN {"early"} ELSE {})
                    \cup (IF Unapproved(s, req[p].row.tool) THEN {"unapproved"} ELSE {})
  /\ UNCHANGED <<run, steps, made, policy, edits, faults, plan, needs, consent>>

\* ContinuePlanningRun, about to pick a step.
Loop == [Idle EXCEPT !.pc = "pick", !.op = "continue"]

\* Mutant: the run is completed when no step is left to execute.
NoneLeft == \A s \in Live : ~Executable(s) /\ steps[s].status # "running"

AllDone == \A s \in Live : Done(s)

\* Mutant: a run with a skipped step is not completed.
MustCompleteUnskipped == run # "completed" /\ Live # {} /\ \A s \in Live : steps[s].status = "completed"

MustComplete == run # "completed" /\ Live # {} /\ AllDone

\* completeRunWhenAllPlanStepsDone, after a step has been executed or skipped.
Settle(p) ==
  /\ At(p, "settle")
  /\ IF MustComplete
     THEN Handle(p, req[p].op, req[p].step, <<SetRun("completed")>>, IF req[p].op = "continue" THEN "pick" ELSE "idle")
     ELSE Go(p, IF req[p].op = "continue" THEN Loop ELSE Idle)
  /\ UNCHANGED <<run, steps, made, policy, edits, faults, history>>

SkipPlanStep(p) ==
  At(p, "idle") /\ run = "pending_approval" /\
  \E s \in Live :
    /\ Replaceable(s) /\ PriorDone(s)
    /\ Begin(p, "skip", s, <<SetStatus(s, "skipped")>>, "settle")
    /\ UNCHANGED <<run, steps, made, policy, edits, faults, plan, needs, consent>>

\* RetryPlanStep; ContinueRunWithTokenBudget retries the first step that failed so.
RetryPlanStep(p) ==
  At(p, "idle") /\ run \in {"pending_approval", "failed", "token_budget_exceeded"} /\
  \E s \in Live :
    LET approval == IF steps[s].approval \in {"approved", "not_required"} THEN steps[s].approval ELSE "pending"
        status == IF approval = "approved" THEN "approved" ELSE "pending"
    IN
    /\ steps[s].status = "failed"
    /\ approval # "pending" => PriorDone(s)
    /\ Begin(p, "retry", s,
         <<SetRun("pending_approval"),
           Set(s, {"status", "approval"}, [NoRow EXCEPT !.status = status, !.approval = approval])>>,
         IF approval = "pending" THEN "idle" ELSE "execute")
    /\ UNCHANGED <<run, steps, made, policy, edits, faults, plan, needs, consent>>

\* ContinuePlanningRun: the first step that is ready, again and again.
ContinuePlanningRun(p) ==
  /\ At(p, "idle") /\ run = "pending_approval"
  /\ \E s \in Live : Executable(s)
  /\ Go(p, Loop)
  /\ UNCHANGED <<run, steps, made, policy, edits, faults, history>>

\* arePlanStepDependenciesSatisfied: the first of what the step waits for that is not done is
\* another step of the plan; if it is not, that is an error.
Deferred(s) ==
  LET missing == {i \in Wanted(s) : i = Index(s) \/ \A t \in AtIndex(i) : ~Done(t)}
  IN \E i \in missing : i # Index(s) /\ AtIndex(i) # {} /\ \A j \in missing : i <= j

Waits(s) == steps[s].status = "pending" /\ steps[s].approval = "pending"

\* The first step that is neither done nor to be passed over ends the loop or is executed.
Pick(p) ==
  LET stops == {s \in Live : ~Done(s) /\ ~Waits(s) /\ ~(Executable(s) /\ Deferred(s))}
      first == CHOOSE s \in stops : \A t \in stops : Index(s) <= Index(t)
  IN
  /\ At(p, "pick")
  /\ Go(p, IF stops # {} /\ Executable(first) /\ PriorDone(first)
           THEN [Loop EXCEPT !.pc = "execute", !.step = first] ELSE Idle)
  /\ UNCHANGED <<run, steps, made, policy, edits, faults, history>>

-----------------------------------------------------------------------------
Statement(p) == ReadRow(p) \/ StoreRow(p) \/ StoreRun(p) \/ DeleteRow(p) \/ CreateRow(p)

Draft(p) ==
  \/ CreatePlanStepDraft(p) \/ MovePlanStep(p) \/ DeletePlanStepDraft(p) \/ UpdatePlanStepDraft(p)
  \/ AdjustPlanSteps(p) \/ ApprovePlanStep(p)

Next ==
  \/ \E p \in Requests :
       \/ Start(p) \/ StartFails(p) \/ Statement(p) \/ Fault(p) \/ Draft(p)
       \/ ExecutePlanStep(p) \/ ExecuteRefused(p) \/ Run(p) \/ Settle(p) \/ Pick(p)
       \/ SkipPlanStep(p) \/ RetryPlanStep(p) \/ ContinuePlanningRun(p)
  \/ EditAgent

Spec == Init /\ [][Next]_vars

-----------------------------------------------------------------------------
Statuses == {"pending", "approved", "running", "completed", "skipped", "failed"}
Approvals == {"pending", "approved", "not_required"}
RunStatuses == {"none", "running", "pending_approval", "failed", "token_budget_exceeded", "completed"}
Row ==
  [index : Nat, status : Statuses, approval : Approvals, deps : SUBSET (Nat \ {0}), tool : Tools \cup {NoTool}]
StatementType ==
  [kind : {"set", "run", "delete", "create"}, step : Steps \cup {0},
   fields : SUBSET {"index", "status", "approval", "deps", "tool"}, row : Row, run : RunStatuses]
RequestType ==
  [pc : {"idle", "write", "store", "work", "settle", "pick", "execute"},
   op : {"none", "start", "edit", "continue"} \cup Work, step : Steps \cup {0}, todo : Seq(StatementType),
   row : Row, then : {"idle", "work", "settle", "pick", "execute"}]

\* The type of the state: a row has one of the statuses and approvals above (no step of a plan
\* is ever "rejected"), a request one of these next things to do.
TypeOK ==
  /\ run \in RunStatuses
  /\ steps \in [Steps -> Row]
  /\ made \in 0..MaxSteps /\ policy \in DOMAIN Policies
  /\ req \in [Requests -> RequestType]
  /\ edits \in Nat /\ faults \in Nat
  /\ plan \in Seq(Steps) /\ needs \in [Steps -> SUBSET Steps]
  /\ consent \in [Steps -> Tools \cup {NoTool}]
  /\ wrong \subseteq {"mixed", "loose", "trimmed", "early", "unapproved"}

Quiet == Busy = {}

\* No fault, no requests that mixed, and no answer naming an index that is no step's.
Undisturbed == faults = 0 /\ wrong \cap {"mixed", "loose"} = {}

\* The statements of an edit add up to what the user asked for: when no request is under way
\* the steps stand at 1, 2, ... in the users' order and each depends, by index, on the very
\* steps it was made to depend on, however often these moved.
PlanIsAsEdited ==
  Quiet /\ Undisturbed /\ run # "failed" =>
    /\ Order = plan
    /\ \A i \in DOMAIN plan : steps[plan[i]].index = i /\ ById(steps[plan[i]].deps) = needs[plan[i]]

\* A step runs only when those it was made to depend on, or else those before it, are done:
\* also when edits moved them, and when other steps are executed or skipped meanwhile.
StepsRunInOrder == Undisturbed => "early" \notin wrong

\* A tool that needs approval runs in a step only if a user approved that tool in that step:
\* across edits, moves, retries, changes of the agent and requests that died.
ApprovedBeforeRun == "mixed" \notin wrong => "unapproved" \notin wrong

\* A completed run has no open step, whatever died on the way.
CompletedIsDone == "mixed" \notin wrong /\ run = "completed" => AllDone

\* A run whose steps are all done does not wait for the user any more.
AllDoneIsCompleted ==
  Quiet /\ Undisturbed /\ Live # {} /\ AllDone => run # "pending_approval"

\* ... and so it is unless the user deleted the last open step: whichever of several requests
\* executed or skipped its step last sees that it was the last.
LastDoneCompletes == "trimmed" \notin wrong => AllDoneIsCompleted
=============================================================================
